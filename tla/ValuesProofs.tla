---------------------------- MODULE ValuesProofs ----------------------------
(***************************************************************************)
(* The ownership of values for any heap, any leaves and keys and any       *)
(* number of values: nothing is owned twice, nothing that is owned was     *)
(* deleted, only HashValue::Insert can leak, and a deep copy has the       *)
(* content of the original.                                                *)
(***************************************************************************)
EXTENDS Values, SequenceTheorems, TLAPS

(***************************************************************************)
(* Lists of entries.  A list has its elements once if it is injective.     *)
(***************************************************************************)

\* Putting the list t into the list s after the first j elements.
Splice(s, j, t) == SubSeq(s, 1, j) \o t \o SubSeq(s, j + 1, Len(s))

\* The elements of a list, by their places.
LEMMA ToSetOf ==
    ASSUME NEW T, NEW s \in Seq(T)
    PROVE  /\ ToSet(s) \subseteq T
           /\ \A x : x \in ToSet(s) <=> \E i \in 1 .. Len(s) : s[i] = x
           /\ IsInjective(s) <=> \A i, j \in 1 .. Len(s) : s[i] = s[j] => i = j
<1>1. DOMAIN s = 1 .. Len(s) /\ \A i \in 1 .. Len(s) : s[i] \in T
  OBVIOUS
<1>2. \A x : x \in ToSet(s) <=> \E i \in 1 .. Len(s) : s[i] = x
  BY <1>1 DEF ToSet
<1>3. ToSet(s) \subseteq T
  BY <1>1, <1>2
<1>4. IsInjective(s) <=> \A i, j \in 1 .. Len(s) : s[i] = s[j] => i = j
  BY <1>1 DEF IsInjective
<1> QED  BY <1>2, <1>3, <1>4

\* Where the elements of two lists are when the one follows the other.
LEMMA ConcatPlaces ==
    ASSUME NEW T, NEW a \in Seq(T), NEW b \in Seq(T), NEW w, w = a \o b
    PROVE  /\ w \in Seq(T)
           /\ Len(w) = Len(a) + Len(b)
           /\ \A i \in 1 .. Len(a) : w[i] = a[i]
           /\ \A i \in 1 .. Len(b) : w[Len(a) + i] = b[i]
<1>1. /\ w \in Seq(T)
      /\ Len(w) = Len(a) + Len(b)
      /\ \A i \in 1 .. Len(a) + Len(b) : w[i] = IF i <= Len(a) THEN a[i] ELSE b[i - Len(a)]
  BY ConcatProperties
<1>2. Len(a) \in Nat /\ Len(b) \in Nat
  OBVIOUS
<1>3. ASSUME NEW i \in 1 .. Len(a) PROVE w[i] = a[i]
  <2>1. i \in 1 .. Len(a) + Len(b) /\ i <= Len(a)
    BY <1>2
  <2> QED  BY <1>1, <2>1
<1>4. ASSUME NEW i \in 1 .. Len(b) PROVE w[Len(a) + i] = b[i]
  <2>1. Len(a) + i \in 1 .. Len(a) + Len(b) /\ ~(Len(a) + i <= Len(a)) /\ (Len(a) + i) - Len(a) = i
    BY <1>2
  <2>2. w[Len(a) + i] = b[(Len(a) + i) - Len(a)]
    BY <1>1, <2>1
  <2> QED  BY <2>1, <2>2
<1> QED  BY <1>1, <1>3, <1>4

\* u has the elements of s with those of t after the first j.
SplicedAt(s, j, t, u) ==
    /\ Len(u) = Len(s) + Len(t)
    /\ \A i \in 1 .. j : u[i] = s[i]
    /\ \A i \in 1 .. Len(t) : u[j + i] = t[i]
    /\ \A i \in (j + 1) .. Len(s) : u[i + Len(t)] = s[i]

\* Where the elements are after a splice.
LEMMA SplicePlaces ==
    ASSUME NEW T, NEW s \in Seq(T), NEW t \in Seq(T), NEW j \in 0 .. Len(s),
           NEW u, u = Splice(s, j, t)
    PROVE  u \in Seq(T) /\ SplicedAt(s, j, t, u)
<1> DEFINE a == SubSeq(s, 1, j)
           b == SubSeq(s, j + 1, Len(s))
<1>1. a \in Seq(T) /\ Len(a) = j /\ \A i \in 1 .. j : a[i] = s[i]
  OBVIOUS
<1>2. b \in Seq(T) /\ Len(b) = Len(s) - j /\ \A i \in 1 .. (Len(s) - j) : b[i] = s[j + i]
  OBVIOUS
<1> HIDE DEF a, b
<1>3. PICK w : w = a \o t
  OBVIOUS
<1>4. u = w \o b
  BY <1>3 DEF Splice, a, b
<1>5. /\ w \in Seq(T) /\ Len(w) = j + Len(t) /\ Len(t) \in Nat
      /\ \A i \in 1 .. j : w[i] = s[i]
      /\ \A i \in 1 .. Len(t) : w[j + i] = t[i]
  <2>1. /\ w \in Seq(T) /\ Len(w) = Len(a) + Len(t)
        /\ \A i \in 1 .. Len(a) : w[i] = a[i]
        /\ \A i \in 1 .. Len(t) : w[Len(a) + i] = t[i]
    <3>1. a \in Seq(T) /\ w = a \o t
      BY <1>1, <1>3
    <3> QED  BY <3>1, ConcatPlaces
  <2> QED  BY <1>1, <2>1
<1>6. /\ u \in Seq(T)
      /\ Len(u) = Len(s) + Len(t)
      /\ \A i \in 1 .. Len(w) : u[i] = w[i]
      /\ \A i \in 1 .. Len(b) : u[Len(w) + i] = b[i]
  <2>1. /\ u \in Seq(T) /\ Len(u) = Len(w) + Len(b)
        /\ \A i \in 1 .. Len(w) : u[i] = w[i]
        /\ \A i \in 1 .. Len(b) : u[Len(w) + i] = b[i]
    <3>1. w \in Seq(T) /\ b \in Seq(T) /\ u = w \o b
      BY <1>2, <1>4, <1>5
    <3> QED  BY <3>1, ConcatPlaces
  <2>2. Len(w) + Len(b) = Len(s) + Len(t)
    BY <1>2, <1>5
  <2> QED  BY <2>1, <2>2
<1>7. \A i \in 1 .. j : u[i] = s[i]
  <2>1. \A i \in 1 .. j : i \in 1 .. Len(w)
    BY <1>5
  <2> QED  BY <1>5, <1>6, <2>1
<1>8. \A i \in 1 .. Len(t) : u[j + i] = t[i]
  <2>1. \A i \in 1 .. Len(t) : j + i \in 1 .. Len(w)
    BY <1>5
  <2> QED  BY <1>5, <1>6, <2>1
<1>9. ASSUME NEW i \in (j + 1) .. Len(s) PROVE u[i + Len(t)] = s[i]
  <2>1. /\ i - j \in 1 .. Len(b) /\ i + Len(t) = Len(w) + (i - j)
        /\ i - j \in 1 .. (Len(s) - j) /\ j + (i - j) = i
    BY <1>2, <1>5
  <2>2. u[Len(w) + (i - j)] = b[i - j]
    BY <1>6, <2>1
  <2>3. b[i - j] = s[j + (i - j)]
    BY <1>2, <2>1
  <2> QED  BY <2>1, <2>2, <2>3
<1> QED  BY <1>6, <1>7, <1>8, <1>9 DEF SplicedAt

\* u has the elements of s and of t, once if s and t have them once and share
\* none.
Joined(T, s, t, u) ==
    /\ u \in Seq(T)
    /\ Len(u) = Len(s) + Len(t)
    /\ ToSet(u) = ToSet(s) \cup ToSet(t)
    /\ IsInjective(s) /\ IsInjective(t) /\ ToSet(s) \cap ToSet(t) = {} => IsInjective(u)

\* A splice adds the elements of t to those of s.
LEMMA SpliceFacts ==
    ASSUME NEW T, NEW s \in Seq(T), NEW t \in Seq(T), NEW j \in 0 .. Len(s),
           NEW u, u = Splice(s, j, t)
    PROVE  Joined(T, s, t, u)
<1>2. /\ u \in Seq(T)
      /\ Len(u) = Len(s) + Len(t)
      /\ \A i \in 1 .. j : u[i] = s[i]
      /\ \A i \in 1 .. Len(t) : u[j + i] = t[i]
      /\ \A i \in (j + 1) .. Len(s) : u[i + Len(t)] = s[i]
  <2>1. u \in Seq(T) /\ SplicedAt(s, j, t, u)
    BY SplicePlaces
  <2> QED  BY <2>1 DEF SplicedAt
<1>3. Len(s) \in Nat /\ Len(t) \in Nat /\ j \in Nat /\ j <= Len(s)
  OBVIOUS
<1>4. ASSUME NEW i \in 1 .. Len(u)
      PROVE  \/ i \in 1 .. j /\ u[i] = s[i]
             \/ i - j \in 1 .. Len(t) /\ u[i] = t[i - j]
             \/ i - Len(t) \in (j + 1) .. Len(s) /\ u[i] = s[i - Len(t)]
  <2>1. \/ i \in 1 .. j
        \/ i - j \in 1 .. Len(t) /\ j + (i - j) = i
        \/ i - Len(t) \in (j + 1) .. Len(s) /\ (i - Len(t)) + Len(t) = i
    BY <1>2, <1>3
  <2> QED  BY <1>2, <2>1
<1>5. \A x : x \in ToSet(u) => x \in ToSet(s) \cup ToSet(t)
  <2>1. SUFFICES ASSUME NEW i \in 1 .. Len(u) PROVE u[i] \in ToSet(s) \cup ToSet(t)
    BY <1>2, ToSetOf
  <2>2. i \in 1 .. j => i \in 1 .. Len(s)
    BY <1>3
  <2>3. i - Len(t) \in (j + 1) .. Len(s) => i - Len(t) \in 1 .. Len(s)
    BY <1>3
  <2> QED  BY <1>4, <2>2, <2>3, ToSetOf
<1>6. \A x : x \in ToSet(s) \cup ToSet(t) => x \in ToSet(u)
  <2>1. ASSUME NEW i \in 1 .. Len(s) PROVE \E k \in 1 .. Len(u) : u[k] = s[i]
    <3>1. i \in 1 .. j \/ i \in (j + 1) .. Len(s)
      BY <1>3
    <3>2. i \in 1 .. Len(u) /\ i + Len(t) \in 1 .. Len(u)
      BY <1>2, <1>3
    <3> QED  BY <1>2, <3>1, <3>2
  <2>2. ASSUME NEW i \in 1 .. Len(t) PROVE \E k \in 1 .. Len(u) : u[k] = t[i]
    <3>1. j + i \in 1 .. Len(u)
      BY <1>2, <1>3
    <3> QED  BY <1>2, <3>1
  <2>3. \A x : x \in ToSet(s) => x \in ToSet(u)
    <3>1. \A x : x \in ToSet(s) <=> \E i \in 1 .. Len(s) : s[i] = x
      BY ToSetOf
    <3>2. \A x : x \in ToSet(u) <=> \E i \in 1 .. Len(u) : u[i] = x
      BY <1>2, ToSetOf
    <3> QED  BY <2>1, <3>1, <3>2
  <2>4. \A x : x \in ToSet(t) => x \in ToSet(u)
    <3>1. \A x : x \in ToSet(t) <=> \E i \in 1 .. Len(t) : t[i] = x
      BY ToSetOf
    <3>2. \A x : x \in ToSet(u) <=> \E i \in 1 .. Len(u) : u[i] = x
      BY <1>2, ToSetOf
    <3> QED  BY <2>2, <3>1, <3>2
  <2> QED  BY <2>3, <2>4
<1>7. ToSet(u) = ToSet(s) \cup ToSet(t)
  BY <1>5, <1>6
<1>8. ASSUME IsInjective(s), IsInjective(t), ToSet(s) \cap ToSet(t) = {}
      PROVE  IsInjective(u)
  <2>1. \A i, k \in 1 .. Len(s) : s[i] = s[k] => i = k
    BY <1>8, ToSetOf
  <2>2. \A i, k \in 1 .. Len(t) : t[i] = t[k] => i = k
    BY <1>8, ToSetOf
  <2>3. \A i \in 1 .. Len(s), k \in 1 .. Len(t) : s[i] # t[k]
    BY <1>8, ToSetOf
  <2> DEFINE Place(i) ==
        \/ i \in 1 .. Len(s) /\ i <= j /\ u[i] = s[i]
        \/ i - j \in 1 .. Len(t) /\ u[i] = t[i - j]
        \/ i - Len(t) \in 1 .. Len(s) /\ i - Len(t) > j /\ u[i] = s[i - Len(t)]
  <2>4. ASSUME NEW i \in 1 .. Len(u) PROVE Place(i)
    <3>1. CASE i \in 1 .. j /\ u[i] = s[i]
      BY <1>3, <3>1
    <3>2. CASE i - Len(t) \in (j + 1) .. Len(s) /\ u[i] = s[i - Len(t)]
      BY <1>3, <3>2
    <3> QED  BY <1>4, <3>1, <3>2
  <2>5. ASSUME NEW i \in 1 .. Len(u), NEW k \in 1 .. Len(u), u[i] = u[k] PROVE i = k
    <3>1. Place(i) /\ Place(k)
      BY <2>4
    <3>2. CASE i \in 1 .. Len(s) /\ i <= j /\ u[i] = s[i]
      <4>1. CASE k \in 1 .. Len(s) /\ u[k] = s[k]
        BY <2>1, <2>5, <3>2, <4>1
      <4>2. CASE k - Len(t) \in 1 .. Len(s) /\ k - Len(t) > j /\ u[k] = s[k - Len(t)]
        <5>1. i = k - Len(t)
          BY <2>1, <2>5, <3>2, <4>2
        <5> QED  BY <1>3, <3>2, <4>2, <5>1
      <4> QED  BY <2>3, <2>5, <3>1, <3>2, <4>1, <4>2
    <3>3. CASE i - j \in 1 .. Len(t) /\ u[i] = t[i - j]
      <4>1. k - j \in 1 .. Len(t) /\ u[k] = t[k - j]
        BY <2>3, <2>5, <3>1, <3>3
      <4>2. i - j = k - j
        BY <2>2, <2>5, <3>3, <4>1
      <4> QED  BY <1>3, <4>2
    <3>4. CASE i - Len(t) \in 1 .. Len(s) /\ i - Len(t) > j /\ u[i] = s[i - Len(t)]
      <4>1. CASE k \in 1 .. Len(s) /\ k <= j /\ u[k] = s[k]
        <5>1. i - Len(t) = k
          BY <2>1, <2>5, <3>4, <4>1
        <5> QED  BY <1>3, <3>4, <4>1, <5>1
      <4>2. CASE k - Len(t) \in 1 .. Len(s) /\ u[k] = s[k - Len(t)]
        <5>1. i - Len(t) = k - Len(t)
          BY <2>1, <2>5, <3>4, <4>2
        <5> QED  BY <1>3, <5>1
      <4> QED  BY <2>3, <2>5, <3>1, <3>4, <4>1, <4>2
    <3> QED  BY <3>1, <3>2, <3>3, <3>4
  <2> QED  BY <1>2, <2>5, ToSetOf
<1> QED  BY <1>2, <1>7, <1>8 DEF Joined

\* Putting the list t at the end of s.
LEMMA ConcatFacts ==
    ASSUME NEW T, NEW s \in Seq(T), NEW t \in Seq(T)
    PROVE  Joined(T, s, t, s \o t)
<1>1. Len(s) \in 0 .. Len(s)
  OBVIOUS
<1>2. SubSeq(s, 1, Len(s)) = s
  OBVIOUS
<1>3. SubSeq(s, Len(s) + 1, Len(s)) = <<>>
  OBVIOUS
<1>4. (s \o t) \o <<>> = s \o t
  BY ConcatProperties, ConcatEmptySeq
<1>5. Splice(s, Len(s), t) = s \o t
  BY <1>2, <1>3, <1>4 DEF Splice
<1> QED  BY <1>1, <1>5, SpliceFacts

\* A list of one element.
LEMMA OneFacts ==
    ASSUME NEW T, NEW v \in T
    PROVE  <<v>> \in Seq(T) /\ Len(<<v>>) = 1 /\ ToSet(<<v>>) = {v} /\ IsInjective(<<v>>)
  BY DEF ToSet, IsInjective

\* Putting v at the end, or at place k.
LEMMA InsertFacts ==
    ASSUME NEW T, NEW s \in Seq(T), NEW v \in T, v \notin ToSet(s), IsInjective(s)
    PROVE  /\ Append(s, v) \in Seq(T)
           /\ Len(Append(s, v)) = Len(s) + 1
           /\ ToSet(Append(s, v)) = ToSet(s) \cup {v}
           /\ IsInjective(Append(s, v))
           /\ \A k \in 1 .. Len(s) + 1 :
                 /\ InsertAt(s, k, v) \in Seq(T)
                 /\ Len(InsertAt(s, k, v)) = Len(s) + 1
                 /\ ToSet(InsertAt(s, k, v)) = ToSet(s) \cup {v}
                 /\ IsInjective(InsertAt(s, k, v))
<1>1. <<v>> \in Seq(T) /\ Len(<<v>>) = 1 /\ ToSet(<<v>>) = {v} /\ IsInjective(<<v>>)
  BY OneFacts
<1>2. ToSet(s) \cap ToSet(<<v>>) = {}
  BY <1>1
<1>3. Append(s, v) = s \o <<v>>
  OBVIOUS
<1>4. ASSUME NEW k \in 1 .. Len(s) + 1 PROVE InsertAt(s, k, v) = Splice(s, k - 1, <<v>>)
  <2>1. (k - 1) + 1 = k
    OBVIOUS
  <2> QED  BY <2>1 DEF InsertAt, Splice
<1>5. ASSUME NEW k \in 1 .. Len(s) + 1 PROVE k - 1 \in 0 .. Len(s)
  OBVIOUS
<1>6. /\ Append(s, v) \in Seq(T) /\ Len(Append(s, v)) = Len(s) + 1
      /\ ToSet(Append(s, v)) = ToSet(s) \cup {v} /\ IsInjective(Append(s, v))
  <2>1. Joined(T, s, <<v>>, Append(s, v))
    BY <1>1, <1>3, ConcatFacts
  <2> QED  BY <1>1, <1>2, <2>1 DEF Joined
<1>7. ASSUME NEW k \in 1 .. Len(s) + 1
      PROVE  /\ InsertAt(s, k, v) \in Seq(T) /\ Len(InsertAt(s, k, v)) = Len(s) + 1
             /\ ToSet(InsertAt(s, k, v)) = ToSet(s) \cup {v} /\ IsInjective(InsertAt(s, k, v))
  <2>1. Joined(T, s, <<v>>, InsertAt(s, k, v))
    BY <1>1, <1>4, <1>5, SpliceFacts
  <2> QED  BY <1>1, <1>2, <2>1 DEF Joined
<1> QED  BY <1>6, <1>7

\* Removing the element at place k.
LEMMA RemoveFacts ==
    ASSUME NEW T, NEW s \in Seq(T), NEW k \in 1 .. Len(s), IsInjective(s)
    PROVE  /\ RemoveAt(s, k) \in Seq(T)
           /\ ToSet(RemoveAt(s, k)) = ToSet(s) \ {s[k]}
           /\ IsInjective(RemoveAt(s, k))
<1> DEFINE a == SubSeq(s, 1, k - 1)
           b == SubSeq(s, k + 1, Len(s))
<1>1. a \in Seq(T) /\ Len(a) = k - 1 /\ \A i \in 1 .. (k - 1) : a[i] = s[i]
  OBVIOUS
<1>2. b \in Seq(T) /\ Len(b) = Len(s) - k /\ \A i \in 1 .. (Len(s) - k) : b[i] = s[k + i]
  OBVIOUS
<1> HIDE DEF a, b
<1>3. PICK u : u = a \o b
  OBVIOUS
<1>4. u = RemoveAt(s, k)
  BY <1>3 DEF RemoveAt, a, b
<1>5. /\ u \in Seq(T) /\ Len(u) = Len(s) - 1
      /\ \A i \in 1 .. (k - 1) : u[i] = s[i]
  BY <1>1, <1>2, <1>3
<1>6. ASSUME NEW i \in k .. (Len(s) - 1) PROVE u[i] = s[i + 1]
  <2>1. i - (k - 1) \in 1 .. Len(b) /\ i = Len(a) + (i - (k - 1)) /\ k + (i - (k - 1)) = i + 1
    BY <1>1, <1>2
  <2>2. u[i] = b[i - (k - 1)]
    BY <1>1, <1>2, <1>3, <2>1
  <2> QED  BY <1>2, <2>1, <2>2
<1>7. \A i, l \in 1 .. Len(s) : s[i] = s[l] => i = l
  BY ToSetOf
<1>8. Len(s) \in Nat
  OBVIOUS
<1>9. ASSUME NEW i \in 1 .. Len(u)
      PROVE  \/ i < k /\ i \in 1 .. Len(s) /\ u[i] = s[i]
             \/ i >= k /\ i + 1 \in 1 .. Len(s) /\ u[i] = s[i + 1]
  BY <1>5, <1>6, <1>8
<1>10. ASSUME NEW i \in 1 .. Len(s), i # k PROVE \E l \in 1 .. Len(u) : u[l] = s[i]
  <2>1. i \in 1 .. (k - 1) \/ (i - 1 \in k .. (Len(s) - 1) /\ (i - 1) + 1 = i /\ i > k)
    BY <1>8, <1>10
  <2>2. i < k => i \in 1 .. Len(u)
    BY <1>5, <1>8
  <2>3. i > k => i - 1 \in 1 .. Len(u)
    BY <1>5, <1>8
  <2>4. CASE i \in 1 .. (k - 1)
    <3>1. i < k /\ u[i] = s[i]
      BY <1>5, <2>4
    <3> QED  BY <2>2, <3>1
  <2>5. CASE i - 1 \in k .. (Len(s) - 1) /\ (i - 1) + 1 = i /\ i > k
    <3>1. u[i - 1] = s[i]
      BY <1>6, <2>5
    <3> QED  BY <2>3, <2>5, <3>1
  <2> QED  BY <2>1, <2>4, <2>5
<1>11. \A x : x \in ToSet(u) <=> x \in ToSet(s) /\ x # s[k]
  <2>1. ASSUME NEW i \in 1 .. Len(u) PROVE u[i] \in ToSet(s) /\ u[i] # s[k]
    <3>1. PICK l \in 1 .. Len(s) : u[i] = s[l] /\ l # k
      BY <1>8, <1>9
    <3> QED  BY <1>7, <3>1, ToSetOf
  <2>2. ASSUME NEW i \in 1 .. Len(s), s[i] # s[k] PROVE s[i] \in ToSet(u)
    BY <1>5, <1>10, <2>2, ToSetOf
  <2> QED  BY <1>5, <2>1, <2>2, ToSetOf
<1>12. IsInjective(u)
  <2>1. ASSUME NEW i \in 1 .. Len(u), NEW l \in 1 .. Len(u), u[i] = u[l] PROVE i = l
    BY <1>7, <1>8, <1>9, <2>1
  <2> QED  BY <1>5, <2>1, ToSetOf
<1> QED  BY <1>4, <1>5, <1>11, <1>12

\* Putting v in the place of the element at place k.
LEMMA ReplaceFacts ==
    ASSUME NEW T, NEW s \in Seq(T), NEW k \in 1 .. Len(s), IsInjective(s),
           NEW v \in T, v \notin ToSet(s)
    PROVE  LET u == [s EXCEPT ![k] = v]
           IN  /\ u \in Seq(T) /\ Len(u) = Len(s)
               /\ ToSet(u) = (ToSet(s) \ {s[k]}) \cup {v}
               /\ IsInjective(u)
<1>1. PICK u : u = [s EXCEPT ![k] = v]
  OBVIOUS
<1>2. u \in Seq(T) /\ Len(u) = Len(s)
  BY <1>1, ExceptSeq
<1>3. u[k] = v /\ \A i \in 1 .. Len(s) : i # k => u[i] = s[i]
  BY <1>1
<1>4. \A i, l \in 1 .. Len(s) : s[i] = s[l] => i = l
  BY ToSetOf
<1>5. \A i \in 1 .. Len(s) : s[i] # v
  BY ToSetOf
<1>6. \A x : x \in ToSet(u) <=> x = v \/ (x \in ToSet(s) /\ x # s[k])
  <2>1. \A x : x \in ToSet(u) => x = v \/ (x \in ToSet(s) /\ x # s[k])
    BY <1>2, <1>3, <1>4, ToSetOf
  <2>2. \A x : x \in ToSet(s) /\ x # s[k] => x \in ToSet(u)
    BY <1>2, <1>3, ToSetOf
  <2>3. v \in ToSet(u)
    BY <1>2, <1>3, ToSetOf
  <2> QED  BY <2>1, <2>2, <2>3
<1>7. IsInjective(u)
  <2>1. ASSUME NEW i \in 1 .. Len(u), NEW l \in 1 .. Len(u), u[i] = u[l] PROVE i = l
    BY <1>2, <1>3, <1>4, <1>5, <2>1
  <2> QED  BY <1>2, <2>1, ToSetOf
<1>8. ToSet(u) = (ToSet(s) \ {s[k]}) \cup {v}
  BY <1>6
<1> QED  BY <1>1, <1>2, <1>7, <1>8

(***************************************************************************)
(* What a destructor deletes.                                              *)
(***************************************************************************)

Closed(S) == \A x \in S : Kids(x) \subseteq S

\* The values a container owns are addresses, and a deleted value owns none.
LEMMA KidsFacts ==
    ASSUME TypeOK
    PROVE  /\ \A x \in Addr : Kids(x) \subseteq Addr
           /\ \A x \in Addr \ Live : Kids(x) = {}
           /\ Live \subseteq Addr
<1>1. ASSUME NEW x \in Addr PROVE Kids(x) \subseteq Addr
  <2>1. heap[x].kids \in Seq(Addr)
    BY DEF TypeOK
  <2> QED  BY <2>1, ToSetOf DEF Kids
<1>2. ASSUME NEW x \in Addr \ Live PROVE Kids(x) = {}
  <2>1. heap[x].kids = <<>>
    BY DEF TypeOK, Live, Containers
  <2> QED  BY <2>1 DEF Kids, ToSet
<1> QED  BY <1>1, <1>2 DEF Live

\* Reach(a) has a and all that its containers own, and is the least such set.
LEMMA ReachClosed ==
    ASSUME TypeOK, NEW a \in Addr
    PROVE  a \in Reach(a) /\ Reach(a) \subseteq Addr /\ Closed(Reach(a))
<1>1. a \in Reach(a) /\ Reach(a) \subseteq Addr
  BY DEF Reach
<1>2. ASSUME NEW x \in Reach(a), NEW y \in Kids(x) PROVE y \in Reach(a)
  BY <1>1, KidsFacts DEF Reach
<1> QED  BY <1>1, <1>2 DEF Closed

\* Any set with a that is closed has all of Reach(a).
LEMMA ReachLeast ==
    ASSUME NEW a, NEW S \in SUBSET Addr, a \in S, Closed(S)
    PROVE  Reach(a) \subseteq S
  BY DEF Reach, Closed

\* Every value below a is owned by another value below a.
LEMMA ReachOwned ==
    ASSUME TypeOK, NEW a \in Addr, NEW b \in Reach(a), b # a
    PROVE  \E x \in Reach(a) : b \in Kids(x)
<1>1. SUFFICES ASSUME \A x \in Reach(a) : b \notin Kids(x) PROVE FALSE
  OBVIOUS
<1> DEFINE S == Reach(a) \ {b}
<1>2. S \in SUBSET Addr /\ a \in S /\ Closed(S)
  BY <1>1, ReachClosed DEF Closed
<1>3. Reach(a) \subseteq S
  <2> HIDE DEF S
  <2> QED  BY <1>2, ReachLeast
<1> QED  BY <1>3

\* A live value leads to live values only, and so does the caller.
LEMMA ReachLive ==
    ASSUME SingleOwner
    PROVE  /\ \A a \in Live : Reach(a) \subseteq Live
           /\ Accessible \subseteq Live
<1>1. Live \in SUBSET Addr /\ Closed(Live)
  BY DEF SingleOwner, Closed, Live
<1>2. \A a \in Live : Reach(a) \subseteq Live
  BY <1>1, ReachLeast
<1> QED  BY <1>2 DEF Accessible, ReachAll, SingleOwner, TypeOK

\* A value the caller can get at is not below itself: were it owned from
\* below, then all owners of what is below would be below as well, and no way
\* would lead there from what the caller holds.
LEMMA NotBelowItself ==
    ASSUME SingleOwner, NEW c \in Accessible, NEW x \in Reach(c)
    PROVE  c \notin Kids(x)
<1>1. SUFFICES ASSUME c \in Kids(x) PROVE FALSE
  OBVIOUS
<1>2. TypeOK /\ c \in Addr /\ held \subseteq Addr
  BY ReachLive, KidsFacts DEF SingleOwner, TypeOK
<1>3. PICK h \in held : c \in Reach(h)
  BY DEF Accessible, ReachAll
<1> DEFINE S == Addr \ Reach(c)
<1>4. ASSUME NEW y \in Reach(c) PROVE \E z \in Reach(c) : y \in Kids(z)
  BY <1>1, <1>2, ReachOwned
<1>5. Reach(c) \subseteq Addr
  BY <1>2, ReachClosed
<1>6. h \in S
  BY <1>2, <1>4, <1>5 DEF SingleOwner
<1>7. Closed(S)
  <2>1. SUFFICES ASSUME NEW y \in S, NEW k \in Kids(y), k \in Reach(c) PROVE FALSE
    BY <1>2, KidsFacts DEF Closed
  <2>2. PICK z \in Reach(c) : k \in Kids(z)
    BY <1>4, <2>1
  <2> QED  BY <1>5, <2>1, <2>2 DEF SingleOwner
<1>8. Reach(h) \subseteq S
  <2>1. S \in SUBSET Addr
    OBVIOUS
  <2> HIDE DEF S
  <2> QED  BY <1>6, <1>7, <2>1, ReachLeast
<1>9. c \in Reach(c)
  BY <1>2, ReachClosed
<1> QED  BY <1>3, <1>8, <1>9

\* So a container is not below an entry of its own.
LEMMA NotBelowEntry ==
    ASSUME SingleOwner, NEW c \in Accessible, NEW k \in Kids(c)
    PROVE  c \notin Reach(k)
<1>1. SUFFICES ASSUME c \in Reach(k) PROVE FALSE
  OBVIOUS
<1>2. TypeOK /\ c \in Addr /\ k \in Addr
  BY ReachLive, KidsFacts DEF SingleOwner
<1>3. Reach(c) \in SUBSET Addr /\ c \in Reach(c) /\ Closed(Reach(c)) /\ k \in Reach(c)
  BY <1>2, ReachClosed DEF Closed
<1>4. Reach(k) \subseteq Reach(c)
  BY <1>3, ReachLeast
<1>5. CASE c = k
  BY <1>3, <1>5, NotBelowItself
<1>6. CASE c # k
  <2>1. PICK x \in Reach(k) : c \in Kids(x)
    BY <1>1, <1>2, <1>6, ReachOwned
  <2> QED  BY <1>4, <2>1, NotBelowItself
<1> QED  BY <1>5, <1>6

\* Only the owner of a points from outside to what is below a, and the caller
\* holds nothing of it but a.
LEMMA ReachPrivate ==
    ASSUME SingleOwner, NEW a \in Addr
    PROVE  /\ \A x \in Addr \ Reach(a) : Kids(x) \cap Reach(a) \subseteq {a}
           /\ held \cap Reach(a) \subseteq {a}
<1>1. TypeOK
  BY DEF SingleOwner
<1>2. Reach(a) \subseteq Addr
  BY <1>1, ReachClosed
<1>3. ASSUME NEW x \in Addr \ Reach(a), NEW y \in Kids(x), y \in Reach(a), y # a PROVE FALSE
  <2>1. PICK z \in Reach(a) : y \in Kids(z)
    BY <1>1, <1>3, ReachOwned
  <2> QED  BY <1>2, <1>3, <2>1 DEF SingleOwner
<1>4. ASSUME NEW y \in held, y \in Reach(a), y # a PROVE FALSE
  <2>1. PICK z \in Reach(a) : y \in Kids(z)
    BY <1>1, <1>4, ReachOwned
  <2> QED  BY <1>2, <2>1 DEF SingleOwner
<1> QED  BY <1>3, <1>4

\* What is below an entry is below its container.
LEMMA ReachBelow ==
    ASSUME TypeOK, NEW x \in Addr, NEW y \in Kids(x)
    PROVE  y \in Addr /\ Reach(y) \subseteq Reach(x)
<1>1. Reach(x) \in SUBSET Addr /\ y \in Reach(x) /\ Closed(Reach(x))
  BY ReachClosed DEF Closed
<1> QED  BY <1>1, ReachLeast

\* A container that takes values it is not below does not get below itself.
LEMMA GroundedEdit ==
    ASSUME TypeOK, Grounded, NEW c, NEW In,
           \A x \in Addr : Kids(x)' \subseteq IF x = c THEN Kids(x) \cup In ELSE Kids(x),
           \A v \in In : c \notin Reach(v)
    PROVE  Grounded'
<1>1. SUFFICES ASSUME NEW S \in SUBSET Addr, S # {}, \A x \in S : Kids(x)' \cap S # {}
               PROVE  FALSE
  BY DEF Grounded
<1> DEFINE T == {x \in S : c \notin Reach(x)}
<1>2. T = {}
  <2>1. SUFFICES ASSUME T # {} PROVE FALSE
    OBVIOUS
  <2>2. PICK x \in T : Kids(x) \cap T = {}
    <3>1. T \in SUBSET Addr
      OBVIOUS
    <3> HIDE DEF T
    <3> QED  BY <2>1, <3>1 DEF Grounded
  <2>3. x \in Addr /\ x # c
    BY <2>2, ReachClosed
  <2>4. PICK y \in S : y \in Kids(x)
    BY <1>1, <2>2, <2>3
  <2>5. c \in Reach(y)
    BY <2>2, <2>4
  <2> QED  BY <2>2, <2>3, <2>4, <2>5, ReachBelow
<1>3. PICK x \in S : Kids(x) \cap S = {}
  BY <1>1 DEF Grounded
<1>4. PICK y \in S : y \in Kids(x)'
  BY <1>1, <1>3
<1>5. y \in In
  BY <1>1, <1>3, <1>4
<1> QED  BY <1>2, <1>4, <1>5

(***************************************************************************)
(* The shape that the operations share: the values of F are deleted, those *)
(* of N are created, the container c takes the values In and gives up Out, *)
(* of which D is dropped.                                                  *)
(***************************************************************************)

HeapOK ==
    /\ heap \in [Addr -> [type : Containers \cup {"null", "free"} \cup Signed \cup Unsigned,
                         raw : Int, kids : Seq(Addr), keys : Seq(Key)]]
    /\ \A a \in Addr :
          /\ heap[a].type \notin Containers => heap[a].kids = <<>>
          /\ heap[a].type = "zset" => Len(heap[a].kids) % 2 = 0
          /\ Len(heap[a].keys) = IF heap[a].type = "hash" THEN Len(heap[a].kids) ELSE 0
          /\ heap[a].type \in Unsigned => -Word <= 2 * heap[a].raw /\ 2 * heap[a].raw < Word

KidsAfter(c, F, In, Out) ==
    \A x \in Addr : Kids(x)' = IF x \in F THEN {}
                              ELSE IF x = c THEN (Kids(c) \ Out) \cup In
                              ELSE Kids(x)

Changes(c, F, N, In, Out) ==
    /\ HeapOK'
    /\ F \subseteq Addr /\ N \subseteq Unused
    /\ Live' = (Live \ F) \cup N
    /\ KidsAfter(c, F, In, Out)
    /\ \A x \in Addr : IsInjective(heap'[x].kids)

Moves(c, F, N, In, Out, D) ==
    /\ Changes(c, F, N, In, Out)
    \* what is deleted is not pointed to from elsewhere, and nothing below it is left
    /\ Closed(F)
    /\ \A x \in Addr \ F : Kids(x) \cap F \subseteq IF x = c THEN Out ELSE {}
    \* c takes what the caller held or what is new
    /\ In \subseteq held \cup N /\ In \cap F = {} /\ (In # {} => c \in Addr \ F)
    /\ Out \subseteq Kids(c) /\ Out \subseteq F \cup held' \cup D /\ (Out # {} => c \in Addr \ F)
    \* the caller is left with what it did not give away
    /\ held' \cap In = {} /\ held' \cap F = {} /\ held' \subseteq held \cup N \cup Out
    /\ held \subseteq held' \cup In \cup F
    /\ N \subseteq In \cup held'
    \* c is not below what it takes
    /\ \A v \in In : c \notin Reach(v)

\* Such a step keeps every value with one owner and loses D at most.
LEMMA MoveKeeps ==
    ASSUME SingleOwner, NEW c, NEW F, NEW N, NEW In, NEW Out, NEW D, Moves(c, F, N, In, Out, D)
    PROVE  SingleOwner' /\ Lost' \subseteq Lost \cup D
<1> DEFINE Old(x) == Kids(x)
           New(x) == Kids(x)'
<1>1. /\ \A x \in Addr : Old(x) \subseteq Live \ held
      /\ \A x, y \in Addr : x # y => Old(x) \cap Old(y) = {}
      /\ held \subseteq Live /\ Live \subseteq Addr
      /\ \A x \in Addr \ Live : Old(x) = {}
  BY KidsFacts DEF SingleOwner, TypeOK
<1>2. \A x \in Addr : New(x) = IF x \in F THEN {}
                              ELSE IF x = c THEN (Old(c) \ Out) \cup In
                              ELSE Old(x)
  BY DEF Moves, Changes, KidsAfter
<1>3. N \cap Live = {} /\ N \subseteq Addr /\ Live' = (Live \ F) \cup N /\ F \subseteq Addr
  BY DEF Moves, Changes, Unused
<1>4. \A x \in F : Old(x) \subseteq F
  BY DEF Moves, Closed
<1>5. \A x \in Addr \ F : Old(x) \cap F \subseteq IF x = c THEN Out ELSE {}
  BY DEF Moves
<1>6. /\ In \subseteq held \cup N /\ In \cap F = {} /\ (In # {} => c \in Addr \ F)
      /\ Out \subseteq Old(c) /\ Out \subseteq F \cup held' \cup D /\ (Out # {} => c \in Addr \ F)
      /\ held' \cap In = {} /\ held' \cap F = {} /\ held' \subseteq held \cup N \cup Out
      /\ held \subseteq held' \cup In \cup F
      /\ N \subseteq In \cup held'
  BY DEF Moves
<1>7. Lost = {a \in Live \ held : \A x \in Addr : a \notin Old(x)}
      /\ Lost' = {a \in Live' \ held' : \A x \in Addr : a \notin New(x)}
  BY DEF Lost
<1> HIDE DEF Old, New
<1>8. held' \subseteq Live'
  BY <1>1, <1>3, <1>6
<1>9. ASSUME NEW x \in Addr PROVE New(x) \subseteq Live' \ held'
  <2>1. CASE x \in F
    BY <1>2, <2>1
  <2>2. CASE x \notin F /\ x = c
    BY <1>1, <1>2, <1>3, <1>5, <1>6, <2>2
  <2>3. CASE x \notin F /\ x # c
    <3>1. New(x) = Old(x) /\ Old(x) \cap F = {}
      BY <1>2, <1>5, <2>3
    <3>2. Old(x) \cap Out = {}
      BY <1>1, <1>6, <2>3
    <3> QED  BY <1>1, <1>3, <1>6, <3>1, <3>2
  <2> QED  BY <2>1, <2>2, <2>3
<1>10. ASSUME NEW x \in Addr, NEW y \in Addr, x # y PROVE New(x) \cap New(y) = {}
  <2>1. In \cap Old(x) = {} /\ In \cap Old(y) = {}
    BY <1>1, <1>3, <1>6
  <2>2. Old(x) \cap Old(y) = {}
    BY <1>1, <1>10
  <2> QED  BY <1>2, <1>10, <2>1, <2>2
<1>11. SingleOwner'
  <2>1. TypeOK'
    BY <1>8 DEF TypeOK, Moves, Changes, HeapOK
  <2>2. \A x \in Addr : IsInjective(heap'[x].kids)
    BY DEF Moves, Changes
  <2>3. Grounded'
    <3>1. \A x \in Addr : New(x) \subseteq IF x = c THEN Old(x) \cup In ELSE Old(x)
      BY <1>2
    <3>2. TypeOK /\ Grounded /\ \A v \in In : c \notin Reach(v)
      BY DEF SingleOwner, Moves
    <3> QED  BY <3>1, <3>2, GroundedEdit DEF Old, New
  <2> QED  BY <1>9, <1>10, <2>1, <2>2, <2>3 DEF SingleOwner, New
<1>12. ASSUME NEW a \in Lost' PROVE a \in Lost \cup D
  <2>1. a \in Live' /\ a \notin held' /\ \A x \in Addr : a \notin New(x)
    BY <1>7, <1>12
  <2>2. a \notin In
    BY <1>2, <1>6, <2>1
  <2>3. a \in Live \ F /\ a \notin held
    BY <1>3, <1>6, <2>1, <2>2
  <2>4. ASSUME NEW x \in Addr, a \in Old(x) PROVE a \in D
    <3>1. x \notin F
      BY <1>4, <2>3, <2>4
    <3>2. x = c /\ a \in Out
      BY <1>2, <2>1, <2>4, <3>1
    <3> QED  BY <1>6, <2>1, <2>3, <3>2
  <2> QED  BY <1>7, <2>3, <2>4
<1> QED  BY <1>11, <1>12

\* A zset has as many values as keys, and an unsigned number fits its width.
PairsOK(n) == n.type = "zset" => Len(n.kids) % 2 = 0
NumberOK(n) == n.type \in Unsigned => -Word <= 2 * n.raw /\ 2 * n.raw < Word

\* What is at an address: only containers own values, and the keys of a hash
\* are as many as its values.
NodeOK(n) ==
    /\ n \in [type : Containers \cup {"null", "free"} \cup Signed \cup Unsigned,
              raw : Int, kids : Seq(Addr), keys : Seq(Key)]
    /\ n.type \notin Containers => n.kids = <<>>
    /\ Len(n.keys) = IF n.type = "hash" THEN Len(n.kids) ELSE 0
    /\ PairsOK(n) /\ NumberOK(n)

\* A value that was just created.
NewNode(n) == NodeOK(n) /\ n.type # "free" /\ n.kids = <<>>

\* The heap, address by address.
LEMMA HeapNodes ==
    /\ HeapOK <=> heap = [x \in Addr |-> heap[x]] /\ \A x \in Addr : NodeOK(heap[x])
    /\ TypeOK <=> held \subseteq Live /\ HeapOK
<1> DEFINE Nodes == [type : Containers \cup {"null", "free"} \cup Signed \cup Unsigned,
                     raw : Int, kids : Seq(Addr), keys : Seq(Key)]
<1>1. heap \in [Addr -> Nodes] <=> heap = [x \in Addr |-> heap[x]] /\ \A x \in Addr : heap[x] \in Nodes
  <2> HIDE DEF Nodes
  <2> QED  OBVIOUS
<1>2. HeapOK <=> heap = [x \in Addr |-> heap[x]] /\ \A x \in Addr : NodeOK(heap[x])
  BY <1>1 DEF HeapOK, NodeOK, PairsOK, NumberOK
<1> QED  BY <1>2 DEF TypeOK, HeapOK

\* No list, no elements.
LEMMA EmptyFacts == ToSet(<<>>) = {} /\ IsInjective(<<>>) /\ NodeOK(Free)
<1>1. Free = [type |-> "free", raw |-> 0, kids |-> <<>>, keys |-> <<>>]
  BY DEF Free, Node
<1>2. <<>> \in Seq(Addr) /\ <<>> \in Seq(Key) /\ Len(<<>>) = 0
  OBVIOUS
<1>3. NodeOK(Free)
  BY <1>1, <1>2 DEF NodeOK, PairsOK, NumberOK, Containers, Unsigned
<1> QED  BY <1>3 DEF ToSet, IsInjective

\* The heap after values were deleted and created, and c became the node n.
After(c, n, F, N, m) ==
    heap' = [x \in Addr |-> IF x = c THEN n
                            ELSE IF x \in F THEN Free
                            ELSE IF x \in N THEN m
                            ELSE heap[x]]

\* Some c is no address: an operation without a container changes no other.
LEMMA NoAddress == \E c : c \notin Addr
<1> DEFINE r == {x \in Addr : x \notin x}
<1>1. r \notin Addr
  OBVIOUS
<1> QED  BY <1>1

\* The node n is a right one for c: it has the entries of c without Out and
\* with In, once each.
Fits(c, n, In, Out) ==
    /\ NodeOK(n) /\ n.type # "free" /\ IsInjective(n.kids)
    /\ ToSet(n.kids) = (Kids(c) \ Out) \cup In

\* What such a heap means for the owners.
LEMMA ContainerChanges ==
    ASSUME SingleOwner, NEW c, NEW n, NEW In, NEW Out, NEW F \in SUBSET Live,
           c \notin Addr \/ (c \in Live \ F /\ Fits(c, n, In, Out)),
           NEW N \in SUBSET Unused, NEW m, N # {} => NewNode(m), After(c, n, F, N, m)
    PROVE  Changes(c, F, N, In, Out)
<1>1. /\ \A x \in Addr : NodeOK(heap[x]) /\ IsInjective(heap[x].kids)
      /\ Live \subseteq Addr /\ Live \cap N = {} /\ N \subseteq Addr /\ c \notin N
      /\ F \cap N = {} /\ F \subseteq Addr /\ c \notin F
  BY HeapNodes DEF SingleOwner, Live, Unused
<1>2. Free.kids = <<>> /\ Free.type = "free" /\ ToSet(<<>>) = {} /\ IsInjective(<<>>) /\ NodeOK(Free)
  BY EmptyFacts DEF Free, Node
<1>3. /\ c \in Addr => heap'[c] = n
      /\ \A x \in F : heap'[x] = Free
      /\ \A x \in N : heap'[x] = m
      /\ \A x \in Addr \ (F \cup N \cup {c}) : heap'[x] = heap[x]
      /\ heap' = [x \in Addr |-> heap'[x]]
  BY <1>1 DEF After
<1>4. \A x \in Addr : NodeOK(heap'[x]) /\ IsInjective(heap'[x].kids)
  BY <1>1, <1>2, <1>3 DEF NewNode, Fits
<1>5. HeapOK'
  <2> DEFINE Nodes == [type : Containers \cup {"null", "free"} \cup Signed \cup Unsigned,
                       raw : Int, kids : Seq(Addr), keys : Seq(Key)]
  <2>1. \A x \in Addr : heap'[x] \in Nodes
    BY <1>4 DEF NodeOK
  <2>2. heap' \in [Addr -> Nodes]
    <3> HIDE DEF Nodes
    <3> QED  BY <1>3, <2>1
  <2> QED  BY <1>4, <2>2 DEF HeapOK, NodeOK, PairsOK, NumberOK
<1>6. Live' = (Live \ F) \cup N
  <2>1. \A x \in N : heap'[x].type # "free"
    BY <1>3 DEF NewNode
  <2>2. c \in Addr => heap'[c].type # "free" /\ c \in Live
    BY <1>3 DEF Fits
  <2>3. \A x \in Addr : heap'[x].type # "free" <=> x \in (Live \ F) \cup N
    BY <1>1, <1>2, <1>3, <2>1, <2>2 DEF Live
  <2>4. Live' = {x \in Addr : heap'[x].type # "free"}
    BY DEF Live
  <2> QED  BY <1>1, <2>3, <2>4
<1>7. KidsAfter(c, F, In, Out)
  <2>1. ASSUME NEW x \in F PROVE Kids(x)' = {}
    BY <1>1, <1>2, <1>3 DEF Kids
  <2>2. ASSUME NEW x \in N PROVE Kids(x)' = {} /\ Kids(x) = {}
    <3>1. Kids(x) = {}
      BY <1>1, KidsFacts DEF SingleOwner
    <3>2. heap'[x].kids = <<>>
      BY <1>3 DEF NewNode
    <3> QED  BY <1>2, <3>1, <3>2 DEF Kids
  <2>3. c \in Addr => Kids(c)' = (Kids(c) \ Out) \cup In
    BY <1>3 DEF Kids, Fits
  <2>4. ASSUME NEW x \in Addr \ (F \cup N \cup {c}) PROVE Kids(x)' = Kids(x)
    BY <1>3 DEF Kids
  <2> QED  BY <1>1, <2>1, <2>2, <2>3, <2>4 DEF KidsAfter
<1> QED  BY <1>1, <1>4, <1>5, <1>6, <1>7 DEF Changes

(***************************************************************************)
(* The five ways in which values change hands.                             *)
(***************************************************************************)

\* Nothing is owned twice after the step, and nothing is lost by it.
Keeps == SingleOwner' /\ Lost' \subseteq Lost

\* A value is created for the caller.
LEMMA Created ==
    ASSUME SingleOwner, NEW a \in Unused, NEW m, NewNode(m),
           heap' = [heap EXCEPT ![a] = m], held' = held \cup {a}
    PROVE  Keeps
<1>1. PICK c : c \notin Addr
  BY NoAddress
<1>2. After(c, m, {}, {a}, m)
  <2>1. heap = [x \in Addr |-> heap[x]]
    BY HeapNodes DEF SingleOwner
  <2> QED  BY <1>1, <2>1 DEF After, Unused
<1>3. Changes(c, {}, {a}, {}, {})
  <2>1. {a} \in SUBSET Unused /\ {} \in SUBSET Live
    OBVIOUS
  <2> QED  BY <1>1, <1>2, <2>1, ContainerChanges
<1>4. held \subseteq Live /\ a \notin Live
  BY DEF SingleOwner, TypeOK, Unused
<1>5. Moves(c, {}, {a}, {}, {}, {})
  BY <1>3, <1>4 DEF Moves, Closed
<1>6. SingleOwner' /\ Lost' \subseteq Lost \cup {}
  BY <1>5, MoveKeeps
<1> QED  BY <1>6 DEF Keeps

\* A value the caller holds is deleted with all that is below it.
LEMMA Dropped ==
    ASSUME SingleOwner, NEW a \in held, heap' = Freed(Reach(a)), held' = held \ {a}
    PROVE  Keeps
<1>1. PICK c : c \notin Addr
  BY NoAddress
<1>2. a \in Live /\ a \in Addr /\ TypeOK
  BY DEF SingleOwner, TypeOK, Live
<1>3. After(c, Free, Reach(a), {}, Free)
  BY <1>1 DEF After, Freed
<1>4. Changes(c, Reach(a), {}, {}, {})
  <2>1. {} \in SUBSET Unused /\ Reach(a) \in SUBSET Live
    BY <1>2, ReachLive
  <2> QED  BY <1>1, <1>3, <2>1, ContainerChanges
<1>5. /\ Closed(Reach(a)) /\ a \in Reach(a)
      /\ \A x \in Addr \ Reach(a) : Kids(x) \cap Reach(a) \subseteq {a}
      /\ held \cap Reach(a) \subseteq {a}
  BY <1>2, ReachClosed, ReachPrivate
<1>6. \A x \in Addr : a \notin Kids(x)
  BY DEF SingleOwner
<1>7. Moves(c, Reach(a), {}, {}, {}, {})
  BY <1>1, <1>4, <1>5, <1>6 DEF Moves
<1>8. SingleOwner' /\ Lost' \subseteq Lost \cup {}
  BY <1>7, MoveKeeps
<1> QED  BY <1>8 DEF Keeps

\* The container c takes V, which the caller held, and N, which is new.
LEMMA Given ==
    ASSUME SingleOwner, NEW c \in Live, NEW n, NEW V \in SUBSET held,
           NEW N \in SUBSET Unused, NEW m, N # {} => NewNode(m),
           Fits(c, n, V \cup N, {}), After(c, n, {}, N, m), held' = held \ V,
           \A v \in V : MayGive(c, v)
    PROVE  Keeps
<1>1. Changes(c, {}, N, V \cup N, {})
  <2>1. {} \in SUBSET Live /\ c \in Live \ {}
    OBVIOUS
  <2> QED  BY <2>1, ContainerChanges
<1>2. held \subseteq Live /\ N \cap Live = {} /\ c \in Addr
  BY DEF SingleOwner, TypeOK, Unused, Live
<1>3. ASSUME NEW v \in N PROVE c \notin Reach(v)
  <2>1. v \in Addr /\ v # c /\ Kids(v) = {}
    BY <1>2, KidsFacts DEF SingleOwner, Unused
  <2>2. {v} \in SUBSET Addr /\ v \in {v} /\ Closed({v})
    BY <2>1 DEF Closed
  <2>3. Reach(v) \subseteq {v}
    BY <2>2, ReachLeast
  <2> QED  BY <2>1, <2>3
<1>5. Moves(c, {}, N, V \cup N, {}, {})
  BY <1>1, <1>2, <1>3 DEF Moves, Closed, MayGive
<1>4. SingleOwner' /\ Lost' \subseteq Lost \cup {}
  BY <1>5, MoveKeeps
<1> QED  BY <1>4 DEF Keeps

\* The container c takes V for its entry k, which is deleted.
LEMMA Replaced ==
    ASSUME SingleOwner, NEW c \in Accessible, NEW k \in Kids(c), NEW n,
           NEW V \in SUBSET held, Fits(c, n, V, {k}),
           After(c, n, Reach(k), {}, Free), held' = held \ V, \A v \in V : MayGive(c, v)
    PROVE  Keeps
<1>1. c \in Live /\ c \in Addr /\ k \in Live /\ k \in Addr /\ TypeOK /\ k \notin held
  BY ReachLive DEF SingleOwner, Live
<1>2. c \notin Reach(k)
  BY NotBelowEntry
<1>3. Changes(c, Reach(k), {}, V, {k})
  <2>1. {} \in SUBSET Unused /\ Reach(k) \in SUBSET Live
    BY <1>1, ReachLive
  <2> QED  BY <1>1, <1>2, <2>1, ContainerChanges
<1>4. /\ Closed(Reach(k)) /\ k \in Reach(k)
      /\ \A x \in Addr \ Reach(k) : Kids(x) \cap Reach(k) \subseteq {k}
      /\ held \cap Reach(k) \subseteq {k}
  BY <1>1, ReachClosed, ReachPrivate
<1>5. \A x \in Addr : x # c => k \notin Kids(x)
  BY <1>1 DEF SingleOwner
<1>6. \A x \in Addr \ Reach(k) : Kids(x) \cap Reach(k) \subseteq IF x = c THEN {k} ELSE {}
  BY <1>4, <1>5
<1>7. Moves(c, Reach(k), {}, V, {k}, {})
  <2>1. \A v \in V : c \notin Reach(v)
    BY DEF MayGive
  <2> QED  BY <1>1, <1>2, <1>3, <1>4, <1>6, <2>1 DEF Moves
<1>8. SingleOwner' /\ Lost' \subseteq Lost \cup {}
  BY <1>7, MoveKeeps
<1> QED  BY <1>8 DEF Keeps

\* The container c hands its entry k to the caller.
LEMMA HandedOut ==
    ASSUME SingleOwner, NEW c \in Live, NEW k \in Kids(c), NEW n, Fits(c, n, {}, {k}),
           After(c, n, {}, {}, Free), held' = held \cup {k}
    PROVE  Keeps
<1>1. Changes(c, {}, {}, {}, {k})
  <2>1. {} \in SUBSET Live /\ c \in Live \ {} /\ {} \in SUBSET Unused
    OBVIOUS
  <2> QED  BY <2>1, ContainerChanges
<1>2. c \in Addr
  BY DEF Live
<1>3. Moves(c, {}, {}, {}, {k}, {})
  BY <1>1, <1>2 DEF Moves, Closed
<1>4. SingleOwner' /\ Lost' \subseteq Lost \cup {}
  BY <1>3, MoveKeeps
<1> QED  BY <1>4 DEF Keeps

(***************************************************************************)
(* The operations.                                                         *)
(***************************************************************************)

\* What is known of a container the caller can get at and of a held value.
LEMMA Context ==
    ASSUME SingleOwner
    PROVE  /\ heap = [x \in Addr |-> heap[x]]
           /\ \A c \in Addr : /\ NodeOK(heap[c]) /\ heap[c].kids \in Seq(Addr)
                             /\ Kids(c) = ToSet(heap[c].kids) /\ IsInjective(heap[c].kids)
           /\ Accessible \subseteq Live /\ Live \subseteq Addr /\ held \subseteq Live
           /\ \A c \in Addr, v \in held : v \notin Kids(c)
           /\ \A c \in Addr, v \in Unused : v \notin Kids(c)
<1>1. /\ heap = [x \in Addr |-> heap[x]]
      /\ \A c \in Addr : NodeOK(heap[c])
  BY HeapNodes DEF SingleOwner
<1>2. \A c \in Addr : heap[c].kids \in Seq(Addr) /\ Kids(c) = ToSet(heap[c].kids)
  BY <1>1 DEF NodeOK, Kids
<1>3. Accessible \subseteq Live /\ Live \subseteq Addr /\ held \subseteq Live
  BY ReachLive DEF SingleOwner, TypeOK, Live
<1> QED  BY <1>1, <1>2, <1>3 DEF SingleOwner, Unused

\* An array, a set or a zset with the list L of entries.
LEMMA ListNode ==
    ASSUME SingleOwner, NEW c \in Live, heap[c].type \in {"array", "set", "zset"},
           NEW L \in Seq(Addr), IsInjective(L), NEW In, NEW Out,
           ToSet(L) = (Kids(c) \ Out) \cup In, heap[c].type = "zset" => Len(L) % 2 = 0
    PROVE  Fits(c, [heap[c] EXCEPT !.kids = L], In, Out)
<1>1. NodeOK(heap[c])
  BY Context
<1>2. PICK q : q = [heap[c] EXCEPT !.kids = L]
  OBVIOUS
<1>3. /\ q.kids = L /\ q.type = heap[c].type /\ q.keys = heap[c].keys /\ q.raw = heap[c].raw
      /\ q \in [type : Containers \cup {"null", "free"} \cup Signed \cup Unsigned,
                raw : Int, kids : Seq(Addr), keys : Seq(Key)]
  BY <1>1, <1>2 DEF NodeOK
<1>4. NodeOK(q)
  <2>1. PairsOK(q) /\ NumberOK(q)
    BY <1>1, <1>3 DEF NodeOK, PairsOK, NumberOK
  <2>2. q.type \in Containers
    BY <1>3 DEF Containers
  <2> QED  BY <1>1, <1>3, <2>1, <2>2 DEF NodeOK
<1>5. Fits(c, q, In, Out)
  BY <1>3, <1>4 DEF Fits
<1> QED  BY <1>2, <1>5

\* A step that only gives c another list of entries.
LEMMA ListAfter ==
    ASSUME SingleOwner, NEW c \in Live, NEW L, NEW m,
           heap' = [heap EXCEPT ![c].kids = L]
    PROVE  After(c, [heap[c] EXCEPT !.kids = L], {}, {}, m)
  BY Context DEF After

\* Only a list of entries changes, by what the caller gives.
LEMMA ListGiven ==
    ASSUME SingleOwner, NEW c \in Live, heap[c].type \in {"array", "set", "zset"},
           NEW V \in SUBSET held, NEW L \in Seq(Addr), IsInjective(L),
           ToSet(L) = Kids(c) \cup V, heap[c].type = "zset" => Len(L) % 2 = 0,
           heap' = [heap EXCEPT ![c].kids = L], held' = held \ V, \A v \in V : MayGive(c, v)
    PROVE  Keeps
<1> DEFINE n == [heap[c] EXCEPT !.kids = L]
<1>1. After(c, n, {}, {}, Free)
  BY ListAfter
<1>2. Fits(c, n, V \cup {}, {})
  <2>1. ToSet(L) = (Kids(c) \ {}) \cup (V \cup {})
    OBVIOUS
  <2> QED  BY <2>1, ListNode
<1> HIDE DEF n
<1>3. {} \in SUBSET Unused
  OBVIOUS
<1> QED  BY <1>1, <1>2, <1>3, Given

\* Append of a value that the caller held.
LEMMA PushKeeps ==
    ASSUME SingleOwner, NEW c \in Live, heap[c].type = "array", NEW v \in held, MayGive(c, v),
           heap' = [heap EXCEPT ![c].kids = Append(@, v)], held' = held \ {v}
    PROVE  Keeps
<1> DEFINE L == Append(heap[c].kids, v)
<1>1. v \in Addr /\ v \notin ToSet(heap[c].kids) /\ heap[c].kids \in Seq(Addr)
      /\ IsInjective(heap[c].kids) /\ Kids(c) = ToSet(heap[c].kids)
  BY Context
<1>2. L \in Seq(Addr) /\ IsInjective(L) /\ ToSet(L) = Kids(c) \cup {v}
  BY <1>1, InsertFacts
<1>3. heap' = [heap EXCEPT ![c].kids = L]
  OBVIOUS
<1> HIDE DEF L
<1>4. {v} \in SUBSET held /\ \A x \in {v} : MayGive(c, x)
  OBVIOUS
<1>5. heap[c].type \in {"array", "set", "zset"} /\ heap[c].type # "zset"
  OBVIOUS
<1> QED  BY <1>2, <1>3, <1>4, <1>5, ListGiven

\* Insert at a place of an array or of a set.
LEMMA InsertKeeps ==
    ASSUME SingleOwner, NEW c \in Live, heap[c].type \in {"array", "set"}, NEW v \in held,
           MayGive(c, v), NEW i \in 1 .. Len(List(c)) + 1,
           heap' = [heap EXCEPT ![c].kids = InsertAt(@, i, v)], held' = held \ {v}
    PROVE  Keeps
<1> DEFINE L == InsertAt(heap[c].kids, i, v)
<1>1. v \in Addr /\ v \notin ToSet(heap[c].kids) /\ heap[c].kids \in Seq(Addr)
      /\ IsInjective(heap[c].kids) /\ Kids(c) = ToSet(heap[c].kids)
  BY Context
<1>2. L \in Seq(Addr) /\ IsInjective(L) /\ ToSet(L) = Kids(c) \cup {v}
  BY <1>1, InsertFacts DEF List
<1>3. heap' = [heap EXCEPT ![c].kids = L]
  OBVIOUS
<1> HIDE DEF L
<1>4. {v} \in SUBSET held /\ \A x \in {v} : MayGive(c, x)
  OBVIOUS
<1>5. heap[c].type \in {"array", "set", "zset"} /\ heap[c].type # "zset"
  OBVIOUS
<1> QED  BY <1>2, <1>3, <1>4, <1>5, ListGiven

\* Two more are even again.
LEMMA EvenAgain ==
    ASSUME NEW l \in Nat, l % 2 = 0
    PROVE  (l + 2) % 2 = 0
  OBVIOUS

\* Insert of a key and a value into a zset.
LEMMA ZSetInsertKeeps ==
    ASSUME SingleOwner, NEW c \in Live, NEW k \in held, NEW v \in held, ZSetInsert(c, k, v)
    PROVE  Keeps
<1>1. PICK i \in 0 .. Len(List(c)) \div 2 :
         heap' = [heap EXCEPT ![c].kids =
                      SubSeq(@, 1, 2 * i) \o <<k, v>> \o SubSeq(@, 2 * i + 1, Len(@))]
  BY DEF ZSetInsert
<1>2. k # v /\ held' = held \ {k, v} /\ heap[c].type = "zset"
  BY DEF ZSetInsert
<1>3. /\ v \in Addr /\ v \notin ToSet(heap[c].kids) /\ k \in Addr /\ k \notin ToSet(heap[c].kids)
      /\ heap[c].kids \in Seq(Addr)
      /\ IsInjective(heap[c].kids) /\ Kids(c) = ToSet(heap[c].kids)
  BY Context
<1> DEFINE L == Splice(heap[c].kids, 2 * i, <<k, v>>)
<1>4. 2 * i \in 0 .. Len(heap[c].kids)
  <2>1. Len(heap[c].kids) \in Nat
    BY <1>3
  <2>2. PICK l \in Nat : l = Len(heap[c].kids)
    BY <2>1
  <2>3. i \in 0 .. (l \div 2)
    BY <2>2 DEF List
  <2>4. 2 * i \in 0 .. l
    BY <2>3
  <2> QED  BY <2>2, <2>4
<1>5. <<k, v>> \in Seq(Addr) /\ ToSet(<<k, v>>) = {k, v} /\ IsInjective(<<k, v>>)
  BY <1>2, <1>3 DEF ToSet, IsInjective
<1>6. L \in Seq(Addr) /\ IsInjective(L) /\ ToSet(L) = Kids(c) \cup {k, v} /\ Len(L) % 2 = 0
  <2>1. Joined(Addr, heap[c].kids, <<k, v>>, L)
    BY <1>3, <1>4, <1>5, SpliceFacts
  <2> HIDE DEF L
  <2>2. ToSet(heap[c].kids) \cap {k, v} = {}
    BY <1>3
  <2>3. Len(L) % 2 = 0
    <3>1. PICK l \in Nat : l = Len(heap[c].kids)
      BY <1>3
    <3>2. PairsOK(heap[c])
      <4>1. NodeOK(heap[c])
        BY Context
      <4> QED  BY <4>1 DEF NodeOK
    <3>3. l % 2 = 0
      BY <1>2, <3>1, <3>2 DEF PairsOK
    <3>4. Len(L) = l + 2
      BY <2>1, <3>1 DEF Joined
    <3> QED  BY <3>3, <3>4, EvenAgain
  <2> QED  BY <1>3, <1>5, <2>1, <2>2, <2>3 DEF Joined
<1>7. heap' = [heap EXCEPT ![c].kids = L]
  BY <1>1 DEF Splice
<1> HIDE DEF L
<1>8. {k, v} \in SUBSET held /\ \A x \in {k, v} : MayGive(c, x)
  BY DEF ZSetInsert
<1> QED  BY <1>2, <1>6, <1>7, <1>8, ListGiven

\* AppendBoolean and the like: the value is new.
LEMMA PushLeafKeeps ==
    ASSUME SingleOwner, NEW c \in Live, heap[c].type = "array", NEW n, NewNode(n), PushLeaf(c, n)
    PROVE  Keeps
<1>1. PICK v \in Unused : heap' = [heap EXCEPT ![c].kids = Append(@, v), ![v] = n]
  BY DEF PushLeaf
<1> DEFINE L == Append(heap[c].kids, v)
           q == [heap[c] EXCEPT !.kids = L]
<1>2. v \in Addr /\ v # c /\ v \notin ToSet(heap[c].kids) /\ heap[c].kids \in Seq(Addr)
      /\ IsInjective(heap[c].kids) /\ Kids(c) = ToSet(heap[c].kids)
      /\ heap = [x \in Addr |-> heap[x]] /\ c \in Addr
  BY Context DEF Unused
<1>3. L \in Seq(Addr) /\ IsInjective(L) /\ ToSet(L) = (Kids(c) \ {}) \cup ({} \cup {v})
  BY <1>2, InsertFacts
<1>4. heap' = [x \in Addr |-> IF x = c THEN q ELSE IF x = v THEN n ELSE heap[x]]
  BY <1>1, <1>2
<1>5. After(c, q, {}, {v}, n)
  <2> HIDE DEF q
  <2> QED  BY <1>4 DEF After
<1>6. Fits(c, q, {} \cup {v}, {})
  <2> HIDE DEF L
  <2> QED  BY <1>3, ListNode
<1> HIDE DEF q
<1>7. {v} \in SUBSET Unused /\ {} \in SUBSET held /\ held' = held \ {}
      /\ \A x \in {} : MayGive(c, x)
  BY DEF PushLeaf
<1> QED  BY <1>5, <1>6, <1>7, Given

\* Remove and Erase: the element is handed out or deleted.
LEMMA TakeKeeps ==
    ASSUME SingleOwner, NEW c \in Accessible, heap[c].type = "array",
           NEW i \in DOMAIN List(c), NEW out \in BOOLEAN, Take(c, i, out)
    PROVE  Keeps
<1>1. c \in Live /\ c \in Addr /\ heap[c].kids \in Seq(Addr) /\ IsInjective(heap[c].kids)
      /\ Kids(c) = ToSet(heap[c].kids) /\ heap = [x \in Addr |-> heap[x]]
  BY Context
<1>2. i \in 1 .. Len(heap[c].kids) /\ heap[c].kids[i] \in Kids(c)
  BY <1>1 DEF List, ToSet
<1> DEFINE k == heap[c].kids[i]
           L == RemoveAt(heap[c].kids, i)
           q == [heap[c] EXCEPT !.kids = L]
<1>3. L \in Seq(Addr) /\ IsInjective(L) /\ ToSet(L) = (Kids(c) \ {k}) \cup {}
  BY <1>1, <1>2, RemoveFacts
<1>4. Fits(c, q, {}, {k})
  <2> HIDE DEF L, k
  <2> QED  BY <1>1, <1>3, ListNode
<1>5. CASE out
  <2>1. heap' = [heap EXCEPT ![c].kids = L] /\ held' = held \cup {k}
    BY <1>1, <1>5 DEF Take, Freed, List
  <2>2. After(c, q, {}, {}, Free)
    <3> HIDE DEF L
    <3> QED  BY <1>1, <2>1, ListAfter
  <2> HIDE DEF q, k
  <2>3. k \in Kids(c)
    BY <1>2 DEF k
  <2> QED  BY <1>1, <1>4, <2>1, <2>2, <2>3, HandedOut
<1>6. CASE ~out
  <2>1. c \notin Reach(k)
    BY <1>2, NotBelowEntry
  <2>2. heap' = [Freed(Reach(k)) EXCEPT ![c].kids = L] /\ held' = held \ {}
    BY <1>1, <1>6, <2>1 DEF Take, Freed, List
  <2>3. heap' = [x \in Addr |-> IF x = c THEN q ELSE IF x \in Reach(k) THEN Free ELSE heap[x]]
    BY <1>1, <2>1, <2>2 DEF Freed
  <2> HIDE DEF q, k
  <2>4. After(c, q, Reach(k), {}, Free)
    BY <2>3 DEF After
  <2>5. k \in Kids(c) /\ {} \in SUBSET held /\ \A x \in {} : MayGive(c, x)
    BY <1>2 DEF k
  <2> QED  BY <1>4, <2>2, <2>4, <2>5, Replaced
<1> QED  BY <1>5, <1>6

\* AppendIfNotPresent: the value is taken, or deleted.
LEMMA AppendIfNotPresentKeeps ==
    ASSUME SingleOwner, NEW c \in Live, heap[c].type = "array", NEW v \in held,
           AppendIfNotPresent(c, v)
    PROVE  Keeps
<1> DEFINE present == \E k \in ToSet(List(c)) : Equals(heap, k, v)
<1>1. /\ held' = held \ {v} /\ MayGive(c, v)
      /\ heap' = IF present THEN Freed(Reach(v)) ELSE [heap EXCEPT ![c].kids = Append(@, v)]
  BY DEF AppendIfNotPresent
<1> HIDE DEF present
<1>2. CASE present
  BY <1>1, <1>2, Dropped
<1>3. CASE ~present
  <2>1. heap' = [heap EXCEPT ![c].kids = Append(@, v)]
    BY <1>1, <1>3
  <2> QED  BY <1>1, <2>1, PushKeeps
<1> QED  BY <1>2, <1>3

\* A new null value is a right one.
LEMMA NullNode == NewNode(Empty("null")) /\ \A t \in Containers : NewNode(Empty(t))
<1>1. <<>> \in Seq(Addr) /\ <<>> \in Seq(Key) /\ Len(<<>>) = 0
  OBVIOUS
<1>2. ASSUME NEW t \in Containers \cup {"null"} PROVE NewNode(Empty(t))
  <2>1. Empty(t) = [type |-> t, raw |-> 0, kids |-> <<>>, keys |-> <<>>]
    BY DEF Empty, Node
  <2>2. t # "free"
    BY DEF Containers
  <2> QED  BY <1>1, <2>1, <2>2 DEF NewNode, NodeOK, PairsOK, NumberOK, Containers, Unsigned
<1> QED  BY <1>2

\* Set within the list: the element that was there is deleted.
LEMMA SetInsideKeeps ==
    ASSUME SingleOwner, NEW c \in Accessible, heap[c].type = "array", NEW v \in held,
           MayGive(c, v), NEW i \in Nat, i < Len(List(c)), held' = held \ {v},
           heap' = [Freed(Reach(List(c)[i + 1])) EXCEPT ![c].kids[i + 1] = v]
    PROVE  Keeps
<1>1. c \in Live /\ c \in Addr /\ heap[c].kids \in Seq(Addr) /\ IsInjective(heap[c].kids)
      /\ Kids(c) = ToSet(heap[c].kids) /\ heap = [x \in Addr |-> heap[x]]
      /\ v \in Addr /\ v \notin ToSet(heap[c].kids)
  BY Context
<1>2. i + 1 \in 1 .. Len(heap[c].kids)
  <2>1. Len(heap[c].kids) \in Nat
    BY <1>1
  <2> QED  BY <2>1 DEF List
<1> DEFINE k == heap[c].kids[i + 1]
           L == [heap[c].kids EXCEPT ![i + 1] = v]
           q == [heap[c] EXCEPT !.kids = L]
<1>3. k \in Kids(c)
  BY <1>1, <1>2 DEF ToSet
<1>4. L \in Seq(Addr) /\ IsInjective(L) /\ ToSet(L) = (Kids(c) \ {k}) \cup {v}
  BY <1>1, <1>2, ReplaceFacts
<1>5. Fits(c, q, {v}, {k})
  <2> HIDE DEF L, k
  <2> QED  BY <1>1, <1>4, ListNode
<1>6. c \notin Reach(k)
  BY <1>3, NotBelowEntry
<1>7. heap' = [x \in Addr |-> IF x = c THEN q ELSE IF x \in Reach(k) THEN Free ELSE heap[x]]
  BY <1>1, <1>6 DEF Freed, List
<1> HIDE DEF q, k
<1>8. After(c, q, Reach(k), {}, Free)
  BY <1>7 DEF After
<1>9. {v} \in SUBSET held /\ \A x \in {v} : MayGive(c, x)
  OBVIOUS
<1> QED  BY <1>3, <1>5, <1>8, <1>9, Replaced

\* Set beyond the end: the padding is new.
LEMMA SetBeyondKeeps ==
    ASSUME SingleOwner, NEW c \in Live, heap[c].type = "array", NEW v \in held,
           MayGive(c, v), NEW l \in Nat, NEW pad \in Injection(1 .. l, Unused), held' = held \ {v},
           heap' = [x \in Addr |->
                       CASE x \in Range(pad) -> Empty("null")
                         [] x = c -> [heap[c] EXCEPT !.kids = @ \o Append(pad, v)]
                         [] OTHER -> heap[x]]
    PROVE  Keeps
<1>1. c \in Addr /\ heap[c].kids \in Seq(Addr) /\ IsInjective(heap[c].kids)
      /\ Kids(c) = ToSet(heap[c].kids) /\ heap = [x \in Addr |-> heap[x]]
      /\ v \in Addr /\ v \in Live /\ v \notin ToSet(heap[c].kids)
      /\ \A x \in Unused : x \notin ToSet(heap[c].kids)
  BY Context
<1>2. /\ pad \in Seq(Addr) /\ IsInjective(pad) /\ ToSet(pad) \subseteq Unused
      /\ Range(pad) = ToSet(pad)
  <2>1. pad \in [1 .. l -> Unused] /\ IsInjective(pad)
    BY DEF Injection
  <2>2. pad \in Seq(Unused)
    BY <2>1
  <2>3. pad \in Seq(Addr)
    BY <2>1 DEF Unused
  <2> QED  BY <2>1, <2>2, <2>3, ToSetOf DEF Range, ToSet
<1> DEFINE t == Append(pad, v)
           L == heap[c].kids \o t
           q == [heap[c] EXCEPT !.kids = L]
           N == ToSet(pad)
<1>3. v \notin ToSet(pad)
  BY <1>1, <1>2 DEF Unused
<1>4. t \in Seq(Addr) /\ IsInjective(t) /\ ToSet(t) = {v} \cup N
  BY <1>1, <1>2, <1>3, InsertFacts
<1>5. L \in Seq(Addr) /\ IsInjective(L) /\ ToSet(L) = (Kids(c) \ {}) \cup ({v} \cup N)
  <2> HIDE DEF t
  <2>1. Joined(Addr, heap[c].kids, t, L)
    BY <1>1, <1>4, ConcatFacts
  <2> HIDE DEF L
  <2>2. ToSet(heap[c].kids) \cap ToSet(t) = {}
    BY <1>1, <1>2, <1>4
  <2> QED  BY <1>1, <1>4, <2>1, <2>2 DEF Joined
<1>6. heap' = [x \in Addr |-> IF x = c THEN q ELSE IF x \in N THEN Empty("null") ELSE heap[x]]
  <2>1. c \notin Range(pad)
    BY <1>2 DEF Unused
  <2> QED  BY <1>2, <2>1
<1>7. After(c, q, {}, N, Empty("null"))
  <2> HIDE DEF q, N
  <2> QED  BY <1>6 DEF After
<1>8. Fits(c, q, {v} \cup N, {})
  <2> HIDE DEF L, N
  <2> QED  BY <1>5, ListNode
<1> HIDE DEF q
<1>9. {v} \in SUBSET held /\ N \in SUBSET Unused /\ \A x \in {v} : MayGive(c, x)
  BY <1>2
<1> HIDE DEF N
<1> QED  BY <1>7, <1>8, <1>9, NullNode, Given

\* HashValue::Insert: the only operation that may drop a value.
LEMMA HashInsertKeeps ==
    ASSUME SingleOwner, NEW c \in Live, NEW key \in Key, NEW v \in held, HashInsert(c, key, v)
    PROVE  /\ SingleOwner'
           /\ \/ Lost' \subseteq Lost
              \/ \E k \in Kids(c) : Lost' \subseteq Lost \cup {k} /\ heap'[c].keys = heap[c].keys
<1>1. c \in Addr /\ heap[c].kids \in Seq(Addr) /\ IsInjective(heap[c].kids)
      /\ Kids(c) = ToSet(heap[c].kids) /\ heap = [x \in Addr |-> heap[x]]
      /\ v \in Addr /\ v \in Live /\ v \notin ToSet(heap[c].kids) /\ NodeOK(heap[c])
  BY Context
<1>2. /\ heap[c].type = "hash" /\ held' = held \ {v} /\ MayGive(c, v)
      /\ heap[c].keys \in Seq(Key) /\ Len(heap[c].keys) = Len(heap[c].kids)
  BY <1>1 DEF HashInsert, NodeOK
<1>3. CASE \E i \in DOMAIN heap[c].keys : heap' = [heap EXCEPT ![c].kids[i] = v]
  <2>1. PICK i \in DOMAIN heap[c].keys : heap' = [heap EXCEPT ![c].kids[i] = v]
    BY <1>3
  <2>2. i \in 1 .. Len(heap[c].kids)
    BY <1>2
  <2> DEFINE k == heap[c].kids[i]
             L == [heap[c].kids EXCEPT ![i] = v]
             q == [heap[c] EXCEPT !.kids = L]
  <2>3. k \in Kids(c)
    BY <1>1, <2>2 DEF ToSet
  <2>4. /\ L \in Seq(Addr) /\ IsInjective(L) /\ ToSet(L) = (Kids(c) \ {k}) \cup {v}
        /\ Len(L) = Len(heap[c].kids)
    BY <1>1, <2>2, ReplaceFacts
  <2>5. heap' = [x \in Addr |-> IF x = c THEN q ELSE heap[x]]
    BY <1>1, <2>1
  <2>6. q.kids = L /\ q.type = "hash" /\ q.keys = heap[c].keys /\ NodeOK(q)
    <3> HIDE DEF L
    <3> QED  BY <1>1, <1>2, <2>4 DEF NodeOK, PairsOK, NumberOK, Containers, Unsigned
  <2> HIDE DEF L, q, k
  <2>7. After(c, q, {}, {}, Free)
    BY <2>5 DEF After
  <2>8. Fits(c, q, {v}, {k})
    BY <2>4, <2>6 DEF Fits
  <2>9. Changes(c, {}, {}, {v}, {k})
    <3>1. {} \in SUBSET Live /\ c \in Live \ {} /\ {} \in SUBSET Unused
      OBVIOUS
    <3> QED  BY <2>7, <2>8, <3>1, ContainerChanges
  <2>10. Moves(c, {}, {}, {v}, {k}, {k})
    BY <1>1, <1>2, <2>3, <2>9 DEF Moves, Closed, MayGive
  <2>11. SingleOwner' /\ Lost' \subseteq Lost \cup {k}
    BY <2>10, MoveKeeps
  <2>12. heap'[c].keys = heap[c].keys
    BY <1>1, <2>5, <2>6
  <2> QED  BY <2>3, <2>11, <2>12
<1>4. CASE \E i \in 1 .. Len(heap[c].keys) + 1 :
              heap' = [heap EXCEPT ![c].kids = InsertAt(@, i, v), ![c].keys = InsertAt(@, i, key)]
  <2>1. PICK i \in 1 .. Len(heap[c].keys) + 1 :
              heap' = [heap EXCEPT ![c].kids = InsertAt(@, i, v), ![c].keys = InsertAt(@, i, key)]
    BY <1>4
  <2> DEFINE L == InsertAt(heap[c].kids, i, v)
             S == InsertAt(heap[c].keys, i, key)
             q == [heap[c] EXCEPT !.kids = L, !.keys = S]
  <2>2. /\ L \in Seq(Addr) /\ IsInjective(L) /\ ToSet(L) = (Kids(c) \ {}) \cup ({v} \cup {})
        /\ Len(L) = Len(heap[c].kids) + 1
    BY <1>1, <1>2, InsertFacts
  <2>3. S \in Seq(Key) /\ Len(S) = Len(heap[c].keys) + 1
    <3>1. <<key>> \in Seq(Key) /\ Len(<<key>>) = 1
      OBVIOUS
    <3>2. i - 1 \in 0 .. Len(heap[c].keys) /\ (i - 1) + 1 = i
      BY <1>2
    <3>3. S = Splice(heap[c].keys, i - 1, <<key>>)
      BY <3>2 DEF InsertAt, Splice
    <3>4. Joined(Key, heap[c].keys, <<key>>, S)
      <4> HIDE DEF S
      <4> QED  BY <1>2, <3>1, <3>2, <3>3, SpliceFacts
    <3> QED  BY <3>1, <3>4 DEF Joined
  <2>4. heap' = [x \in Addr |-> IF x = c THEN q ELSE heap[x]]
    BY <1>1, <2>1
  <2>5. q.kids = L /\ q.type = "hash" /\ NodeOK(q)
    <3> HIDE DEF L, S
    <3> QED  BY <1>1, <1>2, <2>2, <2>3 DEF NodeOK, PairsOK, NumberOK, Containers, Unsigned
  <2> HIDE DEF L, q
  <2>6. After(c, q, {}, {}, Free)
    BY <2>4 DEF After
  <2>7. Fits(c, q, {v} \cup {}, {})
    BY <2>2, <2>5 DEF Fits
  <2>8. {} \in SUBSET Unused /\ {v} \in SUBSET held /\ \A x \in {v} : MayGive(c, x)
    BY <1>2
  <2>9. Keeps
    BY <1>2, <2>6, <2>7, <2>8, Given
  <2> QED  BY <2>9 DEF Keeps
<1> QED  BY <1>3, <1>4 DEF HashInsert

\* Clear deletes all entries.
LEMMA ClearKeeps ==
    ASSUME SingleOwner, NEW c \in Accessible, Clear(c)
    PROVE  Keeps
<1>1. c \in Live /\ c \in Addr /\ heap = [x \in Addr |-> heap[x]] /\ TypeOK
      /\ heap[c].type \in Containers /\ held' = held /\ Live \subseteq Addr
  BY Context DEF Clear, SingleOwner
<1> DEFINE F == Reach(c) \ {c}
           n == Empty(heap[c].type)
<1>2. c \in Reach(c) /\ Closed(Reach(c)) /\ Reach(c) \subseteq Live
  BY <1>1, ReachClosed, ReachLive
<1>3. \A x \in Reach(c) : c \notin Kids(x)
  BY NotBelowItself
<1>4. Closed(F) /\ Kids(c) \subseteq F
  BY <1>2, <1>3 DEF Closed
<1>5. NewNode(n)
  BY <1>1, NullNode
<1>6. heap' = [x \in Addr |-> IF x = c THEN n ELSE IF x \in F THEN Free ELSE heap[x]]
  BY <1>1 DEF Clear, Freed
<1>7. Fits(c, n, {}, Kids(c))
  <2> HIDE DEF n
  <2>1. ToSet(n.kids) = {} /\ IsInjective(n.kids)
    BY <1>5, EmptyFacts DEF NewNode
  <2> QED  BY <1>5, <2>1 DEF Fits, NewNode
<1>8. /\ \A x \in Addr \ Reach(c) : Kids(x) \cap Reach(c) \subseteq {c}
      /\ held \cap Reach(c) \subseteq {c}
  BY <1>1, ReachPrivate
<1>9. Changes(c, F, {}, {}, Kids(c))
  <2>1. {} \in SUBSET Unused /\ F \in SUBSET Live /\ c \in Live \ F
    BY <1>1, <1>2
  <2>2. After(c, n, F, {}, Free)
    <3> HIDE DEF n, F
    <3> QED  BY <1>6 DEF After
  <2> HIDE DEF n, F
  <2> QED  BY <1>7, <2>1, <2>2, ContainerChanges
<1>10. \A x \in Addr \ F : Kids(x) \cap F \subseteq IF x = c THEN Kids(c) ELSE {}
  BY <1>8
<1>11. held' \cap F = {}
  BY <1>1, <1>8
<1>12. c \in Addr \ F
  BY <1>1
<1> HIDE DEF F
<1>13. Moves(c, F, {}, {}, Kids(c), {})
  BY <1>1, <1>4, <1>9, <1>10, <1>11, <1>12 DEF Moves
<1>14. SingleOwner' /\ Lost' \subseteq Lost \cup {}
  BY <1>13, MoveKeeps
<1> QED  BY <1>14 DEF Keeps

\* Two containers that exchange their entries, neither below the other, do not
\* get below themselves.
LEMMA SwapGrounded ==
    ASSUME SingleOwner, NEW c \in Accessible, NEW d \in Accessible,
           c \notin Reach(d), d \notin Reach(c), Kids(c)' = Kids(d), Kids(d)' = Kids(c),
           \A x \in Addr \ {c, d} : Kids(x)' = Kids(x)
    PROVE  Grounded'
<1>1. TypeOK /\ Grounded /\ c \in Addr /\ d \in Addr
  BY Context DEF SingleOwner
<1>2. SUFFICES ASSUME NEW S \in SUBSET Addr, S # {}, \A x \in S : Kids(x)' \cap S # {}
               PROVE  FALSE
  BY DEF Grounded
<1> DEFINE T == {x \in S : c \notin Reach(x) /\ d \notin Reach(x)}
<1>3. T = {}
  <2>1. SUFFICES ASSUME T # {} PROVE FALSE
    OBVIOUS
  <2>2. PICK x \in T : Kids(x) \cap T = {}
    <3>1. T \in SUBSET Addr
      OBVIOUS
    <3> HIDE DEF T
    <3> QED  BY <1>1, <2>1, <3>1 DEF Grounded
  <2>3. x \in Addr /\ x # c /\ x # d
    BY <1>1, <2>2, ReachClosed
  <2>4. PICK y \in S : y \in Kids(x)
    BY <1>2, <2>2, <2>3
  <2>5. c \in Reach(y) \/ d \in Reach(y)
    BY <2>2, <2>4
  <2> QED  BY <1>1, <2>2, <2>3, <2>4, <2>5, ReachBelow
<1>4. PICK x \in S : Kids(x) \cap S = {}
  BY <1>1, <1>2 DEF Grounded
<1>5. PICK y \in S : y \in Kids(x)'
  BY <1>2, <1>4
<1>6. y \in Kids(c) \/ y \in Kids(d)
  BY <1>4, <1>5
<1>7. c \notin Reach(y) /\ d \notin Reach(y)
  <2>1. CASE y \in Kids(c)
    BY <1>1, <2>1, ReachBelow, NotBelowEntry
  <2>2. CASE y \in Kids(d)
    BY <1>1, <2>2, ReachBelow, NotBelowEntry
  <2> QED  BY <1>6, <2>1, <2>2
<1> QED  BY <1>3, <1>5, <1>7

\* Swap exchanges the entries of two arrays.
LEMMA SwapKeeps ==
    ASSUME SingleOwner, NEW c \in Accessible, NEW d \in Accessible,
           heap[c].type = "array", heap[d].type = "array", Swap(c, d)
    PROVE  Keeps
<1>1. c \in Live /\ d \in Live /\ c \in Addr /\ d \in Addr /\ c # d
      /\ heap = [x \in Addr |-> heap[x]] /\ held' = held /\ TypeOK
      /\ heap[c].kids \in Seq(Addr) /\ heap[d].kids \in Seq(Addr)
  BY Context, ReachClosed DEF Swap, SingleOwner
<1> DEFINE p == [heap[c] EXCEPT !.kids = heap[d].kids]
           q == [heap[d] EXCEPT !.kids = heap[c].kids]
<1>2. heap' = [x \in Addr |-> IF x = c THEN p ELSE IF x = d THEN q ELSE heap[x]]
  BY <1>1 DEF Swap, List
<1>3. Fits(c, p, Kids(d), Kids(c)) /\ Fits(d, q, Kids(c), Kids(d))
  <2>1. IsInjective(heap[c].kids) /\ IsInjective(heap[d].kids)
        /\ ToSet(heap[d].kids) = (Kids(c) \ Kids(c)) \cup Kids(d)
        /\ ToSet(heap[c].kids) = (Kids(d) \ Kids(d)) \cup Kids(c)
    BY <1>1 DEF SingleOwner, Kids
  <2> QED  BY <1>1, <2>1, ListNode
<1> HIDE DEF p, q
<1>4. /\ heap'[c] = p /\ heap'[d] = q /\ \A x \in Addr \ {c, d} : heap'[x] = heap[x]
      /\ heap' = [x \in Addr |-> heap'[x]]
  BY <1>1, <1>2
<1>5. \A x \in Addr : NodeOK(heap'[x]) /\ IsInjective(heap'[x].kids)
  BY <1>3, <1>4, Context DEF Fits
<1>6. HeapOK'
  <2> DEFINE Nodes == [type : Containers \cup {"null", "free"} \cup Signed \cup Unsigned,
                       raw : Int, kids : Seq(Addr), keys : Seq(Key)]
  <2>1. \A x \in Addr : heap'[x] \in Nodes
    BY <1>5 DEF NodeOK
  <2>2. heap' \in [Addr -> Nodes]
    <3> HIDE DEF Nodes
    <3> QED  BY <1>4, <2>1
  <2> QED  BY <1>5, <2>2 DEF HeapOK, NodeOK, PairsOK, NumberOK
<1>7. Kids(c)' = Kids(d) /\ Kids(d)' = Kids(c) /\ \A x \in Addr \ {c, d} : Kids(x)' = Kids(x)
  BY <1>3, <1>4 DEF Fits, Kids
<1>8. Live' = Live
  BY <1>3, <1>4 DEF Fits, Live
<1>9. TypeOK'
  BY <1>1, <1>6, <1>8 DEF TypeOK, HeapOK
<1>10. \A x \in Addr : Kids(x)' \subseteq Live' \ held'
  BY <1>1, <1>7, <1>8 DEF SingleOwner
<1>11. \A x, y \in Addr : x # y => Kids(x)' \cap Kids(y)' = {}
  BY <1>1, <1>7 DEF SingleOwner
<1>12. SingleOwner'
  <2>1. Grounded'
    BY <1>7, SwapGrounded DEF Swap, SingleOwner
  <2> QED  BY <1>5, <1>9, <1>10, <1>11, <2>1 DEF SingleOwner
<1>13. Lost' \subseteq Lost
  BY <1>1, <1>7, <1>8 DEF Lost
<1> QED  BY <1>12, <1>13 DEF Keeps

\* The copy of one value: its entries are the copies of the entries, in some
\* order.
CopiedNode(n, f, p) ==
    [CopyOf(n) EXCEPT !.kids = [i \in DOMAIN n.kids |-> f[n.kids[p[i]]]],
                      !.keys = [i \in DOMAIN n.keys |-> n.keys[p[i]]]]

\* A value that holds the entries S once each.
Holds(q, S) ==
    /\ NodeOK(q) /\ q.type # "free" /\ IsInjective(q.kids)
    /\ ToSet(q.kids) = S

\* The remainder of a number that is less than Word away from it.
LEMMA WordMod ==
    ASSUME NEW w \in Nat \ {0}, NEW r \in Int, -w <= r, r < w
    PROVE  r % w = IF r >= 0 THEN r ELSE r + w
  OBVIOUS

\* A number that is read with its getter and stored again is the same.
LEMMA RawAgain ==
    ASSUME NEW n, NodeOK(n)
    PROVE  Stored(n.type, GetAs(n.type, n.raw)) = n.raw
<1>1. n.raw \in Int /\ Word \in Nat \ {0}
  BY ValuesAssumption DEF NodeOK
<1>2. CASE n.type \in Unsigned
  <2>1. PICK r \in Int, w \in Nat \ {0} : r = n.raw /\ w = Word
    BY <1>1
  <2>2. -w <= 2 * r /\ 2 * r < w
    BY <1>2, <2>1 DEF NodeOK, NumberOK
  <2>3. PICK m \in Int : m = r % w /\ m = IF r >= 0 THEN r ELSE r + w
    <3>1. -w <= r /\ r < w
      BY <2>2
    <3>2. r % w = IF r >= 0 THEN r ELSE r + w
      BY <3>1, WordMod
    <3> QED  BY <3>2
  <2>4. (IF 2 * m >= w THEN m - w ELSE m) = r
    BY <2>2, <2>3
  <2>5. GetAs(n.type, n.raw) = m
    BY <1>2, <2>1, <2>3 DEF GetAs
  <2> QED  BY <1>2, <2>1, <2>4, <2>5 DEF Stored
<1>3. CASE n.type \notin Unsigned
  BY <1>3 DEF Stored, GetAs
<1> QED  BY <1>2, <1>3

\* The copy of a right value, part by part.
LEMMA CopiedParts ==
    ASSUME NEW n, NodeOK(n), NEW f, NEW p, NEW q, q = CopiedNode(n, f, p)
    PROVE  /\ q.type = n.type /\ q.raw = n.raw
           /\ q.kids = [i \in DOMAIN n.kids |-> f[n.kids[p[i]]]]
           /\ q.keys = [i \in DOMAIN n.keys |-> n.keys[p[i]]]
           /\ q = [type |-> q.type, raw |-> q.raw, kids |-> q.kids, keys |-> q.keys]
<1>1. PICK r, k, s : /\ r = n.raw
                     /\ k = [i \in DOMAIN n.kids |-> f[n.kids[p[i]]]]
                     /\ s = [i \in DOMAIN n.keys |-> n.keys[p[i]]]
  OBVIOUS
<1>2. q = [[n EXCEPT !.raw = r] EXCEPT !.kids = k, !.keys = s]
  BY <1>1, RawAgain DEF CopiedNode, CopyOf
<1>3. n = [type |-> n.type, raw |-> n.raw, kids |-> n.kids, keys |-> n.keys]
  BY DEF NodeOK
<1>4. q = [type |-> n.type, raw |-> r, kids |-> k, keys |-> s]
  BY <1>2, <1>3
<1>5. q.kids = k /\ q.keys = s /\ q.type = n.type /\ q.raw = r
  BY <1>4
<1> QED  BY <1>1, <1>4, <1>5

\* The copy of a right value is a right value with the copies of the entries.
LEMMA CopiedNodeFacts ==
    ASSUME NEW n, NodeOK(n), n.type # "free", IsInjective(n.kids), NEW R \in SUBSET Addr,
           ToSet(n.kids) \subseteq R, NEW f \in Injection(R, Unused), NEW p \in Orders(n),
           NEW q, q = CopiedNode(n, f, p)
    PROVE  Holds(q, {f[k] : k \in ToSet(n.kids)})
<1>1. /\ n.kids \in Seq(Addr) /\ n.keys \in Seq(Key) /\ n.raw \in Int
      /\ Len(n.keys) = IF n.type = "hash" THEN Len(n.kids) ELSE 0
  BY DEF NodeOK
<1>2. PICK l \in Nat : l = Len(n.kids) /\ DOMAIN n.kids = 1 .. l
  BY <1>1
<1>3. /\ p \in [1 .. l -> 1 .. l]
      /\ \A i, j \in 1 .. l : p[i] = p[j] => i = j
      /\ \A j \in 1 .. l : \E i \in 1 .. l : p[i] = j
  BY <1>2 DEF Orders, Bijection, Injection, Surjection, IsInjective
<1>4. /\ f \in [R -> Unused] /\ \A x, y \in R : f[x] = f[y] => x = y
      /\ Unused \subseteq Addr
  BY DEF Injection, IsInjective, Unused
<1>5. /\ \A i \in 1 .. l : n.kids[i] \in R
      /\ \A i, j \in 1 .. l : n.kids[i] = n.kids[j] => i = j
  BY <1>2 DEF ToSet, IsInjective
<1> DEFINE ks == [i \in DOMAIN n.kids |-> f[n.kids[p[i]]]]
           ss == [i \in DOMAIN n.keys |-> n.keys[p[i]]]
<1>6. ks \in [1 .. l -> Addr]
  BY <1>2, <1>3, <1>4, <1>5
<1>7. ks \in Seq(Addr) /\ Len(ks) = l
  BY <1>6
<1>8. ss \in Seq(Key) /\ Len(ss) = Len(n.keys)
  <2>1. CASE n.type = "hash"
    <3>1. DOMAIN n.keys = 1 .. l /\ \A i \in 1 .. l : n.keys[i] \in Key
      BY <1>1, <1>2, <2>1
    <3>2. ss \in [1 .. l -> Key]
      BY <1>3, <3>1
    <3> QED  BY <1>1, <1>2, <2>1, <3>2
  <2>2. CASE n.type # "hash"
    <3>1. DOMAIN n.keys = 1 .. 0 /\ Len(n.keys) = 0
      BY <1>1, <2>2
    <3>2. ss \in [1 .. 0 -> Key]
      BY <3>1
    <3> QED  BY <3>1, <3>2
  <2> QED  BY <2>1, <2>2
<1>10. /\ q.kids = ks /\ q.keys = ss /\ q.type = n.type /\ q.raw = n.raw
       /\ q = [type |-> q.type, raw |-> q.raw, kids |-> q.kids, keys |-> q.keys]
  BY CopiedParts
<1>11. NodeOK(q) /\ q.type # "free"
  <2> HIDE DEF ks, ss
  <2>1. q.type \in Containers \cup {"null", "free"} \cup Signed \cup Unsigned
    BY <1>10 DEF NodeOK
  <2>2. PairsOK(q) /\ NumberOK(q)
    BY <1>2, <1>7, <1>10 DEF NodeOK, PairsOK, NumberOK
  <2>3. q.type \notin Containers => q.kids = <<>>
    <3>1. q.type \notin Containers => l = 0
      BY <1>2, <1>10 DEF NodeOK
    <3> QED  BY <1>7, <1>10, <3>1
  <2> QED  BY <1>1, <1>2, <1>7, <1>8, <1>10, <2>1, <2>2, <2>3 DEF NodeOK
<1>12. IsInjective(ks)
  <2>1. ASSUME NEW i \in 1 .. l, NEW j \in 1 .. l, ks[i] = ks[j] PROVE i = j
    <3>1. ks[i] = f[n.kids[p[i]]] /\ ks[j] = f[n.kids[p[j]]]
      BY <1>2
    <3>2. p[i] \in 1 .. l /\ p[j] \in 1 .. l
      BY <1>3
    <3>3. n.kids[p[i]] = n.kids[p[j]]
      BY <1>4, <1>5, <2>1, <3>1, <3>2
    <3> QED  BY <1>3, <1>5, <3>2, <3>3
  <2> HIDE DEF ks
  <2> QED  BY <1>6, <2>1 DEF IsInjective
<1>13. ASSUME NEW y PROVE y \in ToSet(ks) <=> \E k \in ToSet(n.kids) : y = f[k]
  <2>1. y \in ToSet(ks) <=> \E i \in 1 .. l : y = f[n.kids[p[i]]]
    BY <1>2 DEF ToSet
  <2>2. (\E k \in ToSet(n.kids) : y = f[k]) <=> \E j \in 1 .. l : y = f[n.kids[j]]
    BY <1>2 DEF ToSet
  <2>3. ASSUME NEW i \in 1 .. l, y = f[n.kids[p[i]]]
        PROVE  \E j \in 1 .. l : y = f[n.kids[j]]
    <3>1. p[i] \in 1 .. l
      BY <1>3
    <3> QED  BY <2>3, <3>1
  <2>4. ASSUME NEW j \in 1 .. l, y = f[n.kids[j]]
        PROVE  \E i \in 1 .. l : y = f[n.kids[p[i]]]
    <3>1. PICK i \in 1 .. l : p[i] = j
      BY <1>3
    <3> QED  BY <2>4, <3>1
  <2> QED  BY <2>1, <2>2, <2>3, <2>4
<1>14. ToSet(ks) = {f[k] : k \in ToSet(n.kids)}
  BY <1>13
<1> QED  BY <1>10, <1>11, <1>12, <1>14 DEF Holds

\* The heap after a copy, address by address.
LEMMA CopyAfter ==
    ASSUME SingleOwner, NEW a \in Live, NEW f \in Injection(Reach(a), Unused), CopyTo(a, f)
    PROVE  /\ HeapOK'
           /\ \A x \in Addr : IsInjective(heap'[x].kids)
           /\ Live' = Live \cup Range(f)
           /\ \A x \in Reach(a) : Kids(f[x])' = {f[k] : k \in Kids(x)}
           /\ \A y \in Addr \ Range(f) : Kids(y)' = Kids(y)
           /\ \A x \in Reach(a) : \E p \in Orders(heap[x]) : heap'[f[x]] = CopiedNode(heap[x], f, p)
           /\ \A y \in Addr \ Range(f) : heap'[y] = heap[y]
<1> DEFINE R == Reach(a)
<1>1. R \subseteq Live /\ R \subseteq Addr /\ Closed(R) /\ Live \subseteq Addr
  BY Context, ReachLive, ReachClosed DEF SingleOwner
<1>2. f \in [R -> Unused] /\ (\A x, y \in R : f[x] = f[y] => x = y)
      /\ Range(f) = {f[x] : x \in R}
  BY DEF Injection, IsInjective, Range
<1>3. PICK order \in [R -> UNION {Orders(heap[x]) : x \in R}] :
         /\ \A x \in R : order[x] \in Orders(heap[x])
         /\ heap' = [y \in Addr |->
               IF y \notin Range(f) THEN heap[y]
               ELSE LET x == CHOOSE x \in R : f[x] = y
                        n == heap[x]
                    IN [CopyOf(n) EXCEPT
                           !.kids = [i \in DOMAIN n.kids |-> f[n.kids[order[x][i]]]],
                           !.keys = [i \in DOMAIN n.keys |-> n.keys[order[x][i]]]]]
  BY DEF CopyTo
<1> HIDE DEF R
<1>4. ASSUME NEW x \in R PROVE heap'[f[x]] = CopiedNode(heap[x], f, order[x])
  <2>1. f[x] \in Range(f) /\ f[x] \in Addr
    BY <1>2 DEF Unused
  <2>2. x = CHOOSE z \in R : f[z] = f[x]
    BY <1>2
  <2>3. heap'[f[x]] = LET z == CHOOSE z \in R : f[z] = f[x]
                      IN  CopiedNode(heap[z], f, order[z])
    BY <1>3, <2>1 DEF CopiedNode
  <2> QED  BY <2>2, <2>3
<1>5. \A y \in Addr \ Range(f) : heap'[y] = heap[y]
  BY <1>3
<1>6. ASSUME NEW x \in R
      PROVE  /\ NodeOK(heap'[f[x]]) /\ heap'[f[x]].type # "free"
             /\ IsInjective(heap'[f[x]].kids)
             /\ ToSet(heap'[f[x]].kids) = {f[k] : k \in Kids(x)}
  <2>1. NodeOK(heap[x]) /\ IsInjective(heap[x].kids) /\ ToSet(heap[x].kids) = Kids(x)
    BY <1>1, Context
  <2>2. heap[x].type # "free" /\ ToSet(heap[x].kids) \subseteq R
    BY <1>1, <2>1 DEF Live, Closed
  <2>3. order[x] \in Orders(heap[x]) /\ f \in Injection(R, Unused)
    BY <1>3 DEF R
  <2>4. PICK n, p, q : n = heap[x] /\ p = order[x] /\ q = heap'[f[x]]
    OBVIOUS
  <2>5. Holds(q, {f[k] : k \in ToSet(n.kids)})
    <3>1. q = CopiedNode(n, f, p)
      BY <1>4, <2>4
    <3>2. /\ NodeOK(n) /\ n.type # "free" /\ IsInjective(n.kids)
          /\ ToSet(n.kids) \subseteq R /\ p \in Orders(n)
      BY <2>1, <2>2, <2>3, <2>4
    <3> QED  BY <1>1, <2>3, <3>1, <3>2, CopiedNodeFacts
  <2> QED  BY <2>1, <2>4, <2>5 DEF Holds
<1>7. \A y \in Addr : NodeOK(heap'[y]) /\ IsInjective(heap'[y].kids)
  BY <1>2, <1>5, <1>6, Context
<1>8. HeapOK'
  <2> DEFINE Nodes == [type : Containers \cup {"null", "free"} \cup Signed \cup Unsigned,
                       raw : Int, kids : Seq(Addr), keys : Seq(Key)]
  <2>1. \A x \in Addr : heap'[x] \in Nodes
    BY <1>7 DEF NodeOK
  <2>2. heap' = [x \in Addr |-> heap'[x]]
    <3> DEFINE B(y) == IF y \notin Range(f) THEN heap[y]
               ELSE LET x == CHOOSE x \in R : f[x] = y
                        n == heap[x]
                    IN [CopyOf(n) EXCEPT
                           !.kids = [i \in DOMAIN n.kids |-> f[n.kids[order[x][i]]]],
                           !.keys = [i \in DOMAIN n.keys |-> n.keys[order[x][i]]]]
    <3>1. heap' = [y \in Addr |-> B(y)]
      BY <1>3, Zenon
    <3> HIDE DEF B
    <3> QED  BY <3>1
  <2>3. heap' \in [Addr -> Nodes]
    <3> HIDE DEF Nodes
    <3> QED  BY <2>1, <2>2
  <2> QED  BY <1>7, <2>3 DEF HeapOK, NodeOK, PairsOK, NumberOK
<1>9. Live' = Live \cup Range(f)
  <2>1. Live' = {x \in Addr : heap'[x].type # "free"}
    BY DEF Live
  <2>2. \A y \in Range(f) : y \in Addr /\ heap'[y].type # "free"
    BY <1>2, <1>6 DEF Unused
  <2> QED  BY <1>1, <1>5, <2>1, <2>2 DEF Live
<1>10. \A x \in R : Kids(f[x])' = {f[k] : k \in Kids(x)}
  BY <1>6 DEF Kids
<1>11. \A y \in Addr \ Range(f) : Kids(y)' = Kids(y)
  BY <1>5 DEF Kids
<1>12. ASSUME NEW x \in R
       PROVE  \E p \in Orders(heap[x]) : heap'[f[x]] = CopiedNode(heap[x], f, p)
  <2>1. order[x] \in Orders(heap[x])
    BY <1>3
  <2>2. heap'[f[x]] = CopiedNode(heap[x], f, order[x])
    BY <1>4
  <2> QED  BY <2>1, <2>2
<1> QED  BY <1>5, <1>7, <1>8, <1>9, <1>10, <1>11, <1>12 DEF R

\* A copy is no more below itself than the original.
LEMMA CopyGrounded ==
    ASSUME SingleOwner, NEW a \in Accessible, NEW f \in Injection(Reach(a), Unused),
           \A x \in Reach(a) : Kids(f[x])' = {f[k] : k \in Kids(x)},
           \A y \in Addr \ Range(f) : Kids(y)' = Kids(y)
    PROVE  Grounded'
<1>1. TypeOK /\ Grounded /\ a \in Addr /\ Reach(a) \subseteq Addr /\ Closed(Reach(a))
      /\ \A x \in Addr : Kids(x) \subseteq Live
  BY Context, ReachClosed DEF SingleOwner
<1>2. /\ f \in [Reach(a) -> Unused]
      /\ \A x, y \in Reach(a) : f[x] = f[y] => x = y
      /\ Range(f) = {f[x] : x \in Reach(a)} /\ Range(f) \cap Live = {}
  BY DEF Injection, IsInjective, Range, Unused
<1>3. SUFFICES ASSUME NEW S \in SUBSET Addr, S # {} PROVE \E x \in S : Kids(x)' \cap S = {}
  BY DEF Grounded
<1>4. CASE S \ Range(f) # {}
  <2>1. PICK x \in S \ Range(f) : Kids(x) \cap (S \ Range(f)) = {}
    <3>1. PICK T \in SUBSET Addr : T = S \ Range(f)
      OBVIOUS
    <3>2. \E x \in T : Kids(x) \cap T = {}
      BY <1>1, <1>4, <3>1 DEF Grounded
    <3> QED  BY <3>1, <3>2
  <2> QED  BY <1>1, <1>2, <2>1
<1>5. CASE S \subseteq Range(f)
  <2>1. PICK T \in SUBSET Addr : T = {x \in Reach(a) : f[x] \in S}
    BY <1>1
  <2>2. T # {}
    <3>1. PICK y : y \in S
      BY <1>3
    <3>2. PICK x \in Reach(a) : y = f[x]
      BY <1>2, <1>5, <3>1
    <3> QED  BY <2>1, <3>1, <3>2
  <2>3. PICK x \in T : Kids(x) \cap T = {}
    BY <1>1, <2>2 DEF Grounded
  <2>4. ASSUME NEW k \in Kids(x) PROVE f[k] \notin S
    BY <1>1, <2>1, <2>3 DEF Closed
  <2>5. PICK y : y = f[x] /\ y \in S
    BY <2>1, <2>3
  <2>6. Kids(y)' = {f[k] : k \in Kids(x)}
    BY <2>1, <2>3, <2>5
  <2>7. \A z \in Kids(y)' : z \notin S
    BY <2>4, <2>6
  <2> QED  BY <2>5, <2>7
<1> QED  BY <1>4, <1>5

\* DeepCopy gives the caller a value that shares nothing with the original.
LEMMA DeepCopyKeeps ==
    ASSUME SingleOwner, NEW a \in Accessible, DeepCopy(a)
    PROVE  Keeps
<1>1. PICK f \in Injection(Reach(a), Unused) : CopyTo(a, f) /\ held' = held \cup {f[a]}
  BY DEF DeepCopy
<1>2. a \in Live /\ a \in Addr /\ TypeOK /\ held \subseteq Live /\ Live \subseteq Addr
  BY Context DEF SingleOwner
<1>3. /\ HeapOK'
      /\ \A x \in Addr : IsInjective(heap'[x].kids)
      /\ Live' = Live \cup Range(f)
      /\ \A x \in Reach(a) : Kids(f[x])' = {f[k] : k \in Kids(x)}
      /\ \A y \in Addr \ Range(f) : Kids(y)' = Kids(y)
  BY <1>1, <1>2, CopyAfter
<1>4. a \in Reach(a) /\ Closed(Reach(a)) /\ Reach(a) \subseteq Addr
  BY <1>2, ReachClosed
<1>5. /\ f \in [Reach(a) -> Unused]
      /\ \A x, y \in Reach(a) : f[x] = f[y] => x = y
      /\ Range(f) = {f[x] : x \in Reach(a)}
      /\ Range(f) \subseteq Addr /\ Range(f) \cap Live = {}
  BY DEF Injection, IsInjective, Range, Unused
<1>6. \A x \in Reach(a) : a \notin Kids(x) /\ Kids(x) \subseteq Reach(a)
  BY <1>4, NotBelowItself DEF Closed
<1>7. /\ \A x \in Addr : Kids(x) \subseteq Live \ held
      /\ \A x, y \in Addr : x # y => Kids(x) \cap Kids(y) = {}
  BY DEF SingleOwner
<1>8. TypeOK'
  BY <1>1, <1>2, <1>3, <1>4, <1>5 DEF TypeOK, HeapOK
<1>9. ASSUME NEW y \in Addr PROVE Kids(y)' \subseteq Live' \ held'
  <2>1. CASE y \notin Range(f)
    BY <1>1, <1>3, <1>4, <1>5, <1>7, <2>1
  <2>2. ASSUME NEW x \in Reach(a), y = f[x] PROVE Kids(y)' \subseteq Live' \ held'
    <3>1. SUFFICES ASSUME NEW k \in Kids(x) PROVE f[k] \in Live' \ held'
      BY <1>3, <2>2
    <3>2. k \in Reach(a) /\ k # a
      BY <1>6
    <3> QED  BY <1>1, <1>2, <1>3, <1>4, <1>5, <3>2
  <2> QED  BY <1>5, <2>1, <2>2
<1>10. ASSUME NEW y \in Addr, NEW z \in Addr, y # z PROVE Kids(y)' \cap Kids(z)' = {}
  <2>1. ASSUME NEW w \in Addr \ Range(f), NEW x \in Reach(a)
        PROVE  Kids(w)' \cap Kids(f[x])' = {}
    <3>1. Kids(w)' \subseteq Live
      BY <1>3, <1>7
    <3>2. Kids(f[x])' \subseteq Range(f)
      BY <1>3, <1>5, <1>6
    <3> QED  BY <1>5, <3>1, <3>2
  <2>2. ASSUME NEW w \in Reach(a), NEW x \in Reach(a), f[w] # f[x]
        PROVE  Kids(f[w])' \cap Kids(f[x])' = {}
    <3>1. w # x /\ Kids(w) \cap Kids(x) = {}
      BY <1>4, <1>7, <2>2
    <3>2. ASSUME NEW j \in Kids(w), NEW k \in Kids(x), f[j] = f[k] PROVE FALSE
      BY <1>5, <1>6, <3>1, <3>2
    <3> QED  BY <1>3, <3>2
  <2>3. CASE y \notin Range(f) /\ z \notin Range(f)
    BY <1>3, <1>7, <1>10, <2>3
  <2> QED  BY <1>5, <1>10, <2>1, <2>2, <2>3
<1>11. SingleOwner'
  <2>1. Grounded'
    BY <1>3, CopyGrounded
  <2> QED  BY <1>3, <1>8, <1>9, <1>10, <2>1 DEF SingleOwner
<1>12. ASSUME NEW b \in Lost' PROVE b \in Lost
  <2>1. b \in Live' /\ b \notin held' /\ \A x \in Addr : b \notin Kids(x)'
    BY DEF Lost
  <2>2. b \notin Range(f)
    <3>1. SUFFICES ASSUME NEW x \in Reach(a), b = f[x] PROVE FALSE
      BY <1>5
    <3>2. x # a
      BY <1>1, <2>1, <3>1
    <3>3. PICK z \in Reach(a) : x \in Kids(z)
      BY <1>2, <3>2, ReachOwned
    <3>4. b \in Kids(f[z])' /\ f[z] \in Addr
      BY <1>3, <1>5, <3>1, <3>3
    <3> QED  BY <2>1, <3>4
  <2>3. b \in Live /\ b \notin held
    BY <1>1, <1>3, <2>1, <2>2
  <2>4. ASSUME NEW x \in Addr PROVE b \notin Kids(x)
    <3>1. CASE x \in Range(f)
      <4>1. x \in Addr \ Live
        BY <1>5, <3>1
      <4> QED  BY <1>2, <4>1, KidsFacts
    <3>2. CASE x \notin Range(f)
      BY <1>3, <2>1, <3>2
    <3> QED  BY <3>1, <3>2
  <2> QED  BY <2>3, <2>4 DEF Lost
<1> QED  BY <1>11, <1>12 DEF Keeps

\* A leaf the caller may create is a right new value.
LEMMA LeafNode == \A l \in Leaves : NewNode(Leaf(l))
<1> SUFFICES ASSUME NEW l \in Leaves PROVE NewNode(Leaf(l))
  OBVIOUS
<1>1. l[1] \in Signed \cup Unsigned \cup {"null"} /\ l[2] \in Int /\ Word \in Int
  BY ValuesAssumption
<1>2. Stored(l[1], l[2]) \in Int
  BY <1>1 DEF Stored
<1>3. l[1] # "free" /\ l[1] # "hash"
  BY <1>1 DEF Signed, Unsigned
<1>4. PICK t, r : t = l[1] /\ r = Stored(l[1], l[2]) /\ Leaf(l) = Node(t, r, <<>>, <<>>)
  BY DEF Leaf
<1>6. t \in Unsigned => -Word <= 2 * r /\ 2 * r < Word
  <2>1. SUFFICES ASSUME t \in Unsigned PROVE -Word <= 2 * r /\ 2 * r < Word
    OBVIOUS
  <2>2. PICK v \in 0 .. Word - 1 : v = l[2]
    BY <1>4, <2>1, ValuesAssumption
  <2>3. r = IF 2 * v >= Word THEN v - Word ELSE v
    BY <1>4, <2>1, <2>2 DEF Stored
  <2> QED  BY <1>1, <2>2, <2>3
<1>5. NewNode(Node(t, r, <<>>, <<>>))
  <2>1. PICK n : n = Node(t, r, <<>>, <<>>)
    OBVIOUS
  <2>2. n = [type |-> t, raw |-> r, kids |-> <<>>, keys |-> <<>>]
    BY <2>1 DEF Node
  <2>3. PairsOK(n) /\ NumberOK(n)
    BY <1>6, <2>2 DEF PairsOK, NumberOK
  <2>4. NewNode(n)
    BY <1>1, <1>2, <1>3, <1>4, <2>2, <2>3 DEF NewNode, NodeOK
  <2> QED  BY <2>1, <2>4
<1> QED  BY <1>4, <1>5

\* ArrayValue::Set, within the list and beyond its end.
LEMMA SetKeeps ==
    ASSUME SingleOwner, NEW c \in Accessible, heap[c].type = "array", NEW v \in held,
           NEW i \in Nat, Set(c, i, v)
    PROVE  Keeps
<1>1. c \in Live /\ heap[c].kids \in Seq(Addr)
  BY Context
<1>2. PICK n \in Nat : n = Len(List(c))
  BY <1>1 DEF List
<1>3. held' = held \ {v} /\ MayGive(c, v)
  BY DEF Set
<1>4. CASE i < n /\ heap' = [Freed(Reach(List(c)[i + 1])) EXCEPT ![c].kids[i + 1] = v]
  BY <1>2, <1>3, <1>4, SetInsideKeeps
<1>5. CASE /\ i >= n
           /\ \E pad \in Injection(1 .. i - n, Unused) :
                heap' = [x \in Addr |->
                    CASE x \in Range(pad) -> Empty("null")
                      [] x = c -> [heap[c] EXCEPT !.kids = @ \o Append(pad, v)]
                      [] OTHER -> heap[x]]
  <2>1. PICK l \in Nat : l = i - n
    BY <1>5
  <2>2. PICK pad \in Injection(1 .. l, Unused) :
                heap' = [x \in Addr |->
                    CASE x \in Range(pad) -> Empty("null")
                      [] x = c -> [heap[c] EXCEPT !.kids = @ \o Append(pad, v)]
                      [] OTHER -> heap[x]]
    BY <1>5, <2>1
  <2> QED  BY <1>1, <1>3, <2>2, SetBeyondKeeps
<1>6. \/ i < n /\ heap' = [Freed(Reach(List(c)[i + 1])) EXCEPT ![c].kids[i + 1] = v]
      \/ /\ i >= n
         /\ \E pad \in Injection(1 .. i - n, Unused) :
                heap' = [x \in Addr |->
                    CASE x \in Range(pad) -> Empty("null")
                      [] x = c -> [heap[c] EXCEPT !.kids = @ \o Append(pad, v)]
                      [] OTHER -> heap[x]]
  BY <1>2 DEF Set
<1> QED  BY <1>4, <1>5, <1>6

\* What an operation of the caller leaks: at most one value, which the Insert of
\* a hash overwrote.
Overwrites(c, k) ==
    /\ heap[c].type = "hash" /\ k \in Kids(c)
    /\ heap'[c].keys = heap[c].keys
    /\ Lost' \subseteq Lost \cup {k}
Leaks == Lost' \subseteq Lost \/ \E c \in Live, k \in Addr : Overwrites(c, k)

\* The caller creates and deletes.
LEMMA CallerKeeps ==
    ASSUME SingleOwner, Caller
    PROVE  Keeps
<1>1. ASSUME NEW n, NewNode(n), Create(n) PROVE Keeps
  BY <1>1, Created DEF Create
<1>2. ASSUME NEW a \in held, Delete(a) PROVE Keeps
  BY <1>2, Dropped DEF Delete
<1> QED  BY <1>1, <1>2, LeafNode, NullNode DEF Caller

\* The operations of ArrayValue.
LEMMA ArrayOpsKeep ==
    ASSUME SingleOwner, ArrayOps
    PROVE  Keeps
<1>1. PICK c \in Arrays \cap Accessible :
        \/ \E v \in held : Push(c, v) \/ AppendIfNotPresent(c, v)
        \/ \E v \in held, i \in 0 .. MaxIndex : Set(c, i, v) \/ Insert(c, i, v)
        \/ \E l \in Leaves : PushLeaf(c, Leaf(l))
        \/ \E i \in DOMAIN List(c), out \in BOOLEAN : RemoveIndex(c, i, out)
        \/ \E v \in Accessible : RemoveEqual(c, v)
        \/ \E d \in Arrays \cap Accessible : Swap(c, d)
  BY DEF ArrayOps
<1>2. c \in Live /\ c \in Accessible /\ heap[c].type = "array" /\ heap[c].kids \in Seq(Addr)
  BY Context DEF Arrays
<1>3. ASSUME NEW v \in held, Push(c, v) PROVE Keeps
  BY <1>2, <1>3, PushKeeps DEF Push
<1>4. ASSUME NEW v \in held, AppendIfNotPresent(c, v) PROVE Keeps
  BY <1>2, <1>4, AppendIfNotPresentKeeps
<1>5. ASSUME NEW v \in held, NEW i \in 0 .. MaxIndex, Set(c, i, v) PROVE Keeps
  BY <1>2, <1>5, SetKeeps
<1>6. ASSUME NEW v \in held, NEW i \in 0 .. MaxIndex, Insert(c, i, v) PROVE Keeps
  <2>1. PICK j \in Nat : j = i + 1 /\ j \in 1 .. Len(List(c)) + 1
    BY <1>2, <1>6 DEF Insert, List
  <2>2. heap' = [heap EXCEPT ![c].kids = InsertAt(@, j, v)] /\ held' = held \ {v} /\ MayGive(c, v)
    BY <1>6, <2>1 DEF Insert
  <2> QED  BY <1>2, <2>1, <2>2, InsertKeeps
<1>7. ASSUME NEW l \in Leaves, PushLeaf(c, Leaf(l)) PROVE Keeps
  BY <1>2, <1>7, PushLeafKeeps, LeafNode
<1>8. ASSUME NEW i \in DOMAIN List(c), NEW out \in BOOLEAN, RemoveIndex(c, i, out) PROVE Keeps
  BY <1>2, <1>8, TakeKeeps DEF RemoveIndex
<1>9. ASSUME NEW v \in Accessible, RemoveEqual(c, v) PROVE Keeps
  <2>1. PICK i \in DOMAIN List(c) : Take(c, i, FALSE)
    BY <1>9 DEF RemoveEqual
  <2> QED  BY <1>2, <2>1, TakeKeeps
<1>10. ASSUME NEW d \in Arrays \cap Accessible, Swap(c, d) PROVE Keeps
  <2>1. d \in Accessible /\ heap[d].type = "array"
    BY DEF Arrays
  <2> QED  BY <1>2, <1>10, <2>1, SwapKeeps
<1> QED  BY <1>1, <1>3, <1>4, <1>5, <1>6, <1>7, <1>8, <1>9, <1>10

\* The operations of the other containers: only one of them leaks.
LEMMA OtherOpsKeep ==
    ASSUME SingleOwner, OtherOps
    PROVE  SingleOwner' /\ Leaks
<1>1. PICK c \in Accessible :
        \/ \E v \in held : SetInsert(c, v)
        \/ \E k, v \in held : ZSetInsert(c, k, v)
        \/ \E key \in Key, v \in held : HashInsert(c, key, v)
        \/ Clear(c)
  BY DEF OtherOps
<1>2. c \in Live /\ Live \subseteq Addr
  BY Context
<1>3. ASSUME NEW v \in held, SetInsert(c, v) PROVE Keeps
  <2>1. PICK i \in 1 .. Len(List(c)) + 1 :
             heap' = [heap EXCEPT ![c].kids = InsertAt(@, i, v)]
    BY <1>3 DEF SetInsert
  <2>2. heap[c].type \in {"array", "set"} /\ held' = held \ {v} /\ MayGive(c, v)
    BY <1>3 DEF SetInsert
  <2> QED  BY <1>2, <2>1, <2>2, InsertKeeps
<1>4. ASSUME NEW k \in held, NEW v \in held, ZSetInsert(c, k, v) PROVE Keeps
  BY <1>2, <1>4, ZSetInsertKeeps
<1>5. ASSUME NEW key \in Key, NEW v \in held, HashInsert(c, key, v)
      PROVE  SingleOwner' /\ Leaks
  <2>1. /\ SingleOwner'
        /\ \/ Lost' \subseteq Lost
           \/ \E k \in Kids(c) : Lost' \subseteq Lost \cup {k} /\ heap'[c].keys = heap[c].keys
    BY <1>2, <1>5, HashInsertKeeps
  <2>2. heap[c].type = "hash" /\ Kids(c) \subseteq Addr
    BY <1>2, <1>5 DEF HashInsert, SingleOwner, Live
  <2> QED  BY <1>2, <2>1, <2>2 DEF Leaks, Overwrites
<1>6. ASSUME Clear(c) PROVE Keeps
  BY <1>6, ClearKeeps
<1>7. Keeps => SingleOwner' /\ Leaks
  BY DEF Keeps, Leaks
<1> QED  BY <1>1, <1>3, <1>4, <1>5, <1>6, <1>7

\* Every step of the caller, and every step that leaves the heap alone.
LEMMA NextKeeps ==
    ASSUME SingleOwner, [Next]_vars
    PROVE  SingleOwner' /\ Leaks
<1>1. Keeps => SingleOwner' /\ Leaks
  BY DEF Keeps, Leaks
<1>2. ASSUME NEW a \in Accessible, DeepCopy(a) PROVE Keeps
  BY <1>2, DeepCopyKeeps
<1>3. CASE UNCHANGED vars
  <2>1. heap' = heap /\ held' = held
    BY <1>3 DEF vars
  <2>2. SingleOwner'
    BY <2>1 DEF SingleOwner, TypeOK, Live, Kids, Grounded
  <2>3. Lost' = Lost
    BY <2>1 DEF Lost, Live, Kids
  <2> QED  BY <2>2, <2>3 DEF Leaks
<1> QED  BY <1>1, <1>2, <1>3, CallerKeeps, ArrayOpsKeep, OtherOpsKeep DEF Next

\* At the start there is nothing to own.
LEMMA InitOwners == Init => SingleOwner
<1> SUFFICES ASSUME Init PROVE SingleOwner
  OBVIOUS
<1>1. heap = [x \in Addr |-> Free] /\ held = {}
  BY DEF Init
<1>2. Free.type = "free" /\ Free.kids = <<>> /\ NodeOK(Free)
  BY EmptyFacts DEF Free, Node
<1>3. \A x \in Addr : heap[x] = Free
  BY <1>1
<1>4. heap = [x \in Addr |-> heap[x]] /\ \A x \in Addr : NodeOK(heap[x])
  BY <1>1, <1>2, <1>3
<1>5. TypeOK
  BY <1>1, <1>4, HeapNodes
<1>6. \A x \in Addr : Kids(x) = {} /\ IsInjective(heap[x].kids)
  BY <1>2, <1>3, EmptyFacts DEF Kids
<1>7. Grounded
  BY <1>6 DEF Grounded
<1> QED  BY <1>5, <1>6, <1>7 DEF SingleOwner

\* Whatever the caller does with its containers (append, set, insert, erase,
\* swap, clear, copy and delete in any order, on a heap of any size), every value
\* that is alive has one owner or none, and no owner points to a deleted value:
\* ~ArrayValue, ~HashValue and the others never delete twice.
THEOREM SingleOwnerHolds == Spec => []SingleOwner
<1>1. Init => SingleOwner
  BY InitOwners
<1>2. SingleOwner /\ [Next]_vars => SingleOwner'
  BY NextKeeps
<1> QED  BY <1>1, <1>2, PTL DEF Spec

\* No operation but the Insert of a HashValue for a key that is there loses a
\* value, and that one loses only the value it overwrites.
THEOREM OverwriteLeaksOnly == Spec => OnlyOverwriteLeaks
<1> DEFINE Step == \A a \in Lost' \ Lost :
          /\ Lost' \ Lost = {a}
          /\ \E c \in Live : heap[c].type = "hash" /\ a \in Kids(c)
                             /\ heap'[c].keys = heap[c].keys
<1>1. ASSUME SingleOwner, [Next]_vars PROVE Step
  <2>1. Leaks
    BY <1>1, NextKeeps
  <2>2. ASSUME NEW c \in Live, NEW k \in Addr, Overwrites(c, k) PROVE Step
    BY <2>2 DEF Overwrites
  <2> QED  BY <2>1, <2>2 DEF Leaks
<1>2. SingleOwner /\ [Next]_vars => [Step]_vars
  BY <1>1
<1> HIDE DEF Step
<1>3. Spec => [][Step]_vars
  BY <1>2, SingleOwnerHolds, PTL DEF Spec
<1> QED  BY <1>3 DEF OnlyOverwriteLeaks, Step

(***************************************************************************)
(* Values as data.  Content and Equals are recursive functions on a heap h *)
(* in which no container is below itself; D is a set of values that has    *)
(* all their entries.                                                      *)
(***************************************************************************)

WellFounded(h) ==
    /\ \A x \in Addr : h[x].kids \in Seq(Addr)
    /\ \A S \in SUBSET Addr : S # {} => \E x \in S : ToSet(h[x].kids) \cap S = {}

Whole(h, D) == D \subseteq Addr /\ \A x \in D : ToSet(h[x].kids) \subseteq D

\* The content of the value at x, when f gives that of its entries.
ContentBy(h, x, f) == <<h[x].type, h[x].raw, Len(h[x].kids), Entries(h[x], f)>>

Contents(h, f, D) == \A x \in D : f[x] = ContentBy(h, x, f)

\* What the entries of n are depends only on their content.
LEMMA EntriesSame ==
    ASSUME NEW n, n.kids \in Seq(Addr), NEW f, NEW g,
           \A k \in ToSet(n.kids) : f[k] = g[k]
    PROVE  Entries(n, f) = Entries(n, g)
<1>1. PICK l \in Nat : l = Len(n.kids) /\ DOMAIN n.kids = 1 .. l
  OBVIOUS
<1>2. \A i \in 1 .. l : f[n.kids[i]] = g[n.kids[i]]
  BY <1>1, ToSetOf
<1>3. CASE n.type = "array"
  BY <1>1, <1>2, <1>3 DEF Entries
<1>4. CASE n.type = "set"
  BY <1>1, <1>2, <1>4 DEF Entries
<1>5. CASE n.type = "zset"
  <2>1. ASSUME NEW i \in 1 .. l \div 2 PROVE 2 * i - 1 \in 1 .. l /\ 2 * i \in 1 .. l
    OBVIOUS
  <2>2. \A i \in 1 .. l \div 2 : /\ f[n.kids[2 * i - 1]] = g[n.kids[2 * i - 1]]
                                /\ f[n.kids[2 * i]] = g[n.kids[2 * i]]
    BY <1>2, <2>1
  <2>3. {<<f[n.kids[2 * i - 1]], f[n.kids[2 * i]]>> : i \in 1 .. l \div 2}
        = {<<g[n.kids[2 * i - 1]], g[n.kids[2 * i]]>> : i \in 1 .. l \div 2}
    BY <2>2
  <2> QED  BY <1>1, <1>5, <2>3 DEF Entries
<1>6. CASE n.type = "hash"
  BY <1>1, <1>2, <1>6 DEF Entries
<1>7. CASE n.type \notin Containers
  BY <1>7 DEF Entries, Containers
<1> QED  BY <1>3, <1>4, <1>5, <1>6, <1>7 DEF Containers

\* Two descriptions of the contents agree.
LEMMA ContentsAgree ==
    ASSUME NEW h, WellFounded(h), NEW D, Whole(h, D), NEW E, Whole(h, E),
           NEW f, Contents(h, f, D), NEW g, Contents(h, g, E), NEW y \in D \cap E
    PROVE  f[y] = g[y]
<1> DEFINE S == {x \in D \cap E : f[x] # g[x]}
<1>1. SUFFICES ASSUME S # {} PROVE FALSE
  OBVIOUS
<1>2. S \in SUBSET Addr
  BY DEF Whole
<1>3. PICK x \in S : ToSet(h[x].kids) \cap S = {}
  <2> HIDE DEF S
  <2> QED  BY <1>1, <1>2 DEF WellFounded
<1>4. \A k \in ToSet(h[x].kids) : f[k] = g[k]
  BY <1>3 DEF Whole
<1>5. h[x].kids \in Seq(Addr)
  BY <1>2, <1>3 DEF WellFounded
<1>6. Entries(h[x], f) = Entries(h[x], g)
  BY <1>4, <1>5, EntriesSame
<1> QED  BY <1>3, <1>6 DEF Contents, ContentBy

\* There is such a description for all values.
LEMMA ContentsExist ==
    ASSUME NEW h, WellFounded(h)
    PROVE  \E f : f = [x \in Addr |-> ContentBy(h, x, f)]
<1> DEFINE Known(x, f) == \E D \in SUBSET Addr : x \in D /\ Whole(h, D) /\ Contents(h, f, D)
           U == {x \in Addr : \E f : Known(x, f)}
           G == [x \in Addr |-> (CHOOSE f : Known(x, f))[x]]
<1>1. ASSUME NEW x \in U, NEW f, Known(x, f) PROVE G[x] = f[x]
  <2>1. PICK g : g = (CHOOSE e : Known(x, e)) /\ Known(x, g)
    <3> HIDE DEF Known
    <3> QED  BY <1>1
  <2>2. g[x] = f[x]
    BY <1>1, <2>1, ContentsAgree
  <2> QED  BY <2>1, <2>2
<1>2. ASSUME NEW x \in U PROVE ToSet(h[x].kids) \subseteq U /\ G[x] = ContentBy(h, x, G)
  <2>1. PICK f : Known(x, f)
    <3> HIDE DEF Known
    <3> QED  OBVIOUS
  <2>2. PICK D \in SUBSET Addr : x \in D /\ Whole(h, D) /\ Contents(h, f, D)
    BY <2>1
  <2>3. ASSUME NEW k \in D PROVE k \in U /\ Known(k, f) /\ G[k] = f[k]
    <3>1. k \in U /\ Known(k, f)
      BY <2>2
    <3> QED  BY <1>1, <3>1
  <2>4. \A k \in ToSet(h[x].kids) : k \in U /\ f[k] = G[k]
    BY <2>2, <2>3 DEF Whole
  <2>5. h[x].kids \in Seq(Addr)
    BY DEF WellFounded
  <2> HIDE DEF G, U
  <2>6. Entries(h[x], f) = Entries(h[x], G)
    BY <2>4, <2>5, EntriesSame
  <2>7. G[x] = f[x] /\ f[x] = ContentBy(h, x, f)
    BY <2>2, <2>3 DEF Contents
  <2> QED  BY <2>4, <2>6, <2>7 DEF ContentBy
<1>3. U = Addr
  <2>1. SUFFICES ASSUME Addr \ U # {} PROVE FALSE
    OBVIOUS
  <2>2. PICK x \in Addr \ U : ToSet(h[x].kids) \cap (Addr \ U) = {}
    <3>1. PICK S \in SUBSET Addr : S = Addr \ U
      OBVIOUS
    <3> QED  BY <2>1, <3>1 DEF WellFounded
  <2>3. h[x].kids \in Seq(Addr) /\ ToSet(h[x].kids) \subseteq U
    <3>1. h[x].kids \in Seq(Addr)
      BY DEF WellFounded
    <3>2. ToSet(h[x].kids) \subseteq Addr
      BY <3>1, ToSetOf
    <3> QED  BY <2>2, <3>1, <3>2
  <2> DEFINE D == U \cup {x}
             F == [G EXCEPT ![x] = ContentBy(h, x, G)]
  <2>4. D \in SUBSET Addr /\ x \in D /\ Whole(h, D)
    <3> HIDE DEF G
    <3> QED  BY <1>2, <2>3 DEF Whole
  <2>5. F[x] = ContentBy(h, x, G) /\ \A y \in U : F[y] = G[y]
    BY <2>2
  <2>6. ASSUME NEW y \in D PROVE ContentBy(h, y, F) = ContentBy(h, y, G)
    <3>1. ToSet(h[y].kids) \subseteq U /\ h[y].kids \in Seq(Addr)
      <4> HIDE DEF G, U
      <4> QED  BY <1>2, <2>3, <2>4 DEF WellFounded
    <3>2. \A k \in ToSet(h[y].kids) : F[k] = G[k]
      BY <2>5, <3>1
    <3> HIDE DEF F, G
    <3>3. Entries(h[y], F) = Entries(h[y], G)
      BY <3>1, <3>2, EntriesSame
    <3> QED  BY <3>3 DEF ContentBy
  <2>7. Contents(h, F, D)
    <3> HIDE DEF F, G, U
    <3> QED  BY <1>2, <2>5, <2>6 DEF Contents
  <2>8. Known(x, F)
    <3> HIDE DEF F, D
    <3> QED  BY <2>4, <2>7
  <2> QED  BY <2>2, <2>8
<1>4. G = [x \in Addr |-> G[x]]
  OBVIOUS
<1> HIDE DEF G, U
<1>5. \A x \in Addr : G[x] = ContentBy(h, x, G)
  BY <1>2, <1>3
<1>6. G = [x \in Addr |-> ContentBy(h, x, G)]
  BY <1>4, <1>5
<1> QED  BY <1>6

\* So Content is what its definition says.
LEMMA ContentUnfolds ==
    ASSUME NEW h, WellFounded(h)
    PROVE  \E f : /\ \A x \in Addr : f[x] = ContentBy(h, x, f)
                  /\ \A x \in Addr : Content(h, x) = f[x]
<1> DEFINE P(f) == f = [x \in Addr |-> ContentBy(h, x, f)]
           f == CHOOSE f : P(f)
<1>1. P(f)
  <2>1. \E g : P(g)
    BY ContentsExist
  <2> HIDE DEF P
  <2> QED  BY <2>1
<1>2. \A x \in Addr : Content(h, x) = f[x]
  BY DEF Content, ContentBy
<1> HIDE DEF f
<1>3. \A x \in Addr : f[x] = ContentBy(h, x, f)
  <2>1. PICK g : g = f
    OBVIOUS
  <2>2. f = [x \in Addr |-> ContentBy(h, x, g)]
    BY <1>1, <2>1
  <2>3. \A x \in Addr : f[x] = ContentBy(h, x, g)
    BY <2>2
  <2> QED  BY <2>1, <2>3
<1> QED  BY <1>2, <1>3

\* Two values are equal when f says which of their entries are.
Alike(h, f, D) == \A x \in D, y \in Addr : f[<<x, y>>] = SameNode(h[x], h[y], f)

\* Whether two nodes are the same depends only on their entries.
LEMMA SameNodeSame ==
    ASSUME NEW m, m.kids \in Seq(Addr), NEW n, n.kids \in Seq(Addr), NEW f, NEW g,
           \A j \in ToSet(m.kids), k \in Addr : f[<<j, k>>] = g[<<j, k>>]
    PROVE  SameNode(m, n, f) = SameNode(m, n, g)
<1>1. PICK l \in Nat : l = Len(m.kids) /\ DOMAIN m.kids = 1 .. l
  OBVIOUS
<1>2. CASE Len(n.kids) = l
  <2>1. ASSUME NEW i \in 1 .. l PROVE f[<<m.kids[i], n.kids[i]>>] = g[<<m.kids[i], n.kids[i]>>]
    <3>1. m.kids[i] \in ToSet(m.kids) /\ n.kids[i] \in Addr
      BY <1>1, <1>2, ToSetOf
    <3> QED  BY <3>1
  <2> QED  BY <1>1, <2>1 DEF SameNode
<1>3. CASE Len(n.kids) # l
  BY <1>1, <1>3 DEF SameNode, SameKeys
<1> QED  BY <1>2, <1>3

\* Two descriptions of the equal values agree.
LEMMA AlikeAgree ==
    ASSUME NEW h, WellFounded(h), NEW D, Whole(h, D), NEW E, Whole(h, E),
           NEW f, Alike(h, f, D), NEW g, Alike(h, g, E), NEW y \in D \cap E, NEW z \in Addr
    PROVE  f[<<y, z>>] = g[<<y, z>>]
<1> DEFINE S == {x \in D \cap E : \E w \in Addr : f[<<x, w>>] # g[<<x, w>>]}
<1>1. SUFFICES ASSUME S # {} PROVE FALSE
  OBVIOUS
<1>2. S \in SUBSET Addr
  BY DEF Whole
<1>3. PICK x \in S : ToSet(h[x].kids) \cap S = {}
  <2> HIDE DEF S
  <2> QED  BY <1>1, <1>2 DEF WellFounded
<1>4. \A j \in ToSet(h[x].kids), k \in Addr : f[<<j, k>>] = g[<<j, k>>]
  BY <1>3 DEF Whole
<1>5. ASSUME NEW w \in Addr PROVE f[<<x, w>>] = g[<<x, w>>]
  <2>1. h[x].kids \in Seq(Addr) /\ h[w].kids \in Seq(Addr)
    BY <1>2, <1>3 DEF WellFounded
  <2>2. SameNode(h[x], h[w], f) = SameNode(h[x], h[w], g)
    BY <1>4, <2>1, SameNodeSame
  <2>3. f[<<x, w>>] = SameNode(h[x], h[w], f) /\ g[<<x, w>>] = SameNode(h[x], h[w], g)
    BY <1>3 DEF Alike
  <2> QED  BY <2>2, <2>3
<1> QED  BY <1>3, <1>5

\* There is such a description for all values.
LEMMA AlikeExist ==
    ASSUME NEW h, WellFounded(h)
    PROVE  \E f : f = [p \in Addr \X Addr |-> SameNode(h[p[1]], h[p[2]], f)]
<1> DEFINE Known(x, f) == \E D \in SUBSET Addr : x \in D /\ Whole(h, D) /\ Alike(h, f, D)
           U == {x \in Addr : \E f : Known(x, f)}
           G == [p \in Addr \X Addr |-> (CHOOSE f : Known(p[1], f))[p]]
<1>1. ASSUME NEW x \in U, NEW f, Known(x, f), NEW y \in Addr PROVE G[<<x, y>>] = f[<<x, y>>]
  <2>1. PICK g : g = (CHOOSE e : Known(x, e)) /\ Known(x, g)
    <3> HIDE DEF Known
    <3> QED  BY <1>1
  <2>2. g[<<x, y>>] = f[<<x, y>>]
    BY <1>1, <2>1, AlikeAgree
  <2> QED  BY <2>1, <2>2
<1>2. ASSUME NEW x \in U
      PROVE  /\ ToSet(h[x].kids) \subseteq U
             /\ \A y \in Addr : G[<<x, y>>] = SameNode(h[x], h[y], G)
  <2>1. PICK f : Known(x, f)
    <3> HIDE DEF Known
    <3> QED  OBVIOUS
  <2>2. PICK D \in SUBSET Addr : x \in D /\ Whole(h, D) /\ Alike(h, f, D)
    BY <2>1
  <2>3. ASSUME NEW k \in D PROVE k \in U /\ \A y \in Addr : G[<<k, y>>] = f[<<k, y>>]
    <3>1. k \in U /\ Known(k, f)
      BY <2>2
    <3> HIDE DEF G, U, Known
    <3> QED  BY <1>1, <3>1
  <2>4. \A k \in ToSet(h[x].kids) : k \in U /\ \A y \in Addr : f[<<k, y>>] = G[<<k, y>>]
    <3> HIDE DEF G, U
    <3> QED  BY <2>2, <2>3 DEF Whole
  <2> HIDE DEF G, U, Known
  <2>5. ASSUME NEW y \in Addr PROVE G[<<x, y>>] = SameNode(h[x], h[y], G)
    <3>1. h[x].kids \in Seq(Addr) /\ h[y].kids \in Seq(Addr)
      BY <2>2 DEF WellFounded
    <3>2. SameNode(h[x], h[y], f) = SameNode(h[x], h[y], G)
      BY <2>4, <3>1, SameNodeSame
    <3>3. G[<<x, y>>] = f[<<x, y>>] /\ f[<<x, y>>] = SameNode(h[x], h[y], f)
      BY <2>2, <2>3 DEF Alike
    <3> QED  BY <3>2, <3>3
  <2> QED  BY <2>4, <2>5
<1>3. U = Addr
  <2>1. SUFFICES ASSUME Addr \ U # {} PROVE FALSE
    OBVIOUS
  <2>2. PICK x \in Addr \ U : ToSet(h[x].kids) \cap (Addr \ U) = {}
    <3>1. PICK S \in SUBSET Addr : S = Addr \ U
      OBVIOUS
    <3> QED  BY <2>1, <3>1 DEF WellFounded
  <2>3. h[x].kids \in Seq(Addr) /\ ToSet(h[x].kids) \subseteq U
    <3>1. h[x].kids \in Seq(Addr)
      BY DEF WellFounded
    <3>2. ToSet(h[x].kids) \subseteq Addr
      BY <3>1, ToSetOf
    <3> QED  BY <2>2, <3>1, <3>2
  <2> DEFINE D == U \cup {x}
             F == [p \in Addr \X Addr |-> IF p[1] = x THEN SameNode(h[p[1]], h[p[2]], G) ELSE G[p]]
  <2>4. D \in SUBSET Addr /\ x \in D /\ Whole(h, D)
    <3> HIDE DEF G
    <3> QED  BY <1>2, <2>3 DEF Whole
  <2>5. /\ \A w \in Addr : F[<<x, w>>] = SameNode(h[x], h[w], G)
        /\ \A v \in U, w \in Addr : F[<<v, w>>] = G[<<v, w>>]
    <3> HIDE DEF G
    <3> QED  BY <2>2
  <2>6. ASSUME NEW v \in D, NEW w \in Addr PROVE SameNode(h[v], h[w], F) = SameNode(h[v], h[w], G)
    <3>1. ToSet(h[v].kids) \subseteq U /\ h[v].kids \in Seq(Addr) /\ h[w].kids \in Seq(Addr)
      <4> HIDE DEF G, U
      <4> QED  BY <1>2, <2>3, <2>4 DEF WellFounded
    <3>2. \A j \in ToSet(h[v].kids), k \in Addr : F[<<j, k>>] = G[<<j, k>>]
      <4> HIDE DEF F, G, U
      <4> QED  BY <2>5, <3>1
    <3> HIDE DEF F, G
    <3> QED  BY <3>1, <3>2, SameNodeSame
  <2>7. Alike(h, F, D)
    <3> HIDE DEF F, G, U
    <3>1. ASSUME NEW v \in D, NEW w \in Addr PROVE F[<<v, w>>] = SameNode(h[v], h[w], F)
      <4>1. SameNode(h[v], h[w], F) = SameNode(h[v], h[w], G)
        BY <2>6
      <4>2. F[<<v, w>>] = SameNode(h[v], h[w], G)
        BY <1>2, <2>5
      <4> QED  BY <4>1, <4>2
    <3> QED  BY <3>1 DEF Alike
  <2>8. Known(x, F)
    <3> HIDE DEF F, D
    <3> QED  BY <2>4, <2>7
  <2> QED  BY <2>2, <2>8
<1>4. G = [p \in Addr \X Addr |-> G[p]]
  OBVIOUS
<1> HIDE DEF G, U
<1>5. \A x \in Addr, y \in Addr : G[<<x, y>>] = SameNode(h[x], h[y], G)
  BY <1>2, <1>3
<1>6. G = [p \in Addr \X Addr |-> SameNode(h[p[1]], h[p[2]], G)]
  <2>1. \A p \in Addr \X Addr : G[p] = SameNode(h[p[1]], h[p[2]], G)
    BY <1>5
  <2> QED  BY <1>4, <2>1
<1> QED  BY <1>6

\* So Equals is what its definition says.
LEMMA EqualsUnfolds ==
    ASSUME NEW h, WellFounded(h)
    PROVE  \E f : /\ Alike(h, f, Addr)
                  /\ \A x, y \in Addr : Equals(h, x, y) = f[<<x, y>>]
<1> DEFINE P(f) == f = [p \in Addr \X Addr |-> SameNode(h[p[1]], h[p[2]], f)]
           f == CHOOSE f : P(f)
<1>1. P(f)
  <2>1. \E g : P(g)
    BY AlikeExist
  <2> HIDE DEF P
  <2> QED  BY <2>1
<1>2. \A x, y \in Addr : Equals(h, x, y) = f[<<x, y>>]
  BY DEF Equals
<1> HIDE DEF f
<1>3. \A x, y \in Addr : f[<<x, y>>] = SameNode(h[x], h[y], f)
  <2>1. PICK g : g = f
    OBVIOUS
  <2>2. f = [p \in Addr \X Addr |-> SameNode(h[p[1]], h[p[2]], g)]
    BY <1>1, <2>1
  <2>3. \A x, y \in Addr : f[<<x, y>>] = SameNode(h[x], h[y], g)
    BY <2>2
  <2> QED  BY <2>1, <2>3
<1> QED  BY <1>2, <1>3 DEF Alike

(***************************************************************************)
(* A copy, value by value.                                                 *)
(***************************************************************************)

\* Every place of a pair: odd numbers are 2 j - 1, and the pairs of an even length
\* have all the places.
LEMMA PairPlaces ==
    ASSUME NEW l \in Nat, l % 2 = 0
    PROVE  /\ \A i \in 1 .. l \div 2 : 2 * i - 1 \in 1 .. l /\ 2 * i \in 1 .. l
                                      /\ (2 * i - 1) % 2 = 1
           /\ \A k \in 1 .. l : k % 2 = 1 => \E j \in 1 .. l \div 2 : k = 2 * j - 1
           /\ \A k \in 1 .. l : k % 2 # 1 => k - 1 \in 1 .. l /\ (k - 1) % 2 = 1
<1>1. PICK m \in Nat : l = 2 * m /\ l \div 2 = m
  OBVIOUS
<1>2. ASSUME NEW i \in 1 .. m PROVE 2 * i - 1 \in 1 .. l /\ 2 * i \in 1 .. l /\ (2 * i - 1) % 2 = 1
  BY <1>1
<1>3. ASSUME NEW k \in 1 .. l, k % 2 = 1 PROVE \E j \in 1 .. m : k = 2 * j - 1
  <2>1. PICK j \in Int : k = 2 * j + 1
    BY <1>3
  <2>2. j + 1 \in 1 .. m /\ k = 2 * (j + 1) - 1
    BY <1>1, <2>1
  <2> QED  BY <2>2
<1>4. ASSUME NEW k \in 1 .. l, k % 2 # 1 PROVE k - 1 \in 1 .. l /\ (k - 1) % 2 = 1
  BY <1>4
<1> QED  BY <1>1, <1>2, <1>3, <1>4

\* The copy of a value has the same entries, when the copies of its entries have
\* the same content as these.
LEMMA CopiedEntries ==
    ASSUME NEW n, NodeOK(n), NEW f, NEW p \in Orders(n), NEW q, q = CopiedNode(n, f, p),
           NEW g, \A k \in ToSet(n.kids) : g[f[k]] = g[k]
    PROVE  /\ q.type = n.type /\ q.raw = n.raw
           /\ Len(q.kids) = Len(n.kids) /\ Entries(q, g) = Entries(n, g)
<1>1. /\ n.kids \in Seq(Addr) /\ n.keys \in Seq(Key)
      /\ Len(n.keys) = IF n.type = "hash" THEN Len(n.kids) ELSE 0
      /\ n.type = "zset" => Len(n.kids) % 2 = 0
  BY DEF NodeOK, PairsOK
<1>2. PICK l \in Nat : l = Len(n.kids) /\ DOMAIN n.kids = 1 .. l
  BY <1>1
<1>3. /\ p \in [1 .. l -> 1 .. l]
      /\ \A i, j \in 1 .. l : p[i] = p[j] => i = j
      /\ \A j \in 1 .. l : \E i \in 1 .. l : p[i] = j
      /\ n.type = "array" => \A i \in 1 .. l : p[i] = i
      /\ n.type = "zset" => \A i \in 1 .. l :
                               i % 2 = 1 => p[i] % 2 = 1 /\ p[i + 1] = p[i] + 1
  <2>1. p \in Bijection(1 .. l, 1 .. l)
    BY <1>2 DEF Orders
  <2>2. /\ p \in [1 .. l -> 1 .. l]
        /\ \A i, j \in 1 .. l : p[i] = p[j] => i = j
        /\ \A j \in 1 .. l : \E i \in 1 .. l : p[i] = j
    BY <2>1 DEF Bijection, Injection, Surjection, IsInjective
  <2>3. /\ n.type = "array" => \A i \in DOMAIN p : p[i] = i
        /\ n.type = "zset" => \A i \in DOMAIN p :
                                 i % 2 = 1 => p[i] % 2 = 1 /\ p[i + 1] = p[i] + 1
    BY DEF Orders
  <2> QED  BY <2>2, <2>3
<1>4. /\ q.type = n.type /\ q.raw = n.raw
      /\ q.kids = [i \in 1 .. l |-> f[n.kids[p[i]]]]
      /\ q.keys = [i \in DOMAIN n.keys |-> n.keys[p[i]]]
  BY <1>2, CopiedParts
<1>5. DOMAIN q.kids = 1 .. l /\ Len(q.kids) = l
  <2>1. q.kids \in Seq({f[n.kids[p[i]]] : i \in 1 .. l})
    BY <1>4
  <2> QED  BY <1>4, <2>1
<1>6. ASSUME NEW i \in 1 .. l PROVE p[i] \in 1 .. l /\ g[q.kids[i]] = g[n.kids[p[i]]]
  <2>1. p[i] \in 1 .. l
    BY <1>3
  <2>2. n.kids[p[i]] \in ToSet(n.kids)
    BY <1>1, <1>2, <2>1, ToSetOf
  <2> QED  BY <1>4, <2>1, <2>2
<1>7. SUFFICES Entries(q, g) = Entries(n, g)
  BY <1>2, <1>4, <1>5
<1>8. CASE n.type = "array"
  <2>1. \A i \in 1 .. l : g[q.kids[i]] = g[n.kids[i]]
    BY <1>3, <1>6, <1>8
  <2>2. [i \in 1 .. l |-> g[q.kids[i]]] = [i \in 1 .. l |-> g[n.kids[i]]]
    BY <2>1
  <2> QED  BY <1>2, <1>4, <1>5, <1>8, <2>2 DEF Entries
<1>9. CASE n.type = "set"
  <2>1. {g[q.kids[i]] : i \in 1 .. l} = {g[n.kids[i]] : i \in 1 .. l}
    <3> DEFINE A(i) == g[q.kids[i]]
               B(i) == g[n.kids[i]]
    <3>1. \A i \in 1 .. l : p[i] \in 1 .. l /\ A(i) = B(p[i])
      BY <1>6
    <3> HIDE DEF A, B
    <3>2. {A(i) : i \in 1 .. l} = {B(i) : i \in 1 .. l}
      BY <1>3, <3>1
    <3> QED  BY <3>2 DEF A, B
  <2> QED  BY <1>2, <1>4, <1>5, <1>9, <2>1 DEF Entries
<1>10. CASE n.type = "zset"
  <2>1. l % 2 = 0
    BY <1>1, <1>2, <1>10
  <2>2. ASSUME NEW i \in 1 .. l \div 2, NEW j \in 1 .. l \div 2, p[2 * i - 1] = 2 * j - 1
        PROVE  <<g[q.kids[2 * i - 1]], g[q.kids[2 * i]]>>
               = <<g[n.kids[2 * j - 1]], g[n.kids[2 * j]]>>
    <3>1. 2 * i - 1 \in 1 .. l /\ 2 * i \in 1 .. l /\ (2 * i - 1) % 2 = 1
      BY <2>1, PairPlaces
    <3>2. p[(2 * i - 1) + 1] = p[2 * i - 1] + 1
      BY <1>3, <1>10, <3>1
    <3>3. p[2 * i] = 2 * j
      <4>1. (2 * i - 1) + 1 = 2 * i /\ (2 * j - 1) + 1 = 2 * j
        OBVIOUS
      <4> QED  BY <2>2, <3>2, <4>1
    <3>4. g[q.kids[2 * i - 1]] = g[n.kids[2 * j - 1]] /\ g[q.kids[2 * i]] = g[n.kids[2 * j]]
      BY <1>6, <2>2, <3>1, <3>3
    <3> QED  BY <3>4
  <2>3. ASSUME NEW i \in 1 .. l \div 2 PROVE \E j \in 1 .. l \div 2 : p[2 * i - 1] = 2 * j - 1
    <3>1. 2 * i - 1 \in 1 .. l /\ (2 * i - 1) % 2 = 1
      BY <2>1, PairPlaces
    <3>2. p[2 * i - 1] \in 1 .. l /\ p[2 * i - 1] % 2 = 1
      BY <1>3, <1>10, <3>1
    <3> QED  BY <2>1, <3>2, PairPlaces
  <2>4. ASSUME NEW j \in 1 .. l \div 2 PROVE \E i \in 1 .. l \div 2 : p[2 * i - 1] = 2 * j - 1
    <3>1. 2 * j - 1 \in 1 .. l /\ (2 * j - 1) % 2 = 1
      BY <2>1, PairPlaces
    <3>2. PICK k \in 1 .. l : p[k] = 2 * j - 1
      BY <1>3, <3>1
    <3>3. k % 2 = 1
      <4>1. SUFFICES ASSUME k % 2 # 1 PROVE FALSE
        OBVIOUS
      <4>2. k - 1 \in 1 .. l /\ (k - 1) % 2 = 1
        BY <2>1, <4>1, PairPlaces
      <4>3. p[k - 1] % 2 = 1 /\ p[(k - 1) + 1] = p[k - 1] + 1
        BY <1>3, <1>10, <4>2
      <4>4. (k - 1) + 1 = k
        OBVIOUS
      <4>5. p[k - 1] \in Int /\ p[k] = p[k - 1] + 1
        BY <1>3, <4>2, <4>3, <4>4
      <4> QED  BY <3>1, <3>2, <4>3, <4>5
    <3> QED  BY <2>1, <3>2, <3>3, PairPlaces
  <2>5. {<<g[q.kids[2 * i - 1]], g[q.kids[2 * i]]>> : i \in 1 .. l \div 2}
        = {<<g[n.kids[2 * i - 1]], g[n.kids[2 * i]]>> : i \in 1 .. l \div 2}
    <3> DEFINE A(i) == <<g[q.kids[2 * i - 1]], g[q.kids[2 * i]]>>
               B(i) == <<g[n.kids[2 * i - 1]], g[n.kids[2 * i]]>>
    <3>1. /\ \A i \in 1 .. l \div 2 : \E j \in 1 .. l \div 2 : A(i) = B(j)
          /\ \A j \in 1 .. l \div 2 : \E i \in 1 .. l \div 2 : A(i) = B(j)
      <4>1. \A i, j \in 1 .. l \div 2 : p[2 * i - 1] = 2 * j - 1 => A(i) = B(j)
        BY <2>2
      <4> HIDE DEF A, B
      <4> QED  BY <2>3, <2>4, <4>1
    <3> HIDE DEF A, B
    <3>2. {A(i) : i \in 1 .. l \div 2} = {B(i) : i \in 1 .. l \div 2}
      BY <3>1
    <3> QED  BY <3>2 DEF A, B
  <2> QED  BY <1>2, <1>4, <1>5, <1>10, <2>5 DEF Entries
<1>11. CASE n.type = "hash"
  <2>1. DOMAIN n.keys = 1 .. l
    BY <1>1, <1>2, <1>11
  <2>2. \A i \in 1 .. l : q.keys[i] = n.keys[p[i]]
    BY <1>4, <2>1
  <2>3. {<<q.keys[i], g[q.kids[i]]>> : i \in 1 .. l} = {<<n.keys[i], g[n.kids[i]]>> : i \in 1 .. l}
    <3> DEFINE A(i) == <<q.keys[i], g[q.kids[i]]>>
               B(i) == <<n.keys[i], g[n.kids[i]]>>
    <3>1. \A i \in 1 .. l : p[i] \in 1 .. l /\ A(i) = B(p[i])
      BY <1>6, <2>2
    <3> HIDE DEF A, B
    <3>2. {A(i) : i \in 1 .. l} = {B(i) : i \in 1 .. l}
      BY <1>3, <3>1
    <3> QED  BY <3>2 DEF A, B
  <2> QED  BY <1>2, <1>4, <1>5, <1>11, <2>3 DEF Entries
<1>12. CASE n.type \notin Containers
  BY <1>4, <1>12 DEF Entries, Containers
<1> QED  BY <1>8, <1>9, <1>10, <1>11, <1>12 DEF Containers

\* A value with no more than one entry to put in order is copied in its order.
LEMMA OrderIsIdentity ==
    ASSUME NEW n, NodeOK(n), NEW p \in Orders(n),
           n.type \in {"set", "hash"} => Len(n.kids) <= 1,
           n.type = "zset" => Len(n.kids) <= 2
    PROVE  \A i \in DOMAIN n.kids : p[i] = i
<1>1. n.kids \in Seq(Addr) /\ (n.type = "zset" => Len(n.kids) % 2 = 0)
  BY DEF NodeOK, PairsOK
<1>2. PICK l \in Nat : l = Len(n.kids) /\ DOMAIN n.kids = 1 .. l
  BY <1>1
<1>3. /\ p \in [1 .. l -> 1 .. l]
      /\ n.type = "array" => \A i \in 1 .. l : p[i] = i
      /\ n.type = "zset" => \A i \in 1 .. l :
                               i % 2 = 1 => p[i] % 2 = 1 /\ p[i + 1] = p[i] + 1
  BY <1>2 DEF Orders, Bijection, Injection
<1>4. CASE n.type = "array"
  BY <1>2, <1>3, <1>4
<1>5. CASE n.type \in {"set", "hash"}
  <2>1. l <= 1
    BY <1>2, <1>5
  <2>2. ASSUME NEW i \in 1 .. l PROVE p[i] = i
    <3>1. p[i] \in 1 .. l
      BY <1>3
    <3> QED  BY <2>1, <3>1
  <2> QED  BY <1>2, <2>2
<1>6. CASE n.type = "zset"
  <2>1. l = 0 \/ l = 2
    <3>1. l <= 2 /\ l % 2 = 0
      BY <1>1, <1>2, <1>6
    <3> QED  BY <3>1
  <2>2. CASE l = 2
    <3>1. p[1] \in 1 .. 2 /\ p[1] % 2 = 1 /\ p[1 + 1] = p[1] + 1
      BY <1>3, <1>6, <2>2
    <3>2. p[1] = 1
      BY <3>1
    <3>3. p[2] = 2
      BY <3>1, <3>2
    <3>4. 1 .. 2 = {1, 2}
      OBVIOUS
    <3> QED  BY <1>2, <2>2, <3>2, <3>3, <3>4
  <2> QED  BY <1>2, <2>1, <2>2
<1>7. CASE n.type \notin Containers
  BY <1>2, <1>7 DEF NodeOK
<1> QED  BY <1>4, <1>5, <1>6, <1>7 DEF Containers

\* A value that is copied in its order is the same node, when its entries equal
\* their copies.
LEMMA CopiedSame ==
    ASSUME NEW n, NodeOK(n), NEW f, NEW p \in Orders(n), NEW q, q = CopiedNode(n, f, p),
           \A i \in DOMAIN n.kids : p[i] = i, n.type # "nan",
           NEW e, \A k \in ToSet(n.kids) : e[<<k, f[k]>>]
    PROVE  SameNode(n, q, e)
<1>1. /\ n.kids \in Seq(Addr) /\ n.keys \in Seq(Key)
      /\ Len(n.keys) = IF n.type = "hash" THEN Len(n.kids) ELSE 0
  BY DEF NodeOK
<1>2. PICK l \in Nat : l = Len(n.kids) /\ DOMAIN n.kids = 1 .. l
  BY <1>1
<1>3. /\ q.type = n.type /\ q.raw = n.raw
      /\ q.kids = [i \in 1 .. l |-> f[n.kids[p[i]]]]
      /\ q.keys = [i \in DOMAIN n.keys |-> n.keys[p[i]]]
  BY <1>2, CopiedParts
<1>4. Len(q.kids) = l
  <2>1. q.kids \in Seq({f[n.kids[p[i]]] : i \in 1 .. l})
    BY <1>3
  <2> QED  BY <1>3, <2>1
<1>5. q.keys = n.keys
  <2>1. \A i \in DOMAIN n.keys : p[i] = i
    <3>1. DOMAIN n.keys \subseteq DOMAIN n.kids
      BY <1>1
    <3> QED  BY <3>1
  <2>2. n.keys = [i \in DOMAIN n.keys |-> n.keys[i]]
    BY <1>1
  <2> QED  BY <1>3, <2>1, <2>2
<1>6. ASSUME NEW i \in 1 .. l PROVE e[<<n.kids[i], q.kids[i]>>]
  <2>1. q.kids[i] = f[n.kids[i]] /\ n.kids[i] \in ToSet(n.kids)
    <3>1. n.kids[i] \in ToSet(n.kids) /\ p[i] = i
      BY <1>1, <1>2, ToSetOf
    <3> QED  BY <1>3, <3>1
  <2> QED  BY <2>1
<1> QED  BY <1>2, <1>3, <1>4, <1>5, <1>6 DEF SameNode, SameLeaf, SameKeys

\* The heap a step leads to is well founded: no container is below itself.
LEMMA OwnersWellFounded ==
    ASSUME SingleOwner'
    PROVE  WellFounded(heap')
<1>1. \A x \in Addr : heap'[x].kids \in Seq(Addr)
  BY DEF SingleOwner, TypeOK
<1> QED  BY <1>1 DEF WellFounded, SingleOwner, Grounded, Kids

\* After a copy to f: x and f[x] are the original and the copy of every value
\* below a, and the original is as it was.
Copied(a, f) ==
    \A x \in Reach(a) :
        /\ x \in Addr /\ f[x] \in Addr /\ heap'[x] = heap[x] /\ NodeOK(heap[x])
        /\ Kids(x) \subseteq Reach(a)
        /\ \E p \in Orders(heap[x]) : heap'[f[x]] = CopiedNode(heap[x], f, p)

\* That is what DeepCopy does.
LEMMA CopyPlaces ==
    ASSUME SingleOwner, NEW a \in Accessible, NEW f \in Injection(Reach(a), Unused), CopyTo(a, f)
    PROVE  a \in Reach(a) /\ Copied(a, f)
<1>1. a \in Live /\ a \in Addr /\ TypeOK
  BY Context DEF SingleOwner
<1>2. a \in Reach(a) /\ Closed(Reach(a)) /\ Reach(a) \subseteq Addr
  BY <1>1, ReachClosed
<1>3. Reach(a) \subseteq Live
  BY <1>1, ReachLive DEF SingleOwner
<1>4. /\ \A x \in Reach(a) : \E p \in Orders(heap[x]) : heap'[f[x]] = CopiedNode(heap[x], f, p)
      /\ \A y \in Addr \ Range(f) : heap'[y] = heap[y]
  BY <1>1, CopyAfter
<1>5. f \in [Reach(a) -> Unused] /\ Range(f) \cap Live = {}
  BY DEF Injection, Range, Unused
<1>6. ASSUME NEW x \in Reach(a)
      PROVE  x \in Addr /\ f[x] \in Addr /\ heap'[x] = heap[x] /\ NodeOK(heap[x])
  BY <1>2, <1>3, <1>4, <1>5, Context DEF Unused
<1> QED  BY <1>2, <1>4, <1>6 DEF Copied, Closed

\* The copy has the content of the original.
LEMMA CopyContent ==
    ASSUME SingleOwner, SingleOwner', NEW a, a \in Reach(a), NEW f, Copied(a, f)
    PROVE  Content(heap', f[a]) = Content(heap', a)
<1>1. WellFounded(heap')
  BY OwnersWellFounded
<1>2. PICK g : /\ \A x \in Addr : g[x] = ContentBy(heap', x, g)
               /\ \A x \in Addr : Content(heap', x) = g[x]
  BY <1>1, ContentUnfolds
<1> DEFINE S == {x \in Reach(a) : g[f[x]] # g[x]}
<1>3. S = {}
  <2>1. SUFFICES ASSUME S # {} PROVE FALSE
    OBVIOUS
  <2>2. S \in SUBSET Addr
    BY DEF Copied
  <2>3. PICK x \in S : Kids(x) \cap S = {}
    <3> HIDE DEF S
    <3> QED  BY <2>1, <2>2 DEF SingleOwner, Grounded
  <2>4. PICK p \in Orders(heap[x]) : heap'[f[x]] = CopiedNode(heap[x], f, p)
    BY <2>3 DEF Copied
  <2>5. x \in Addr /\ f[x] \in Addr /\ heap'[x] = heap[x] /\ NodeOK(heap[x])
    BY <2>3 DEF Copied
  <2>6. \A k \in ToSet(heap[x].kids) : g[f[k]] = g[k]
    BY <2>3 DEF Copied, Kids
  <2>7. PICK n, q : n = heap[x] /\ q = heap'[f[x]]
    OBVIOUS
  <2>8. /\ q.type = n.type /\ q.raw = n.raw
        /\ Len(q.kids) = Len(n.kids) /\ Entries(q, g) = Entries(n, g)
    BY <2>4, <2>5, <2>6, <2>7, CopiedEntries
  <2>9. ContentBy(heap', f[x], g) = ContentBy(heap', x, g)
    BY <2>5, <2>7, <2>8 DEF ContentBy
  <2>10. g[f[x]] = g[x]
    BY <1>2, <2>5, <2>9
  <2> QED  BY <2>3, <2>10
<1>4. a \in Addr /\ f[a] \in Addr
  BY DEF Copied
<1> QED  BY <1>2, <1>3, <1>4

\* What was below the original still is.
LEMMA ReachCopied ==
    ASSUME NEW a, a \in Reach(a), NEW f, Copied(a, f)
    PROVE  \A x \in Reach(a) : x \in Reach(a)'
<1>1. /\ Reach(a) \subseteq Addr
      /\ \A x \in Reach(a) : Kids(x)' = Kids(x) /\ Kids(x) \subseteq Reach(a)
  BY DEF Copied, Kids
<1>2. SUFFICES ASSUME NEW x \in Reach(a), NEW S \in SUBSET Addr, a \in S,
                      \A y \in S : Kids(y)' \subseteq S
               PROVE  x \in S
  BY <1>1 DEF Reach
<1>3. PICK T \in SUBSET Addr : T = S \cap Reach(a)
  OBVIOUS
<1>4. a \in T /\ Closed(T)
  BY <1>1, <1>2, <1>3 DEF Closed
<1>5. Reach(a) \subseteq T
  BY <1>4, ReachLeast
<1> QED  BY <1>3, <1>5

\* The copy equals the original when the order of iteration is the same.
LEMMA CopyEquals ==
    ASSUME SingleOwner, SingleOwner', NEW a, a \in Reach(a), NEW f, Copied(a, f), Comparable(a)'
    PROVE  Equals(heap', a, f[a])
<1>1. WellFounded(heap')
  BY OwnersWellFounded
<1>2. PICK e : /\ Alike(heap', e, Addr)
               /\ \A x, y \in Addr : Equals(heap', x, y) = e[<<x, y>>]
  BY <1>1, EqualsUnfolds
<1> DEFINE S == {x \in Reach(a) : ~e[<<x, f[x]>>]}
<1>3. S = {}
  <2>1. SUFFICES ASSUME S # {} PROVE FALSE
    OBVIOUS
  <2>2. S \in SUBSET Addr
    BY DEF Copied
  <2>3. PICK x \in S : Kids(x) \cap S = {}
    <3> HIDE DEF S
    <3> QED  BY <2>1, <2>2 DEF SingleOwner, Grounded
  <2>4. PICK p \in Orders(heap[x]) : heap'[f[x]] = CopiedNode(heap[x], f, p)
    BY <2>3 DEF Copied
  <2>5. x \in Addr /\ f[x] \in Addr /\ heap'[x] = heap[x] /\ NodeOK(heap[x])
    BY <2>3 DEF Copied
  <2>6. \A k \in ToSet(heap[x].kids) : e[<<k, f[k]>>]
    BY <2>3 DEF Copied, Kids
  <2>7. PICK n, q : n = heap[x] /\ q = heap'[f[x]]
    OBVIOUS
  <2>8. /\ n.type \in {"set", "hash"} => Len(n.kids) <= 1
        /\ n.type = "zset" => Len(n.kids) <= 2
        /\ n.type # "nan"
    <3>1. x \in Reach(a)'
      BY <2>3, ReachCopied
    <3> QED  BY <2>5, <2>7, <3>1 DEF Comparable
  <2>9. \A i \in DOMAIN n.kids : p[i] = i
    BY <2>4, <2>5, <2>7, <2>8, OrderIsIdentity
  <2>10. SameNode(n, q, e)
    BY <2>4, <2>5, <2>6, <2>7, <2>8, <2>9, CopiedSame
  <2>11. e[<<x, f[x]>>] = SameNode(heap'[x], heap'[f[x]], e)
    BY <1>2, <2>5 DEF Alike
  <2>12. e[<<x, f[x]>>]
    BY <2>5, <2>7, <2>10, <2>11
  <2> QED  BY <2>3, <2>12
<1>4. a \in Addr /\ f[a] \in Addr
  BY DEF Copied
<1> QED  BY <1>2, <1>3, <1>4

\* DeepCopy of a value of any depth (nested arrays, sets, zsets and hashes) yields
\* a value with the same content, whatever the order in which the unordered
\* containers of the copy are iterated; and Equals finds the two equal where only
\* one order is possible and no leaf is a NaN.
THEOREM CopiesAreFaithful == Spec => []CopyIsFaithful
<1>1. Init => CopyIsFaithful
  BY DEF Init, CopyIsFaithful
<1>2. ASSUME SingleOwner, SingleOwner', CopyIsFaithful, [Next]_vars
      PROVE  CopyIsFaithful'
  <2>1. ASSUME NEW a \in Accessible, DeepCopy(a) PROVE CopyIsFaithful'
    <3>1. PICK f \in Injection(Reach(a), Unused) : CopyTo(a, f) /\ copied' = <<a, f[a]>>
      BY <2>1 DEF DeepCopy
    <3>2. a \in Reach(a) /\ Copied(a, f)
      BY <1>2, <3>1, CopyPlaces
    <3>3. Content(heap', f[a]) = Content(heap', a)
      BY <1>2, <3>2, CopyContent
    <3>4. Comparable(a)' => Equals(heap', a, f[a])
      BY <1>2, <3>2, CopyEquals
    <3>5. copied'[1] = a /\ copied'[2] = f[a]
      BY <3>1
    <3> QED  BY <3>3, <3>4, <3>5 DEF CopyIsFaithful
  <2>2. CASE copied' = <<>>
    BY <2>2 DEF CopyIsFaithful
  <2>3. CASE UNCHANGED vars
    <3>1. heap' = heap /\ copied' = copied
      BY <2>3 DEF vars
    <3> QED  BY <1>2, <3>1 DEF CopyIsFaithful, Comparable, Reach, Kids
  <2> QED  BY <1>2, <2>1, <2>2, <2>3 DEF Next
<1>3. SingleOwner /\ SingleOwner' /\ CopyIsFaithful /\ [Next]_vars => CopyIsFaithful'
  BY <1>2
<1> QED  BY <1>1, <1>3, SingleOwnerHolds, PTL DEF Spec

=============================================================================
