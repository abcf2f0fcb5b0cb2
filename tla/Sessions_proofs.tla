-------------------------- MODULE Sessions_proofs --------------------------
(***************************************************************************)
(* Proofs about Sessions, for any number of sessions and any limits.       *)
(***************************************************************************)
EXTENDS Sessions, SequenceTheorems, TLAPS

-----------------------------------------------------------------------------
(* Sequences *)

(* A sequence without its element at place k.                              *)
LEMMA WithoutFacts ==
    ASSUME NEW S, NEW q \in Seq(S), NEW k \in 1 .. Len(q)
    PROVE  /\ Without(q, k) \in Seq(S)
           /\ Len(Without(q, k)) = Len(q) - 1
           /\ \A j \in 1 .. Len(q) - 1 :
                 Without(q, k)[j] = IF j < k THEN q[j] ELSE q[j + 1]
<1> DEFINE n == Len(q) - 1
           w == Without(q, k)
<1>1. n \in Nat /\ Len(q) \in Nat /\ k \in Nat
  BY LenProperties
<1>2. \A j \in 1 .. n : (IF j < k THEN q[j] ELSE q[j + 1]) \in S
  BY <1>1, ElementOfSeq
<1>3. w \in [1 .. n -> S]
  BY <1>2 DEF Without
<1>4. w \in Seq(S)
  BY <1>1, <1>3, SeqDef
<1>5. Len(w) = n
  <2>1. DOMAIN w = 1 .. n /\ DOMAIN w = 1 .. Len(w) /\ Len(w) \in Nat
    BY <1>3, <1>4, LenProperties
  <2> QED  BY <1>1, <2>1
<1>6. \A j \in 1 .. n : w[j] = IF j < k THEN q[j] ELSE q[j + 1]
  BY DEF Without
<1> QED  BY <1>4, <1>5, <1>6

(* A sequence behind one more element.                                     *)
LEMMA BehindFacts ==
    ASSUME NEW S, NEW q \in Seq(S), NEW c \in S
    PROVE  /\ <<c>> \o q \in Seq(S)
           /\ Len(<<c>> \o q) = Len(q) + 1
           /\ (<<c>> \o q)[1] = c
           /\ \A j \in 1 .. Len(q) : (<<c>> \o q)[j + 1] = q[j]
<1>1. <<c>> \in Seq(S) /\ Len(<<c>>) = 1 /\ <<c>>[1] = c
  OBVIOUS
<1>2. Len(q) \in Nat
  BY LenProperties
<1>3. /\ <<c>> \o q \in Seq(S)
      /\ Len(<<c>> \o q) = Len(<<c>>) + Len(q)
      /\ \A i \in 1 .. Len(<<c>>) + Len(q) :
            (<<c>> \o q)[i] = IF i <= Len(<<c>>) THEN <<c>>[i] ELSE q[i - Len(<<c>>)]
  BY <1>1, ConcatProperties
<1>4. \A j \in 1 .. Len(q) : (<<c>> \o q)[j + 1] = q[j]
  BY <1>1, <1>2, <1>3
<1> QED  BY <1>1, <1>2, <1>3, <1>4

-----------------------------------------------------------------------------
(* The doubly linked list *)

(* A session that comes is linked before the others.                       *)
LEMMA LinkedSound ==
    ASSUME ListsTypeOK, ListIsSound, NEW c \in Structs, c \notin active, Linked(c)
    PROVE  ListIsSound' /\ order' \in Seq(Structs)
<1> DEFINE q == order'
           n == Len(order)
<1>1. /\ order \in Seq(Structs) /\ n \in Nat /\ DOMAIN order = 1 .. n
      /\ \A i \in 1 .. n : order[i] \in Structs
      /\ Null \notin Structs
  BY SessionsAssumption, LenProperties, ElementOfSeq DEF ListsTypeOK
<1>a. \A m \in 1 .. n : /\ anext[order[m]] = At(order, m + 1)
                        /\ aprev[order[m]] = At(order, m - 1)
  BY <1>1 DEF ListIsSound
<1>2. /\ q \in Seq(Structs) /\ Len(q) = n + 1 /\ DOMAIN q = 1 .. n + 1
      /\ q[1] = c /\ \A j \in 1 .. n : q[j + 1] = order[j]
  BY <1>1, BehindFacts, LenProperties DEF Linked
<1> HIDE DEF q
<1>3. \A i \in 2 .. n + 1 : i - 1 \in 1 .. n /\ q[i] = order[i - 1]
  <2>1. ASSUME NEW i \in 2 .. n + 1
        PROVE  i - 1 \in 1 .. n /\ q[(i - 1) + 1] = order[i - 1] /\ (i - 1) + 1 = i
    BY <1>1, <1>2
  <2> QED  BY <2>1
<1>4. \A i \in 1 .. n : order[i] \in active /\ order[i] # c
  BY <1>1 DEF ListIsSound, Elements
<1>5. Distinct(q)
  <2>1. ASSUME NEW i \in 1 .. n + 1, NEW j \in 1 .. n + 1, q[i] = q[j]
        PROVE  i = j
    <3>1. CASE i = 1 /\ j = 1
      BY <3>1
    <3>2. CASE i # 1 /\ j = 1
      BY <1>1, <1>2, <1>3, <1>4, <2>1, <3>2
    <3>3. CASE i = 1 /\ j # 1
      BY <1>1, <1>2, <1>3, <1>4, <2>1, <3>3
    <3>4. CASE i # 1 /\ j # 1
      <4>1. i - 1 \in 1 .. n /\ j - 1 \in 1 .. n /\ order[i - 1] = order[j - 1]
        BY <1>1, <1>3, <2>1, <3>4
      <4>2. i - 1 = j - 1
        BY <1>1, <4>1 DEF ListIsSound, Distinct
      <4> QED  BY <1>1, <4>2
    <3> QED  BY <3>1, <3>2, <3>3, <3>4
  <2> QED  BY <1>2, <2>1 DEF Distinct
<1>6. Elements(q) = active'
  <2>1. ASSUME NEW i \in 1 .. n + 1 PROVE q[i] \in active'
    <3>1. CASE i = 1
      BY <1>2, <3>1 DEF Linked
    <3>2. CASE i # 1
      BY <1>1, <1>3, <1>4, <3>2 DEF Linked
    <3> QED  BY <3>1, <3>2
  <2>2. \A x \in active' : x \in Elements(q)
    <3>1. c \in Elements(q)
      BY <1>1, <1>2 DEF Elements
    <3>2. ASSUME NEW x \in active PROVE x \in Elements(q)
      <4>1. PICK j \in 1 .. n : order[j] = x
        BY <1>1 DEF ListIsSound, Elements
      <4>2. j + 1 \in 1 .. n + 1 /\ q[j + 1] = x
        BY <1>1, <1>2, <4>1
      <4> QED  BY <1>2, <4>2 DEF Elements
    <3> QED  BY <3>1, <3>2 DEF Linked
  <2> QED  BY <1>2, <2>1, <2>2 DEF Elements
<1>7. activeList' = At(q, 1) /\ activeCount' = Len(q)
  BY <1>1, <1>2 DEF Linked, ListIsSound, At
<1>8. At(q, 2) = activeList /\ At(q, 0) = Null
  BY <1>1, <1>2, <1>3 DEF ListIsSound, At
<1>9. ASSUME NEW i \in 1 .. n + 1
      PROVE  anext'[q[i]] = At(q, i + 1) /\ aprev'[q[i]] = At(q, i - 1)
  <2>1. CASE i = 1
    BY <1>1, <1>2, <1>8, <2>1 DEF Linked, ListsTypeOK
  <2>2. CASE i # 1
    <3>1. i - 1 \in 1 .. n /\ q[i] = order[i - 1] /\ q[i] # c /\ q[i] \in Structs
      BY <1>1, <1>3, <1>4, <2>2
    <3>2. anext'[q[i]] = anext[q[i]] /\ anext[q[i]] = At(order, i)
      <4>1. anext[order[i - 1]] = At(order, (i - 1) + 1) /\ (i - 1) + 1 = i
        BY <1>1, <1>a, <3>1
      <4> QED  BY <3>1, <4>1 DEF Linked, ListsTypeOK
    <3>3. At(order, i) = At(q, i + 1)
      BY <1>1, <1>2, <2>2 DEF At
    <3>4. CASE i = 2
      <4>1. q[i] = activeList
        BY <1>1, <3>1, <3>4 DEF ListIsSound, At
      <4>2. aprev'[q[i]] = c
        BY <3>1, <4>1 DEF Linked
      <4> QED  BY <1>1, <1>2, <3>2, <3>3, <3>4, <4>2 DEF At
    <3>5. CASE i # 2
      <4>1. i - 2 \in 1 .. n /\ (i - 2) + 1 = i - 1 /\ q[i - 1] = order[i - 2] /\ i - 1 \in 1 .. n + 1
        BY <1>1, <1>2, <1>3, <2>2, <3>5
      <4>2. aprev[order[i - 1]] = At(order, (i - 1) - 1) /\ (i - 1) - 1 = i - 2
        BY <1>1, <1>a, <3>1
      <4>3. q[i] # activeList
        <5>1. activeList = order[1] /\ 1 \in 1 .. n
          BY <1>1, <3>1 DEF ListIsSound, At
        <5>2. i - 1 # 1
          BY <3>5
        <5> QED  BY <1>1, <3>1, <5>1, <5>2 DEF ListIsSound, Distinct
      <4>4. aprev'[q[i]] = aprev[q[i]]
        BY <3>1, <4>3 DEF Linked
      <4> QED  BY <1>1, <1>2, <3>1, <3>2, <3>3, <4>1, <4>2, <4>4 DEF At
    <3> QED  BY <3>4, <3>5
  <2> QED  BY <2>1, <2>2
<1> QED  BY <1>2, <1>5, <1>6, <1>7, <1>9 DEF ListIsSound, q
(* A session that goes is taken out, wherever it is.                       *)
LEMMA UnlinkedSound ==
    ASSUME ListsTypeOK, ListIsSound, NEW c \in active, Unlinked(c)
    PROVE  /\ ListIsSound' /\ order' \in Seq(Structs)
           /\ Len(order) > 0 /\ Len(order') = Len(order) - 1
           /\ Position(c) \in 1 .. Len(order) /\ order[Position(c)] = c
<1> DEFINE q == order'
           n == Len(order)
           k == Position(c)
<1>1. /\ order \in Seq(Structs) /\ n \in Nat /\ DOMAIN order = 1 .. n
      /\ \A i \in 1 .. n : order[i] \in Structs
      /\ Null \notin Structs /\ c \in Structs
  BY SessionsAssumption, LenProperties, ElementOfSeq DEF ListsTypeOK
<1>2. k \in 1 .. n /\ order[k] = c
  <2>1. \E i \in DOMAIN order : order[i] = c
    BY DEF ListIsSound, Elements
  <2> QED  BY <1>1, <2>1 DEF Position
<1>3. \A i \in 1 .. n : /\ anext[order[i]] = At(order, i + 1)
                        /\ aprev[order[i]] = At(order, i - 1)
  BY <1>1 DEF ListIsSound
<1>4. \A i, j \in 1 .. n : order[i] = order[j] => i = j
  BY <1>1 DEF ListIsSound, Distinct
<1>5. /\ q \in Seq(Structs) /\ Len(q) = n - 1 /\ DOMAIN q = 1 .. n - 1
      /\ \A j \in 1 .. n - 1 : q[j] = IF j < k THEN order[j] ELSE order[j + 1]
  <2>1. q = Without(order, k)
    BY DEF Unlinked
  <2>2. order \in Seq(Structs) /\ k \in 1 .. Len(order)
    BY <1>1, <1>2
  <2> HIDE DEF q, k
  <2>3. /\ Without(order, k) \in Seq(Structs) /\ Len(Without(order, k)) = Len(order) - 1
        /\ \A j \in 1 .. Len(order) - 1 :
              Without(order, k)[j] = IF j < k THEN order[j] ELSE order[j + 1]
    BY <2>2, WithoutFacts
  <2>4. DOMAIN q = 1 .. Len(q)
    BY <2>1, <2>3, LenProperties
  <2> QED  BY <2>1, <2>3, <2>4
<1> HIDE DEF q, k
<1>6. /\ anext[c] = At(order, k + 1) /\ aprev[c] = At(order, k - 1)
      /\ \A s \in Structs : anext'[s] = IF s = c THEN Null
                                        ELSE IF s = aprev[c] THEN anext[c] ELSE anext[s]
      /\ \A s \in Structs : aprev'[s] = IF s = c THEN Null
                                        ELSE IF s = anext[c] THEN aprev[c] ELSE aprev[s]
      /\ activeList' = IF aprev[c] # Null THEN activeList ELSE anext[c]
  BY <1>2, <1>3 DEF Unlinked, NextWithout, PrevWithout, HeadWithout
<1>7. \A i \in 1 .. n : At(order, i) = order[i] /\ At(order, i) # Null
  BY <1>1 DEF At
<1>8. At(order, 0) = Null /\ At(order, n + 1) = Null
  BY <1>1 DEF At
<1>9. \A j \in 1 .. n - 1 : IF j < k THEN j \in 1 .. n /\ j # k /\ q[j] = order[j]
                            ELSE j + 1 \in 1 .. n /\ j + 1 # k /\ q[j] = order[j + 1]
  BY <1>1, <1>2, <1>5
<1>10. Distinct(q)
  <2>1. ASSUME NEW i \in 1 .. n - 1, NEW j \in 1 .. n - 1, q[i] = q[j]
        PROVE  i = j
    <3> DEFINE u == IF i < k THEN i ELSE i + 1
               v == IF j < k THEN j ELSE j + 1
    <3>1. u \in 1 .. n /\ v \in 1 .. n /\ q[i] = order[u] /\ q[j] = order[v]
      BY <1>9
    <3>2. u = v
      BY <1>4, <2>1, <3>1
    <3> QED  BY <1>1, <1>2, <3>2
  <2> QED  BY <1>5, <2>1 DEF Distinct
<1>11. Elements(q) = active'
  <2>1. ASSUME NEW j \in 1 .. n - 1 PROVE q[j] \in active \ {c}
    <3> DEFINE u == IF j < k THEN j ELSE j + 1
    <3>1. u \in 1 .. n /\ u # k /\ q[j] = order[u]
      BY <1>9
    <3>2. order[u] \in active
      BY <1>1, <3>1 DEF ListIsSound, Elements
    <3> QED  BY <1>2, <1>4, <3>1, <3>2
  <2>2. ASSUME NEW x \in active \ {c} PROVE \E j \in 1 .. n - 1 : q[j] = x
    <3>1. PICK m \in 1 .. n : order[m] = x
      BY <1>1 DEF ListIsSound, Elements
    <3>2. m # k
      BY <1>2, <3>1
    <3>3. CASE m < k
      <4>1. m \in 1 .. n - 1 /\ q[m] = x
        BY <1>1, <1>2, <1>5, <3>1, <3>3
      <4> QED  BY <4>1
    <3>4. CASE m > k
      <4>1. m - 1 \in 1 .. n - 1 /\ ~(m - 1 < k) /\ (m - 1) + 1 = m
        BY <1>1, <1>2, <3>1, <3>4
      <4>2. q[m - 1] = x
        BY <1>5, <3>1, <4>1
      <4> QED  BY <4>1, <4>2
    <3> QED  BY <1>1, <1>2, <3>2, <3>3, <3>4
  <2>3. active' = active \ {c}
    BY DEF Unlinked
  <2>4. \A x \in Elements(q) : x \in active'
    BY <1>5, <2>1, <2>3 DEF Elements
  <2>5. \A x \in active' : x \in Elements(q)
    BY <1>5, <2>2, <2>3 DEF Elements
  <2> QED  BY <2>4, <2>5
<1>12. activeCount' = Len(q)
  BY <1>1, <1>5 DEF Unlinked, ListIsSound
<1>13. activeList' = At(q, 1)
  <2>1. activeList = At(order, 1)
    BY DEF ListIsSound
  <2>2. CASE k = 1
    <3>1. activeList' = At(order, 2)
      BY <1>6, <1>8, <2>2
    <3>2. CASE n = 1
      BY <1>5, <1>8, <3>1, <3>2 DEF At
    <3>3. CASE n # 1
      <4>1. 1 \in 1 .. n - 1 /\ 2 \in 1 .. n
        BY <1>1, <1>2, <3>3
      <4>2. q[1] = order[2]
        BY <1>5, <2>2, <4>1
      <4> QED  BY <1>5, <1>7, <3>1, <4>1, <4>2 DEF At
    <3> QED  BY <3>2, <3>3
  <2>3. CASE k # 1
    <3>1. k - 1 \in 1 .. n /\ 1 \in 1 .. n - 1 /\ 1 < k /\ 1 \in 1 .. n
      BY <1>1, <1>2, <2>3
    <3>2. activeList' = order[1]
      BY <1>6, <1>7, <2>1, <3>1
    <3> QED  BY <1>5, <3>1, <3>2 DEF At
  <2> QED  BY <2>2, <2>3
<1>14. ASSUME NEW i \in 1 .. n - 1
       PROVE  anext'[q[i]] = At(q, i + 1) /\ aprev'[q[i]] = At(q, i - 1)
  <2> DEFINE u == IF i < k THEN i ELSE i + 1
  <2>1. u \in 1 .. n /\ u # k /\ q[i] = order[u] /\ order[u] \in Structs /\ order[u] # c
    BY <1>1, <1>2, <1>4, <1>9
  <2>2. order[u] = aprev[c] <=> u = k - 1
    <3>1. CASE k = 1
      BY <1>1, <1>6, <1>8, <2>1, <3>1
    <3>2. CASE k # 1
      <4>1. k - 1 \in 1 .. n /\ aprev[c] = order[k - 1]
        BY <1>1, <1>2, <1>6, <1>7, <3>2
      <4> QED  BY <1>4, <2>1, <4>1
    <3> QED  BY <3>1, <3>2
  <2>3. order[u] = anext[c] <=> u = k + 1
    <3>1. CASE k = n
      <4>1. u # k + 1
        BY <1>1, <2>1, <3>1
      <4>2. anext[c] = Null
        BY <1>6, <1>8, <3>1
      <4> QED  BY <1>1, <2>1, <4>1, <4>2
    <3>2. CASE k # n
      <4>1. k + 1 \in 1 .. n /\ anext[c] = order[k + 1]
        <5>1. n \in Nat /\ k \in 1 .. n /\ k # n
          BY <1>1, <1>2, <3>2
        <5>2. k + 1 \in 1 .. n
          <6> HIDE DEF n
          <6> QED  BY <5>1
        <5>3. anext[c] = At(order, k + 1) /\ At(order, k + 1) = order[k + 1]
          BY <1>6, <1>7, <5>2
        <5> QED  BY <5>2, <5>3
      <4> QED  BY <1>4, <2>1, <4>1
    <3> QED  BY <3>1, <3>2
  <2>4. anext'[q[i]] = IF u = k - 1 THEN At(order, k + 1) ELSE At(order, u + 1)
    BY <1>3, <1>6, <2>1, <2>2
  <2>5. aprev'[q[i]] = IF u = k + 1 THEN At(order, k - 1) ELSE At(order, u - 1)
    BY <1>3, <1>6, <2>1, <2>3
  <2>6. \A j \in 0 .. n : At(q, j) = IF j < k THEN At(order, j) ELSE At(order, j + 1)
    <3>1. ASSUME NEW j \in 0 .. n
          PROVE  At(q, j) = IF j < k THEN At(order, j) ELSE At(order, j + 1)
      <4>1. CASE j = 0
        BY <1>1, <1>2, <1>5, <1>8, <4>1 DEF At
      <4>2. CASE j = n
        <5>1. j \notin 1 .. n - 1 /\ ~(j < k)
          BY <1>1, <1>2, <4>2
        <5> QED  BY <1>5, <1>8, <4>2, <5>1 DEF At
      <4>3. CASE j # 0 /\ j # n
        <5>1. j \in 1 .. n - 1
          <6>1. n \in Nat
            BY <1>1
          <6> HIDE DEF n
          <6> QED  BY <4>3, <6>1
        <5> QED  BY <1>5, <1>7, <1>9, <5>1 DEF At
      <4> QED  BY <4>1, <4>2, <4>3
    <3> QED  BY <3>1
  <2>7. i + 1 \in 0 .. n /\ i - 1 \in 0 .. n /\ i \in Nat /\ k \in Nat
    BY <1>1, <1>2
  <2>8. CASE i < k
    <3>1. u = i /\ i # k + 1
      BY <2>7, <2>8
    <3>2. At(q, i - 1) = At(order, i - 1)
      BY <2>6, <2>7, <2>8
    <3>3. CASE i = k - 1
      <4>1. At(q, i + 1) = At(order, k + 1)
        <5>1. i + 1 = k /\ ~(i + 1 < k) /\ (i + 1) + 1 = k + 1
          BY <2>7, <3>3
        <5> QED  BY <2>6, <2>7, <5>1
      <4> QED  BY <2>4, <2>5, <3>1, <3>2, <3>3, <4>1
    <3>4. CASE i # k - 1
      <4>1. i + 1 < k
        BY <2>7, <2>8, <3>4
      <4>2. At(q, i + 1) = At(order, i + 1)
        BY <2>6, <2>7, <4>1
      <4> QED  BY <2>4, <2>5, <3>1, <3>2, <3>4, <4>2
    <3> QED  BY <3>3, <3>4
  <2>9. CASE ~(i < k)
    <3>1. u = i + 1 /\ u # k - 1
      BY <2>7, <2>9
    <3>2. At(q, i + 1) = At(order, u + 1)
      BY <2>6, <2>7, <2>9, <3>1
    <3>3. CASE u = k + 1
      <4>1. i = k /\ i - 1 < k /\ i - 1 = k - 1
        BY <2>7, <3>1, <3>3
      <4>2. At(q, i - 1) = At(order, k - 1)
        BY <2>6, <2>7, <4>1
      <4> QED  BY <2>4, <2>5, <3>1, <3>2, <3>3, <4>2
    <3>4. CASE u # k + 1
      <4>1. ~(i - 1 < k) /\ (i - 1) + 1 = u - 1
        BY <2>7, <2>9, <3>1, <3>4
      <4>2. At(q, i - 1) = At(order, u - 1)
        BY <2>6, <2>7, <4>1
      <4> QED  BY <2>4, <2>5, <3>1, <3>2, <3>4, <4>2
    <3> QED  BY <3>3, <3>4
  <2> QED  BY <2>8, <2>9
<1>15. ListIsSound'
  BY <1>5, <1>10, <1>11, <1>12, <1>13, <1>14 DEF ListIsSound, q
<1>16. Len(order) > 0
  BY <1>1, <1>2
<1> QED  BY <1>2, <1>5, <1>15, <1>16 DEF q, k
-----------------------------------------------------------------------------
(* The free list *)

(* mng_new() takes a structure that nobody uses.                           *)
LEMMA NewFacts ==
    ASSUME ListsTypeOK, OnePlace, MemoryIsBounded, activeCount < MaxSessions,
           NEW c \in Structs, New(c)
    PROVE  /\ c \notin active
           /\ Rest(c) \in Seq(Structs) /\ Distinct(Rest(c))
           /\ Elements(Rest(c)) \subseteq Elements(pool) \ {c}
           /\ Len(Rest(c)) <= PoolMax
           /\ activeCount + 1 + Len(Rest(c)) <= MaxSessions
<1>1. /\ pool \in Seq(Structs) /\ Len(pool) \in Nat /\ DOMAIN pool = 1 .. Len(pool)
      /\ activeCount \in Nat /\ MaxSessions \in Nat /\ PoolMax \in Nat
  BY SessionsAssumption, LenProperties DEF ListsTypeOK
<1>2. CASE pool = <<>>
  <2>1. Len(pool) = 0 /\ Elements(pool) = {}
    BY <1>1, <1>2, EmptySeq DEF Elements
  <2>2. Rest(c) = pool /\ c \notin active
    BY <1>2, <2>1 DEF Rest, New, Heap
  <2> QED  BY <1>1, <2>1, <2>2 DEF OnePlace
<1>3. CASE pool # <<>>
  <2>1. Len(pool) > 0
    BY <1>1, <1>3, EmptySeq
  <2>2. c = pool[1]
    BY <1>3 DEF New
  <2>3. c \in Elements(pool)
    BY <1>1, <2>1, <2>2 DEF Elements
  <2>4. Rest(c) = Tail(pool)
    BY <2>3 DEF Rest
  <2>5. /\ Tail(pool) \in Seq(Structs) /\ Len(Tail(pool)) = Len(pool) - 1
        /\ DOMAIN Tail(pool) = 1 .. Len(pool) - 1
        /\ \A i \in 1 .. Len(pool) - 1 : Tail(pool)[i] = pool[i + 1]
    BY <1>1, <1>3, HeadTailProperties, LenProperties
  <2>6. \A i, j \in 1 .. Len(pool) : pool[i] = pool[j] => i = j
    BY <1>1 DEF OnePlace, Distinct
  <2>7. Distinct(Tail(pool))
    <3>1. ASSUME NEW i \in 1 .. Len(pool) - 1, NEW j \in 1 .. Len(pool) - 1,
                 Tail(pool)[i] = Tail(pool)[j]
          PROVE  i = j
      <4>1. i + 1 \in 1 .. Len(pool) /\ j + 1 \in 1 .. Len(pool)
        BY <1>1
      <4>2. i + 1 = j + 1
        BY <2>5, <2>6, <3>1, <4>1
      <4> QED  BY <1>1, <4>2
    <3> QED  BY <2>5, <3>1 DEF Distinct
  <2>8. \A x \in Elements(Tail(pool)) : x \in Elements(pool) /\ x # c
    <3>1. ASSUME NEW i \in 1 .. Len(pool) - 1
          PROVE  Tail(pool)[i] \in Elements(pool) /\ Tail(pool)[i] # c
      <4>1. i + 1 \in 1 .. Len(pool) /\ 1 \in 1 .. Len(pool) /\ i + 1 # 1
        BY <1>1, <2>1
      <4> QED  BY <1>1, <2>2, <2>5, <2>6, <4>1 DEF Elements
    <3> QED  BY <2>5, <3>1 DEF Elements
  <2>9. c \notin active
    BY <2>3 DEF OnePlace
  <2>10. Len(Tail(pool)) <= PoolMax /\ activeCount + 1 + Len(Tail(pool)) <= MaxSessions
    BY <1>1, <2>5 DEF OnePlace, MemoryIsBounded
  <2> QED  BY <2>4, <2>5, <2>7, <2>8, <2>9, <2>10
<1> QED  BY <1>2, <1>3

(* mng_destroy() puts a structure in front, or frees it.                   *)
LEMMA ReturnedFacts ==
    ASSUME NEW q \in Seq(Structs), Distinct(q), NEW c \in Structs,
           c \notin Elements(q), Len(q) <= PoolMax
    PROVE  /\ Returned(c, q) \in Seq(Structs) /\ Distinct(Returned(c, q))
           /\ Elements(Returned(c, q)) \subseteq Elements(q) \cup {c}
           /\ Len(Returned(c, q)) <= PoolMax
           /\ Len(Returned(c, q)) <= Len(q) + 1
<1>1. Len(q) \in Nat /\ DOMAIN q = 1 .. Len(q) /\ PoolMax \in Nat
  BY SessionsAssumption, LenProperties
<1>2. CASE Len(q) < PoolMax
  <2> DEFINE r == <<c>> \o q
             n == Len(q)
  <2>1. /\ r \in Seq(Structs) /\ Len(r) = n + 1 /\ r[1] = c /\ DOMAIN r = 1 .. n + 1
        /\ \A j \in 1 .. n : r[j + 1] = q[j]
    BY BehindFacts, LenProperties
  <2> HIDE DEF r
  <2>2. \A i \in 2 .. n + 1 : i - 1 \in 1 .. n /\ r[i] = q[i - 1]
    <3>1. ASSUME NEW i \in 2 .. n + 1
          PROVE  i - 1 \in 1 .. n /\ r[(i - 1) + 1] = q[i - 1] /\ (i - 1) + 1 = i
      BY <1>1, <2>1
    <3> QED  BY <3>1
  <2>3. \A j \in 1 .. n : q[j] # c
    BY <1>1 DEF Elements
  <2>4. ASSUME NEW i \in 1 .. n + 1, NEW j \in 1 .. n + 1, r[i] = r[j] PROVE i = j
    <3>1. CASE i = 1 \/ j = 1
      BY <1>1, <2>1, <2>2, <2>3, <2>4, <3>1
    <3>2. CASE i # 1 /\ j # 1
      <4>1. i - 1 \in 1 .. n /\ j - 1 \in 1 .. n /\ q[i - 1] = q[j - 1]
        BY <1>1, <2>2, <2>4, <3>2
      <4>2. i - 1 = j - 1
        BY <1>1, <4>1 DEF Distinct
      <4> QED  BY <1>1, <4>2
    <3> QED  BY <3>1, <3>2
  <2>5. ASSUME NEW i \in 1 .. n + 1 PROVE r[i] \in Elements(q) \cup {c}
    <3>1. CASE i = 1
      BY <2>1, <3>1
    <3>2. CASE i # 1
      BY <1>1, <2>2, <3>2 DEF Elements
    <3> QED  BY <3>1, <3>2
  <2>6. Returned(c, q) = r
    BY <1>2 DEF Returned, r
  <2>7. Distinct(r) /\ Elements(r) \subseteq Elements(q) \cup {c}
    BY <2>1, <2>4, <2>5 DEF Distinct, Elements
  <2> QED  BY <1>1, <1>2, <2>1, <2>6, <2>7
<1>3. CASE ~(Len(q) < PoolMax)
  BY <1>1, <1>3 DEF Returned
<1> QED  BY <1>2, <1>3

-----------------------------------------------------------------------------
(* Structures and descriptors *)

Data ==
    /\ ListsTypeOK /\ SessionsTypeOK /\ IdleAreBlank
    /\ ListIsSound /\ OnePlace /\ MemoryIsBounded /\ DescriptorsOwned

(* The links of a session lead to sessions.                                *)
LEMMA LinksFacts ==
    ASSUME ListsTypeOK, ListIsSound
    PROVE  /\ activeList \in active \cup {Null}
           /\ \A c \in active : /\ anext[c] \in active \cup {Null}
                                 /\ aprev[c] \in active \cup {Null}
<1>1. \A i : At(order, i) \in active \cup {Null}
  BY DEF At, ListIsSound, Elements
<1>2. activeList \in active \cup {Null}
  BY <1>1 DEF ListIsSound
<1>3. ASSUME NEW c \in active
      PROVE  anext[c] \in active \cup {Null} /\ aprev[c] \in active \cup {Null}
  <2>1. PICK i \in DOMAIN order : order[i] = c
    BY DEF ListIsSound, Elements
  <2>2. anext[c] = At(order, i + 1) /\ aprev[c] = At(order, i - 1)
    BY <2>1 DEF ListIsSound
  <2> QED  BY <1>1, <2>2
<1> QED  BY <1>2, <1>3

LEMMA KillKeeps ==
    ASSUME Data, NEW c \in active, Kill(c)
    PROVE  Data' /\ Len(order) > 0
<1> USE DEF Data
<1>1. /\ c \in Structs /\ active' = active \ {c} /\ Null \notin Structs /\ Null \notin Fds
      /\ active \subseteq Structs
  BY SessionsAssumption DEF Kill, Unlinked, ListsTypeOK
<1>2. /\ ListIsSound' /\ order' \in Seq(Structs) /\ Len(order) > 0
      /\ Len(order') = Len(order) - 1
  BY UnlinkedSound DEF Kill
<1>3. /\ activeList \in active \cup {Null}
      /\ anext[c] \in active \cup {Null} /\ aprev[c] \in active \cup {Null}
  BY LinksFacts
<1>4. /\ pool \in Seq(Structs) /\ Distinct(pool) /\ c \notin Elements(pool)
      /\ Len(pool) <= PoolMax /\ Len(pool) \in Nat
  BY LenProperties DEF OnePlace, ListsTypeOK
<1>5. /\ pool' \in Seq(Structs) /\ Distinct(pool')
      /\ Elements(pool') \subseteq Elements(pool) \cup {c}
      /\ Len(pool') <= PoolMax /\ Len(pool') <= Len(pool) + 1 /\ Len(pool') \in Nat
  BY <1>1, <1>4, ReturnedFacts, LenProperties DEF Kill
<1>6. activeCount = Len(order) /\ activeCount' = Len(order') /\ Len(order) \in Nat
  BY <1>2, LenProperties DEF ListIsSound, ListsTypeOK
<1>7. ListsTypeOK'
  <2>1. anext' \in [Structs -> Structs \cup {Null}] /\ aprev' \in [Structs -> Structs \cup {Null}]
    BY <1>1, <1>3 DEF Kill, Unlinked, NextWithout, PrevWithout, ListsTypeOK
  <2>2. activeList' \in Structs \cup {Null}
    BY <1>1, <1>3 DEF Kill, Unlinked, HeadWithout
  <2>3. activeCount' \in Nat
    BY <1>2, <1>6
  <2> QED  BY <1>1, <1>2, <1>5, <2>1, <2>2, <2>3 DEF ListsTypeOK
<1>8. fd[c] \in Fds /\ registered[fd[c]] = c
  BY DEF DescriptorsOwned
<1>9. SessionsTypeOK'
  BY <1>1, <1>8, SessionsAssumption DEF Kill, SessionsTypeOK, Closed
<1>10. IdleAreBlank'
  <2>1. ASSUME NEW s \in Structs, s \notin active'
        PROVE  /\ anext'[s] = Null /\ aprev'[s] = Null /\ fd'[s] = Null
               /\ left'[s] = 0 /\ ~stale'[s] /\ ~spared'[s]
    <3>1. CASE s = c
      BY <1>1, <3>1 DEF Kill, Unlinked, NextWithout, PrevWithout, SessionsTypeOK
    <3>2. CASE s # c
      <4>1. s \notin active /\ s # Null
        BY <1>1, <2>1, <3>2
      <4>2. anext'[s] = anext[s] /\ aprev'[s] = aprev[s]
        BY <1>1, <1>3, <3>2, <4>1 DEF Kill, Unlinked, NextWithout, PrevWithout
      <4> QED  BY <3>2, <4>1, <4>2 DEF IdleAreBlank, Kill, SessionsTypeOK
    <3> QED  BY <3>1, <3>2
  <2> QED  BY <2>1 DEF IdleAreBlank
<1>11. OnePlace'
  BY <1>1, <1>5 DEF OnePlace
<1>12. MemoryIsBounded'
  BY <1>2, <1>4, <1>5, <1>6, SessionsAssumption DEF MemoryIsBounded
<1>13. DescriptorsOwned'
  <2>1. \A x \in active' : fd'[x] = fd[x] /\ x # c
    BY <1>1 DEF Kill, SessionsTypeOK
  <2>2. \A x \in active' : fd[x] \in Fds /\ registered[fd[x]] = x /\ fd[x] # fd[c]
    BY <1>1, <1>8 DEF DescriptorsOwned
  <2>3. open' = {fd'[x] : x \in active'}
    <3>1. \A f \in open' : \E x \in active' : f = fd'[x]
      BY <1>1, <2>1 DEF DescriptorsOwned, Kill, Closed
    <3>2. \A x \in active' : fd'[x] \in open'
      BY <1>1, <2>1, <2>2 DEF DescriptorsOwned, Kill, Closed
    <3> QED  BY <3>1, <3>2
  <2>4. \A x \in active' : fd'[x] \in Fds /\ registered'[fd'[x]] = x
    BY <2>1, <2>2 DEF Kill, SessionsTypeOK
  <2>5. ASSUME NEW f \in Fds, registered'[f] # Null
        PROVE  registered'[f] \in active' /\ fd'[registered'[f]] = f
    <3>1. f # fd[c] /\ registered'[f] = registered[f]
      BY <1>8, <2>5 DEF Kill, SessionsTypeOK
    <3>2. registered[f] \in active /\ fd[registered[f]] = f
      BY <2>5, <3>1 DEF DescriptorsOwned
    <3>3. registered[f] # c
      BY <3>1, <3>2
    <3> QED  BY <1>1, <2>1, <3>1, <3>2, <3>3
  <2> QED  BY <2>3, <2>4, <2>5 DEF DescriptorsOwned
<1> QED  BY <1>2, <1>7, <1>9, <1>10, <1>11, <1>12, <1>13
LEMMA AcceptKeeps ==
    ASSUME Data, NEW c \in Structs, NEW f \in Fds, Accept(c, f)
    PROVE  Data'
<1> USE DEF Data
<1>1. /\ c \notin active /\ Rest(c) \in Seq(Structs) /\ Distinct(Rest(c))
      /\ Elements(Rest(c)) \subseteq Elements(pool) \ {c}
      /\ Len(Rest(c)) <= PoolMax
      /\ activeCount + 1 + Len(Rest(c)) <= MaxSessions
  BY NewFacts DEF Accept
<1>2. ListIsSound' /\ order' \in Seq(Structs)
  BY <1>1, LinkedSound DEF Accept
<1>3. /\ pool' = Rest(c) /\ active' = active \cup {c} /\ f \notin open
      /\ Null \notin Structs /\ Null \notin Fds /\ active \subseteq Structs
      /\ activeList \in active \cup {Null}
  BY SessionsAssumption, LinksFacts DEF Accept, Linked, ListsTypeOK
<1>4. ListsTypeOK'
  BY <1>1, <1>2, <1>3 DEF ListsTypeOK, Accept, Linked
<1>5. SessionsTypeOK'
  BY DEF Accept, SessionsTypeOK
<1>6. IdleAreBlank'
  <2>1. ASSUME NEW s \in Structs, s \notin active'
        PROVE  /\ anext'[s] = Null /\ aprev'[s] = Null /\ fd'[s] = Null
               /\ left'[s] = 0 /\ ~stale'[s] /\ ~spared'[s]
    <3>1. s # c /\ s \notin active /\ s # activeList
      BY <1>3, <2>1
    <3>2. anext'[s] = anext[s] /\ aprev'[s] = aprev[s] /\ fd'[s] = fd[s]
      BY <3>1 DEF Accept, Linked, ListsTypeOK, SessionsTypeOK
    <3> QED  BY <3>1, <3>2 DEF IdleAreBlank, Accept
  <2> QED  BY <2>1 DEF IdleAreBlank
<1>7. OnePlace'
  BY <1>1, <1>3 DEF OnePlace
<1>8. MemoryIsBounded'
  <2>1. activeCount' = activeCount + 1
    BY DEF Accept, Linked
  <2> QED  BY <1>1, <1>3, <2>1 DEF MemoryIsBounded
<1>9. DescriptorsOwned'
  <2>1. /\ \A x \in active : fd'[x] = fd[x] /\ fd[x] \in Fds /\ fd[x] # f
                            /\ registered[fd[x]] = x
        /\ fd'[c] = f /\ registered'[f] = c
    BY <1>1, <1>3 DEF DescriptorsOwned, Accept, SessionsTypeOK
  <2>2. open' = {fd'[x] : x \in active'}
    <3>1. \A g \in open' : \E x \in active' : g = fd'[x]
      BY <1>3, <2>1 DEF DescriptorsOwned, Accept
    <3>2. \A x \in active' : fd'[x] \in open'
      BY <1>3, <2>1 DEF DescriptorsOwned, Accept
    <3> QED  BY <3>1, <3>2
  <2>3. \A x \in active' : fd'[x] \in Fds /\ registered'[fd'[x]] = x
    BY <1>3, <2>1 DEF Accept, SessionsTypeOK
  <2>4. ASSUME NEW g \in Fds, registered'[g] # Null
        PROVE  registered'[g] \in active' /\ fd'[registered'[g]] = g
    <3>1. CASE g = f
      BY <1>3, <2>1, <3>1
    <3>2. CASE g # f
      <4>1. registered'[g] = registered[g]
        BY <3>2 DEF Accept, SessionsTypeOK
      <4>2. registered[g] \in active /\ fd[registered[g]] = g
        BY <2>4, <4>1 DEF DescriptorsOwned
      <4> QED  BY <1>3, <2>1, <4>1, <4>2
    <3> QED  BY <3>1, <3>2
  <2> QED  BY <2>2, <2>3, <2>4 DEF DescriptorsOwned
<1> QED  BY <1>2, <1>4, <1>5, <1>6, <1>7, <1>8, <1>9

LEMMA AcceptFailsKeeps ==
    ASSUME Data, NEW c \in Structs, AcceptFails(c)
    PROVE  Data'
<1> USE DEF Data
<1>1. /\ c \notin active /\ Rest(c) \in Seq(Structs) /\ Distinct(Rest(c))
      /\ Elements(Rest(c)) \subseteq Elements(pool) \ {c}
      /\ Len(Rest(c)) <= PoolMax /\ Len(Rest(c)) \in Nat
      /\ activeCount + 1 + Len(Rest(c)) <= MaxSessions
  BY NewFacts, LenProperties DEF AcceptFails
<1>2. pool' = Returned(c, Rest(c))
  BY DEF AcceptFails
<1>3. /\ pool' \in Seq(Structs) /\ Distinct(pool')
      /\ Elements(pool') \subseteq Elements(Rest(c)) \cup {c}
      /\ Len(pool') <= PoolMax /\ Len(pool') <= Len(Rest(c)) + 1
      /\ Len(pool') \in Nat
  BY <1>1, <1>2, ReturnedFacts, LenProperties
<1>4. UNCHANGED <<listVars, fdVars, left, stale, spared>>
  BY DEF AcceptFails
<1>5. ListsTypeOK' /\ SessionsTypeOK' /\ IdleAreBlank'
  BY <1>3, <1>4 DEF ListsTypeOK, SessionsTypeOK, IdleAreBlank, listVars, fdVars
<1>6. ListIsSound' /\ DescriptorsOwned'
  BY <1>4 DEF ListIsSound, DescriptorsOwned, Distinct, Elements, At, listVars, fdVars
<1>7. OnePlace'
  <2>1. active' = active
    BY <1>4 DEF listVars
  <2> QED  BY <1>1, <1>3, <2>1 DEF OnePlace
<1>8. MemoryIsBounded'
  <2>1. activeCount' = activeCount /\ activeCount \in Nat /\ MaxSessions \in Nat
    BY <1>4, SessionsAssumption DEF listVars, ListsTypeOK
  <2> QED  BY <1>1, <1>3, <2>1 DEF MemoryIsBounded
<1> QED  BY <1>5, <1>6, <1>7, <1>8

(* A step that moves no structure.                                         *)
LEMMA KeepsKeeps ==
    ASSUME Data, Keeps, SessionsTypeOK', IdleAreBlank'
    PROVE  Data'
<1> USE DEF Data
<1>1. UNCHANGED <<listVars, pool, fdVars>>
  BY DEF Keeps
<1> QED
  BY <1>1 DEF ListsTypeOK, ListIsSound, OnePlace, MemoryIsBounded, DescriptorsOwned,
              Distinct, Elements, At, listVars, fdVars

-----------------------------------------------------------------------------
(* The loops and the inductive invariant *)

Passed(c) == IF pc = "sweep" THEN ~Killed(c) ELSE spared[c] /\ left[c] > 0

(* A walk stands at one place of the list, or behind it, and has dealt     *)
(* with the sessions before.                                               *)
Walked ==
    /\ pc \notin {"sweep", "begin"} => cur = Null
    /\ pc \in {"sweep", "begin"} =>
          \E k \in 1 .. Len(order) + 1 :
              cur = At(order, k) /\ \A i \in 1 .. k - 1 : Passed(order[i])

Inv ==
    /\ Data /\ LoopTypeOK /\ Walked /\ OnlyAnswersRemain /\ ExitIsClean
    /\ pc = "begin" => closing

LEMMA InitInv == Init => Inv
<1> SUFFICES ASSUME Init PROVE Inv
  OBVIOUS
<1>1. order = <<>> /\ pool = <<>> /\ Len(order) = 0 /\ Len(pool) = 0
      /\ order \in Seq(Structs) /\ pool \in Seq(Structs)
      /\ DOMAIN order = {} /\ DOMAIN pool = {}
  BY EmptySeq DEF Init
<1>2. ListsTypeOK /\ SessionsTypeOK /\ IdleAreBlank /\ LoopTypeOK
  <2>1. 0 \in 0 .. MaxAnswer /\ 0 \in 0 .. MaxConns
    BY SessionsAssumption
  <2>2. ListsTypeOK
    BY <1>1 DEF Init, ListsTypeOK
  <2>3. SessionsTypeOK /\ IdleAreBlank
    BY <2>1 DEF Init, SessionsTypeOK, IdleAreBlank
  <2>4. LoopTypeOK
    <3>1. signals \in 0 .. 2 /\ conns \in 0 .. MaxConns
      BY <2>1 DEF Init
    <3> QED  BY <3>1 DEF Init, LoopTypeOK
  <2> QED  BY <2>2, <2>3, <2>4
<1>3. ListIsSound
  BY <1>1 DEF Init, ListIsSound, Distinct, Elements, At
<1>4. OnePlace /\ MemoryIsBounded
  BY <1>1, SessionsAssumption DEF Init, OnePlace, MemoryIsBounded, Distinct, Elements
<1>5. DescriptorsOwned
  BY DEF Init, DescriptorsOwned
<1>6. Walked /\ OnlyAnswersRemain /\ ExitIsClean /\ (pc = "begin" => closing)
  BY DEF Init, Walked, OnlyAnswersRemain, ExitIsClean
<1> QED  BY <1>2, <1>3, <1>4, <1>5, <1>6 DEF Inv, Data

(* One turn of a walk goes on to the next session.                         *)
LEMMA WalkGoesOn ==
    ASSUME Inv, pc \in {"sweep", "begin"}, cur # Null,
           cur' = Following(cur), pc' = pc, idleOn' = idleOn,
           \/ Killed(cur) /\ Kill(cur)
           \/ /\ ~Killed(cur) /\ Keeps /\ UNCHANGED <<left, stale>>
              /\ IF pc = "sweep" THEN UNCHANGED spared
                 ELSE spared' = [spared EXCEPT ![cur] = TRUE]
    PROVE  Walked' /\ Data' /\ cur \in active /\ cur' \in Structs \cup {Null}
<1> USE DEF Inv, Data
<1> DEFINE n == Len(order)
<1>1. /\ order \in Seq(Structs) /\ n \in Nat /\ DOMAIN order = 1 .. n
      /\ \A i \in 1 .. n : order[i] \in active
  BY LenProperties DEF ListsTypeOK, ListIsSound, Elements
<1>2. PICK k \in 1 .. n + 1 : cur = At(order, k) /\ \A i \in 1 .. k - 1 : Passed(order[i])
  BY DEF Walked
<1>3. k \in 1 .. n /\ cur = order[k] /\ cur \in active
  BY <1>1, <1>2 DEF At
<1>4. anext[cur] = At(order, k + 1)
  BY <1>1, <1>3 DEF ListIsSound
<1>5. \A i \in 1 .. n : order[i] = cur => i = k
  BY <1>1, <1>3 DEF ListIsSound, Distinct
<1>6. cur' = At(order, k + 1) /\ cur' \in Structs \cup {Null}
  BY <1>1, <1>4 DEF Following, At, ListsTypeOK
<1>7. CASE Killed(cur) /\ Kill(cur)
  <2>1. Data'
    BY <1>3, <1>7, KillKeeps
  <2>2. /\ order' = Without(order, k) /\ Len(order') = n - 1
        /\ \A j \in 1 .. n - 1 : order'[j] = IF j < k THEN order[j] ELSE order[j + 1]
    <3>1. Position(cur) = k
      BY <1>1, <1>3, <1>5 DEF Position
    <3>2. order' = Without(order, k)
      BY <1>7, <3>1 DEF Kill, Unlinked
    <3> QED  BY <1>1, <1>3, <3>2, WithoutFacts
  <2>3. cur' = At(order', k)
    <3>1. DOMAIN order' = 1 .. n - 1
      BY <2>1, <2>2, LenProperties DEF ListsTypeOK
    <3>2. CASE k = n
      BY <1>1, <1>6, <3>1, <3>2 DEF At
    <3>3. CASE k # n
      <4>1. k \in 1 .. n - 1 /\ k + 1 \in 1 .. n /\ ~(k < k)
        <5>1. n \in Nat /\ k \in 1 .. n
          BY <1>1, <1>3
        <5> HIDE DEF n
        <5> QED  BY <3>3, <5>1
      <4> QED  BY <1>1, <1>6, <2>2, <3>1, <4>1 DEF At
    <3> QED  BY <3>2, <3>3
  <2>4. ASSUME NEW i \in 1 .. k - 1 PROVE Passed(order[i])'
    <3>1. i \in 1 .. n /\ i \in 1 .. n - 1 /\ i < k /\ i # k
      BY <1>1, <1>3
    <3>2. order'[i] = order[i] /\ order[i] # cur /\ Passed(order[i]) /\ order[i] \in Structs
      BY <1>1, <1>2, <1>5, <2>2, <3>1 DEF ListsTypeOK
    <3>3. /\ stale'[order[i]] = stale[order[i]] /\ left'[order[i]] = left[order[i]]
          /\ spared'[order[i]] = spared[order[i]]
      BY <1>7, <3>2 DEF Kill, SessionsTypeOK
    <3> QED  BY <3>2, <3>3 DEF Passed, Killed
  <2>5. k \in 1 .. Len(order') + 1
    BY <1>1, <1>3, <2>2
  <2>6. Walked'
    BY <2>3, <2>4, <2>5 DEF Walked
  <2> QED  BY <1>3, <1>6, <2>1, <2>6
<1>8. CASE /\ ~Killed(cur) /\ Keeps /\ UNCHANGED <<left, stale>>
           /\ IF pc = "sweep" THEN UNCHANGED spared
              ELSE spared' = [spared EXCEPT ![cur] = TRUE]
  <2>1. order' = order /\ active' = active /\ anext' = anext /\ aprev' = aprev /\ fd' = fd
        /\ open' = open /\ registered' = registered
    BY <1>8 DEF Keeps, listVars, fdVars
  <2>2. SessionsTypeOK'
    BY <1>8, <2>1 DEF SessionsTypeOK
  <2>3. IdleAreBlank'
    <3>1. ASSUME NEW s \in Structs, s \notin active
          PROVE  left'[s] = left[s] /\ stale'[s] = stale[s] /\ spared'[s] = spared[s]
      BY <1>3, <1>8, <3>1 DEF SessionsTypeOK
    <3> QED  BY <2>1, <3>1 DEF IdleAreBlank
  <2>4. Data'
    BY <1>8, <2>2, <2>3, KeepsKeeps
  <2>5. ASSUME NEW i \in 1 .. k PROVE Passed(order[i])'
    <3>1. CASE i = k
      <4>1. left[cur] \in Nat /\ cur \in Structs
        BY <1>3, SessionsAssumption DEF SessionsTypeOK, ListsTypeOK
      <4>2. CASE pc = "sweep"
        BY <1>3, <1>8, <2>1, <3>1, <4>2 DEF Passed, Killed
      <4>3. CASE pc = "begin"
        BY <1>3, <1>8, <2>1, <3>1, <4>1, <4>3 DEF Passed, Killed, SessionsTypeOK
      <4> QED  BY <4>2, <4>3
    <3>2. CASE i # k
      <4>1. i \in 1 .. k - 1 /\ i \in 1 .. n
        BY <1>1, <1>3, <3>2
      <4>2. Passed(order[i]) /\ order[i] # cur /\ order[i] \in Structs
        BY <1>1, <1>2, <1>5, <3>2, <4>1 DEF ListsTypeOK
      <4>3. /\ stale'[order[i]] = stale[order[i]] /\ left'[order[i]] = left[order[i]]
            /\ spared'[order[i]] = spared[order[i]]
        BY <1>8, <4>2 DEF SessionsTypeOK
      <4> QED  BY <2>1, <4>2, <4>3 DEF Passed, Killed
    <3> QED  BY <3>1, <3>2
  <2>6. k + 1 \in 1 .. Len(order') + 1 /\ (k + 1) - 1 = k
    BY <1>1, <1>3, <2>1
  <2>7. Walked'
    <3>1. cur' = At(order', k + 1)
      BY <1>6, <2>1
    <3>2. \A i \in 1 .. (k + 1) - 1 : Passed(order[i])'
      BY <2>1, <2>5, <2>6
    <3> QED  BY <2>6, <3>1, <3>2 DEF Walked
  <2> QED  BY <1>3, <1>6, <2>4, <2>7
<1> QED  BY <1>7, <1>8

(* Outside the walks there is nothing to remember of the list.             *)
LEMMA NoWalk ==
    ASSUME pc' \notin {"sweep", "begin"}, cur' = Null
    PROVE  Walked'
BY DEF Walked

(* A session that leaves takes nothing of the others with it.              *)
LEMMA OthersStay ==
    ASSUME Data, NEW c \in active, Kill(c)
    PROVE  /\ active' = active \ {c} /\ SessionsTypeOK'
           /\ \A s \in active' : /\ left'[s] = left[s] /\ stale'[s] = stale[s]
                                 /\ spared'[s] = spared[s]
<1>1. active' = active \ {c}
  BY DEF Kill, Unlinked
<1>2. SessionsTypeOK'
  BY KillKeeps DEF Data
<1>3. \A s \in active' : s \in Structs /\ s # c
  BY <1>1 DEF Data, ListsTypeOK
<1> QED  BY <1>1, <1>2, <1>3 DEF Kill, Data, SessionsTypeOK

(* What holds of a state holds of the next one that changes nothing in it  *)
(* but signals or conns.                                                   *)
LEMMA KeepsAll ==
    ASSUME Inv, Keeps, UNCHANGED <<left, stale, spared, idleOn, closing, pc, cur>>,
           pc # "exit", LoopTypeOK'
    PROVE  Inv'
<1>1. /\ order' = order /\ active' = active
      /\ SessionsTypeOK' /\ IdleAreBlank'
  BY DEF Inv, Data, Keeps, listVars, fdVars, SessionsTypeOK, IdleAreBlank
<1>2. Data'
  BY <1>1, KeepsKeeps DEF Inv
<1>3. Walked'
  <2>1. \A s : Passed(s)' <=> Passed(s)
    BY DEF Passed, Killed
  <2> QED  BY <1>1, <2>1 DEF Inv, Walked, At
<1>4. OnlyAnswersRemain' /\ ExitIsClean' /\ (pc' = "begin" => closing')
  BY <1>1 DEF Inv, OnlyAnswersRemain, ExitIsClean
<1> QED  BY <1>2, <1>3, <1>4 DEF Inv

(* A walk that has come to its end has dealt with every session.           *)
LEMMA WalkOver ==
    ASSUME Inv, pc \in {"sweep", "begin"}, cur = Null
    PROVE  \A s \in active : Passed(s)
<1>1. /\ order \in Seq(Structs) /\ DOMAIN order = 1 .. Len(order) /\ Len(order) \in Nat
      /\ Elements(order) = active
  BY LenProperties DEF Inv, Data, ListsTypeOK, ListIsSound
<1>2. PICK k \in 1 .. Len(order) + 1 :
           cur = At(order, k) /\ \A i \in 1 .. k - 1 : Passed(order[i])
  BY DEF Inv, Walked
<1>3. k \notin 1 .. Len(order)
  <2>1. \A i \in 1 .. Len(order) : order[i] # Null
    BY <1>1, ElementOfSeq, SessionsAssumption
  <2> QED  BY <1>1, <1>2, <2>1 DEF At
<1>4. \A i \in 1 .. Len(order) : Passed(order[i])
  BY <1>1, <1>2, <1>3
<1> QED  BY <1>1, <1>4 DEF Elements

-----------------------------------------------------------------------------
(* Each action keeps the invariant *)

LEMMA DispatchInv ==
    ASSUME Inv, NEW c \in Structs,
           \/ \E f \in Fds : Accept(c, f)
           \/ AcceptFails(c) \/ Receive(c) \/ Leave(c) \/ Age(c)
           \/ \E n \in 1 .. MaxAnswer : Send(c, n)
    PROVE  Inv'
<1> USE DEF Inv
<1>0. LoopTypeOK /\ pc = "select" /\ cur = Null
  BY DEF Accept, AcceptFails, Receive, Leave, Age, Send, Walked
<1>1. pc' = "select" /\ cur' = Null /\ closing' = closing /\ conns' = conns
      /\ signals' = signals
  BY <1>0 DEF Accept, AcceptFails, Receive, Leave, Age, Send, loopVars
<1>2. ASSUME Data', idleOn' \in BOOLEAN, OnlyAnswersRemain' PROVE Inv'
  <2>1. LoopTypeOK'
    BY <1>0, <1>1, <1>2 DEF LoopTypeOK
  <2>2. Walked' /\ ExitIsClean' /\ (pc' = "begin" => closing')
    BY <1>1, NoWalk DEF ExitIsClean
  <2> QED  BY <1>2, <2>1, <2>2
<1>3. ASSUME NEW f \in Fds, Accept(c, f) PROVE Inv'
  <2>1. Data'
    BY <1>3, AcceptKeeps
  <2>2. OnlyAnswersRemain' /\ idleOn' \in BOOLEAN
    BY <1>0, <1>1, <1>3 DEF Accept, OnlyAnswersRemain, LoopTypeOK
  <2> QED  BY <1>2, <2>1, <2>2
<1>4. CASE AcceptFails(c)
  <2>1. Data'
    BY <1>4, AcceptFailsKeeps
  <2>2. OnlyAnswersRemain' /\ idleOn' \in BOOLEAN
    BY <1>0, <1>1, <1>4 DEF AcceptFails, OnlyAnswersRemain, LoopTypeOK
  <2> QED  BY <1>2, <2>1, <2>2
<1>5. CASE Receive(c)
  <2>1. /\ Keeps /\ c \in active /\ active' = active /\ left[c] = 0
        /\ left' \in [Structs -> 0 .. MaxAnswer]
        /\ \A s \in Structs : s # c => left'[s] = left[s]
        /\ stale' = [stale EXCEPT ![c] = FALSE] /\ spared' = spared
        /\ idleOn' \in BOOLEAN
    <3>1. \A n \in 1 .. MaxAnswer : n \in 0 .. MaxAnswer
      BY SessionsAssumption
    <3> QED  BY <1>0, <1>5, <3>1 DEF Receive, Keeps, listVars, Data, SessionsTypeOK, LoopTypeOK
  <2>2. SessionsTypeOK' /\ IdleAreBlank'
    <3>1. fd' = fd /\ open' = open /\ registered' = registered /\ anext' = anext
          /\ aprev' = aprev
      BY <2>1 DEF Keeps, listVars, fdVars
    <3>2. SessionsTypeOK'
      BY <2>1, <3>1 DEF Data, SessionsTypeOK
    <3>3. \A s \in Structs \ active : /\ left'[s] = left[s] /\ stale'[s] = stale[s]
                                      /\ spared'[s] = spared[s]
      BY <2>1 DEF Data, SessionsTypeOK
    <3> QED  BY <2>1, <3>1, <3>2, <3>3 DEF Data, IdleAreBlank
  <2>3. Data'
    BY <2>1, <2>2, KeepsKeeps
  <2>4. ~closing
    <3>1. ~(left[c] > 0)
      BY <2>1
    <3> QED  BY <1>0, <2>1, <3>1 DEF OnlyAnswersRemain
  <2> QED  BY <1>1, <1>2, <2>1, <2>3, <2>4 DEF OnlyAnswersRemain
<1>6. CASE Leave(c)
  <2>1. Data'
    BY <1>6, KillKeeps DEF Leave
  <2>2. OnlyAnswersRemain' /\ idleOn' \in BOOLEAN
    BY <1>0, <1>1, <1>6, OthersStay DEF Leave, OnlyAnswersRemain, LoopTypeOK
  <2> QED  BY <1>2, <2>1, <2>2
<1>7. CASE Age(c)
  <2>1. /\ Keeps /\ c \in active /\ active' = active /\ left' = left /\ spared' = spared
        /\ stale' = [stale EXCEPT ![c] = TRUE] /\ idleOn' = idleOn
        /\ fd' = fd /\ open' = open /\ registered' = registered
        /\ anext' = anext /\ aprev' = aprev
    BY <1>7 DEF Age, Keeps, listVars, fdVars
  <2>2. SessionsTypeOK'
    BY <2>1 DEF Data, SessionsTypeOK
  <2>3. IdleAreBlank'
    <3>1. \A s \in Structs \ active : stale'[s] = stale[s]
      BY <2>1 DEF Data, SessionsTypeOK
    <3> QED  BY <2>1, <3>1 DEF Data, IdleAreBlank
  <2>4. Data'
    BY <2>1, <2>2, <2>3, KeepsKeeps
  <2> QED  BY <1>0, <1>1, <1>2, <2>1, <2>4 DEF OnlyAnswersRemain, LoopTypeOK
<1>8. ASSUME NEW n \in 1 .. MaxAnswer, Send(c, n) PROVE Inv'
  <2>1. /\ Keeps /\ c \in active /\ active' = active /\ n \in 1 .. left[c]
        /\ left' = [left EXCEPT ![c] = left[c] - n] /\ spared' = spared
        /\ n < left[c] \/ ~spared[c]
        /\ stale' = [stale EXCEPT ![c] = FALSE] /\ idleOn' = idleOn
        /\ fd' = fd /\ open' = open /\ registered' = registered
        /\ anext' = anext /\ aprev' = aprev
    BY <1>8 DEF Send, Keeps, listVars, fdVars
  <2>2. left[c] \in 0 .. MaxAnswer /\ left[c] - n \in 0 .. MaxAnswer /\ MaxAnswer \in Nat
        /\ (n < left[c] => left[c] - n > 0)
    BY <2>1, SessionsAssumption DEF Data, SessionsTypeOK
  <2>3. SessionsTypeOK'
    BY <2>1, <2>2 DEF Data, SessionsTypeOK
  <2>4. IdleAreBlank'
    <3>1. \A s \in Structs \ active : stale'[s] = stale[s] /\ left'[s] = left[s]
      BY <2>1 DEF Data, SessionsTypeOK
    <3> QED  BY <2>1, <3>1 DEF Data, IdleAreBlank
  <2>5. Data'
    BY <2>1, <2>3, <2>4, KeepsKeeps
  <2>6. OnlyAnswersRemain'
    <3>1. ASSUME closing, NEW s \in active PROVE spared'[s] /\ left'[s] > 0
      <4>1. spared[s] /\ left[s] > 0 /\ spared[c] /\ s \in Structs
        BY <1>0, <2>1, <3>1 DEF OnlyAnswersRemain, Data, ListsTypeOK
      <4> QED  BY <2>1, <2>2, <4>1 DEF Data, SessionsTypeOK
    <3> QED  BY <1>1, <2>1, <3>1 DEF OnlyAnswersRemain
  <2> QED  BY <1>0, <1>2, <2>1, <2>5, <2>6 DEF LoopTypeOK
<1> QED  BY <1>3, <1>4, <1>5, <1>6, <1>7, <1>8

LEMMA WalksInv ==
    ASSUME Inv, Due \/ Sweep \/ Swept \/ Begin \/ Begun
    PROVE  Inv'
<1> USE DEF Inv, Goes
<1>0. LoopTypeOK
  OBVIOUS
<1>1. CASE Due
  <2>1. Keeps /\ UNCHANGED <<left, stale, spared, conns, idleOn, closing, signals>>
        /\ pc = "select" /\ pc' = "sweep" /\ cur' = activeList
    BY <1>1 DEF Due
  <2>2. order' = order /\ active' = active /\ SessionsTypeOK' /\ IdleAreBlank'
    BY <2>1 DEF Data, Keeps, listVars, fdVars, SessionsTypeOK, IdleAreBlank
  <2>3. Data'
    BY <2>1, <2>2, KeepsKeeps
  <2>4. Walked'
    <3>1. Len(order') \in Nat /\ 1 \in 1 .. Len(order') + 1
      BY <2>3, LenProperties DEF Data, ListsTypeOK
    <3>2. cur' = At(order', 1)
      BY <2>1, <2>2 DEF Data, ListIsSound
    <3>3. \A i \in 1 .. 1 - 1 : Passed(order[i])'
      OBVIOUS
    <3> QED  BY <2>1, <3>1, <3>2, <3>3 DEF Walked
  <2>5. LoopTypeOK'
    BY <1>0, <2>1 DEF LoopTypeOK, Data, ListsTypeOK
  <2> QED
    BY <2>1, <2>2, <2>3, <2>4, <2>5 DEF OnlyAnswersRemain, ExitIsClean
<1>2. CASE Sweep \/ Begin
  <2>1. /\ pc \in {"sweep", "begin"} /\ cur # Null /\ cur' = Following(cur)
        /\ pc' = pc /\ UNCHANGED <<idleOn, signals, conns, closing>>
        /\ \/ Killed(cur) /\ Kill(cur)
           \/ /\ ~Killed(cur) /\ Keeps /\ UNCHANGED <<left, stale>>
              /\ IF pc = "sweep" THEN UNCHANGED spared
                 ELSE spared' = [spared EXCEPT ![cur] = TRUE]
    BY <1>2 DEF Sweep, Begin
  <2>2. Walked' /\ Data' /\ cur \in active /\ cur' \in Structs \cup {Null}
    BY <2>1, WalkGoesOn
  <2>3. LoopTypeOK'
    BY <1>0, <2>1, <2>2 DEF LoopTypeOK
  <2>4. OnlyAnswersRemain'
    <3>1. CASE pc = "begin"
      BY <2>1, <3>1 DEF OnlyAnswersRemain
    <3>2. CASE pc = "sweep" /\ Kill(cur)
      BY <2>1, <2>2, <3>2, OthersStay DEF OnlyAnswersRemain
    <3>3. CASE pc = "sweep" /\ Keeps /\ UNCHANGED <<left, spared>>
      BY <2>1, <3>3 DEF OnlyAnswersRemain, Keeps, listVars
    <3> QED  BY <2>1, <3>1, <3>2, <3>3
  <2> QED  BY <2>1, <2>2, <2>3, <2>4 DEF ExitIsClean
<1>3. CASE Swept \/ Begun
  <2>1. Keeps /\ UNCHANGED <<left, stale, spared, conns, idleOn, closing, signals>>
        /\ cur = Null /\ pc \in {"sweep", "begin"} /\ pc' \in {"signals", "check"}
        /\ cur' = Null
    BY <1>3 DEF Swept, Begun
  <2>2. order' = order /\ active' = active /\ SessionsTypeOK' /\ IdleAreBlank'
    BY <2>1 DEF Data, Keeps, listVars, fdVars, SessionsTypeOK, IdleAreBlank
  <2>3. Data' /\ Walked'
    BY <2>1, <2>2, KeepsKeeps, NoWalk
  <2>4. LoopTypeOK'
    BY <1>0, <2>1 DEF LoopTypeOK
  <2>5. OnlyAnswersRemain'
    <3>1. CASE pc = "sweep"
      BY <2>1, <2>2, <3>1 DEF OnlyAnswersRemain
    <3>2. CASE pc = "begin"
      <4>1. \A s \in active : Passed(s)
        BY <2>1, WalkOver
      <4> QED  BY <2>1, <2>2, <3>2, <4>1 DEF OnlyAnswersRemain, Passed
    <3> QED  BY <2>1, <3>1, <3>2
  <2> QED  BY <2>1, <2>3, <2>4, <2>5 DEF ExitIsClean
<1> QED  BY <1>1, <1>2, <1>3

LEMMA LoopInv ==
    ASSUME Inv, NotDue \/ SelectFails \/ Signals \/ Check \/ Waited \/ ForceClose \/ Destroy
    PROVE  Inv'
<1> USE DEF Inv, Goes
<1>0. LoopTypeOK
  OBVIOUS
<1>1. CASE NotDue \/ SelectFails \/ Signals \/ Check \/ Waited
  <2>1. Keeps /\ UNCHANGED <<left, stale, spared, conns, idleOn, signals>>
        /\ \/ closing' = closing /\ pc' \in {"signals", "finally", "check", "select", "force"}
              /\ cur' = Null
           \/ closing' = TRUE /\ pc' = "begin" /\ cur' = activeList
        /\ pc \notin {"begin", "exit"}
    BY <1>1 DEF NotDue, SelectFails, Signals, Check, Waited
  <2>2. order' = order /\ active' = active /\ SessionsTypeOK' /\ IdleAreBlank'
    BY <2>1 DEF Data, Keeps, listVars, fdVars, SessionsTypeOK, IdleAreBlank
  <2>3. Data'
    BY <2>1, <2>2, KeepsKeeps
  <2>4. Walked'
    <3>1. CASE pc' # "begin"
      BY <2>1, <3>1, NoWalk
    <3>2. CASE pc' = "begin"
      <4>1. Len(order') \in Nat /\ 1 \in 1 .. Len(order') + 1
        BY <2>3, LenProperties DEF Data, ListsTypeOK
      <4>2. cur' = At(order', 1)
        BY <2>1, <2>2, <3>2 DEF Data, ListIsSound
      <4>3. \A i \in 1 .. 1 - 1 : Passed(order[i])'
        OBVIOUS
      <4> QED  BY <3>2, <4>1, <4>2, <4>3 DEF Walked
    <3> QED  BY <3>1, <3>2
  <2>5. LoopTypeOK'
    BY <1>0, <2>1 DEF LoopTypeOK, Data, ListsTypeOK
  <2>6. OnlyAnswersRemain' /\ ExitIsClean' /\ (pc' = "begin" => closing')
    BY <2>1, <2>2 DEF OnlyAnswersRemain, ExitIsClean
  <2> QED  BY <2>3, <2>4, <2>5, <2>6
<1>2. CASE ForceClose
  <2>1. Kill(activeList) /\ activeList \in active /\ pc = "force" /\ pc' = "force" /\ cur' = Null
        /\ UNCHANGED <<conns, idleOn, closing, signals>>
    <3>1. activeList \in active \cup {Null}
      BY LinksFacts DEF Data
    <3> HIDE DEF Inv
    <3>2. Kill(activeList) /\ activeList # Null
      BY <1>2 DEF ForceClose
    <3>3. /\ pc = "force" /\ pc' = "force" /\ cur' = Null
          /\ UNCHANGED <<conns, idleOn, closing, signals>>
      BY <1>2 DEF ForceClose
    <3> QED  BY <3>1, <3>2, <3>3
  <2>2. Data' /\ Walked'
    BY <2>1, KillKeeps, NoWalk
  <2>3. LoopTypeOK'
    BY <1>0, <2>1 DEF LoopTypeOK
  <2>4. OnlyAnswersRemain'
    BY <2>1, OthersStay DEF OnlyAnswersRemain
  <2> QED  BY <2>1, <2>2, <2>3, <2>4 DEF ExitIsClean
<1>3. CASE Destroy
  <2>1. /\ activeList = Null /\ pc = "force" /\ pc' = "exit" /\ cur' = Null
        /\ conns' = 0 /\ pool' = <<>>
        /\ UNCHANGED <<listVars, fdVars, left, stale, spared, idleOn, closing, signals>>
    BY <1>3 DEF Destroy
  <2>2. active = {} /\ open = {}
    <3>1. ASSUME NEW s \in active PROVE FALSE
      <4>1. order \in Seq(Structs) /\ s \in Elements(order)
        BY <3>1 DEF Data, ListsTypeOK, ListIsSound
      <4>2. 1 \in DOMAIN order
        BY <4>1, LenProperties DEF Elements
      <4>3. order[1] \in Structs /\ order[1] = Null
        BY <2>1, <4>1, <4>2, ElementOfSeq DEF Data, ListIsSound, At
      <4> QED  BY <4>3, SessionsAssumption
    <3> QED  BY <3>1 DEF Data, DescriptorsOwned
  <2>3. active' = {} /\ open' = {} /\ order' = order /\ activeCount' = activeCount
        /\ activeCount \in Nat /\ activeCount <= MaxSessions
    <3>1. activeCount \in Nat /\ Len(pool) \in Nat /\ MaxSessions \in Nat
      BY LenProperties, SessionsAssumption DEF Data, ListsTypeOK
    <3> QED  BY <2>1, <2>2, <3>1 DEF listVars, fdVars, Data, MemoryIsBounded
  <2>4. pool' \in Seq(Structs) /\ Len(pool') = 0 /\ DOMAIN pool' = {}
    BY <2>1, EmptySeq
  <2>5. ListsTypeOK' /\ SessionsTypeOK' /\ IdleAreBlank'
    BY <2>1, <2>4 DEF Data, ListsTypeOK, SessionsTypeOK, IdleAreBlank, listVars, fdVars
  <2>6. ListIsSound' /\ DescriptorsOwned'
    BY <2>1 DEF Data, ListIsSound, DescriptorsOwned, Distinct, Elements, At, listVars, fdVars
  <2>7. OnePlace' /\ MemoryIsBounded'
    <3>1. PoolMax \in Nat /\ MaxSessions \in Nat
      BY SessionsAssumption
    <3> QED  BY <2>3, <2>4, <3>1 DEF OnePlace, MemoryIsBounded, Distinct, Elements
  <2>8. LoopTypeOK'
    BY <1>0, <2>1, SessionsAssumption DEF LoopTypeOK
  <2>9. Walked' /\ OnlyAnswersRemain' /\ ExitIsClean'
    BY <2>1, <2>3, NoWalk DEF OnlyAnswersRemain, ExitIsClean
  <2> QED  BY <2>1, <2>5, <2>6, <2>7, <2>8, <2>9 DEF Data
<1> QED  BY <1>1, <1>2, <1>3

LEMMA StepInv == Inv /\ [Next]_vars => Inv'
<1> SUFFICES ASSUME Inv, [Next]_vars PROVE Inv'
  OBVIOUS
<1>0. LoopTypeOK
  BY DEF Inv
<1>1. CASE Signal
  <2>1. LoopTypeOK'
    <3>1. signals' \in 0 .. 2
      BY <1>0, <1>1 DEF Signal, LoopTypeOK
    <3> QED  BY <1>0, <1>1, <3>1 DEF Signal, LoopTypeOK
  <2> QED  BY <1>1, <2>1, KeepsAll DEF Signal
<1>2. CASE ConnOpens \/ ConnCloses
  <2>1. conns' \in 0 .. MaxConns
    BY <1>0, <1>2, SessionsAssumption DEF ConnOpens, ConnCloses, LoopTypeOK
  <2>2. LoopTypeOK'
    BY <1>0, <1>2, <2>1 DEF ConnOpens, ConnCloses, LoopTypeOK, loopVars
  <2> QED  BY <1>2, <2>2, KeepsAll DEF ConnOpens, ConnCloses, loopVars
<1>3. CASE Exited \/ UNCHANGED vars
  <2>1. UNCHANGED vars
    BY <1>3 DEF Exited
  <2>2. Data'
    <3>1. Keeps /\ SessionsTypeOK' /\ IdleAreBlank'
      BY <2>1 DEF Inv, Data, Keeps, vars, listVars, fdVars, SessionsTypeOK, IdleAreBlank
    <3> QED  BY <3>1, KeepsKeeps DEF Inv
  <2>3. Walked'
    BY <2>1 DEF Inv, Walked, At, Passed, Killed, vars, listVars, loopVars
  <2> QED
    BY <2>1, <2>2, <2>3 DEF Inv, LoopTypeOK, OnlyAnswersRemain, ExitIsClean, vars,
                            listVars, fdVars, loopVars
<1> QED
  BY <1>1, <1>2, <1>3, DispatchInv, WalksInv, LoopInv DEF Next, Loop

-----------------------------------------------------------------------------
(* The theorems *)

LEMMA SpecInv == Spec => []Inv
<1>1. Init => Inv
  BY InitInv
<1>2. Inv /\ [Next]_vars => Inv'
  BY StepInv
<1> QED  BY <1>1, <1>2, PTL DEF Spec

(* The types of the lists, the sessions and the loop, and nothing left in  *)
(* a structure that is no session's.                                       *)
THEOREM TypesAreCorrect == Spec => []TypeOK
<1>1. Inv => TypeOK
  BY DEF Inv, Data, TypeOK
<1> QED  BY <1>1, SpecInv, PTL

(* active_add() and active_remove() keep one doubly linked list, whatever  *)
(* comes and goes.                                                         *)
THEOREM ListStaysSound == Spec => []ListIsSound
<1>1. Inv => ListIsSound
  BY DEF Inv, Data
<1> QED  BY <1>1, SpecInv, PTL

(* mng_new() and mng_destroy() never have a structure in two places.       *)
THEOREM StructuresInOnePlace == Spec => []OnePlace
<1>1. Inv => OnePlace
  BY DEF Inv, Data
<1> QED  BY <1>1, SpecInv, PTL

(* MNG_MAX_CONNECTIONS bounds the structures, in use and free together.    *)
THEOREM MemoryStaysBounded == Spec => []MemoryIsBounded
<1>1. Inv => MemoryIsBounded
  BY DEF Inv, Data
<1> QED  BY <1>1, SpecInv, PTL

(* No descriptor is left open, or closed for another session.              *)
THEOREM DescriptorsStayOwned == Spec => []DescriptorsOwned
<1>1. Inv => DescriptorsOwned
  BY DEF Inv, Data
<1> QED  BY <1>1, SpecInv, PTL

(* The walks of mng_sweep_timeouts() and mng_begin_shutdown() never stand  *)
(* on a session that was released.                                         *)
THEOREM WalksAreSafe == Spec => []WalkIsSafe
<1>1. ASSUME Inv PROVE WalkIsSafe
  <2>1. ListIsSound /\ Walked
    BY <1>1 DEF Inv, Data
  <2>2. \A i : At(order, i) \in active \cup {Null}
    BY <2>1 DEF ListIsSound, At, Elements
  <2>3. \/ cur = Null
        \/ \E k \in 1 .. Len(order) + 1 : cur = At(order, k)
    BY <2>1 DEF Walked
  <2> QED  BY <2>2, <2>3 DEF WalkIsSafe
<1> QED  BY <1>1, SpecInv, PTL

(* After mng_begin_shutdown() only sessions with an answer to finish are   *)
(* left.                                                                   *)
THEOREM ShutdownSparesAnswers == Spec => []OnlyAnswersRemain
<1>1. Inv => OnlyAnswersRemain
  BY DEF Inv
<1> QED  BY <1>1, SpecInv, PTL

(* main() gives back every session, structure and descriptor.              *)
THEOREM ExitGivesAllBack == Spec => []ExitIsClean
<1>1. Inv => ExitIsClean
  BY DEF Inv
<1> QED  BY <1>1, SpecInv, PTL

(* Lists, structures, counts, descriptors and walks fit together.          *)
THEOREM StructuresStaySound == Spec => []StructuresAreSound
  BY TypesAreCorrect, ListStaysSound, StructuresInOnePlace, MemoryStaysBounded,
     DescriptorsStayOwned, WalksAreSafe, PTL DEF StructuresAreSound

(* From the first signal to the end of main().                             *)
THEOREM ShutdownStaysClean == Spec => []ShutdownIsClean
  BY ShutdownSparesAnswers, ExitGivesAllBack, PTL DEF ShutdownIsClean

(* The two steps the action properties are about.                          *)
LEMMA OnlyTheLoopMoves ==
    ASSUME [Next]_vars, pc \in {"sweep", "check"}, pc' \notin {"sweep", "check"}
    PROVE  \/ pc = "sweep" /\ Swept
           \/ pc = "check" /\ Check
<1>1. CASE UNCHANGED vars \/ Exited \/ Signal \/ ConnOpens \/ ConnCloses
  BY <1>1 DEF vars, loopVars, Exited, Signal, ConnOpens, ConnCloses
<1>2. CASE Due \/ SelectFails \/ NotDue
  BY <1>2 DEF Due, SelectFails, NotDue
<1>3. CASE Signals \/ Begin \/ Begun
  BY <1>3 DEF Signals, Begin, Begun
<1>4. CASE Waited \/ ForceClose \/ Destroy
  BY <1>4 DEF Waited, ForceClose, Destroy
<1>5. CASE Sweep
  BY <1>5 DEF Sweep, Goes
<1>6. CASE Swept \/ Check
  BY <1>6 DEF Swept, Check
<1>7. ASSUME NEW c \in Structs, NEW f \in Fds, Accept(c, f) PROVE FALSE
  BY <1>7 DEF Accept
<1>8. ASSUME NEW c \in Structs, AcceptFails(c) \/ Receive(c) \/ Leave(c) \/ Age(c) PROVE FALSE
  BY <1>8 DEF AcceptFails, Receive, Leave, Age
<1>9. ASSUME NEW c \in Structs, NEW n \in 1 .. MaxAnswer, Send(c, n) PROVE FALSE
  BY <1>9 DEF Send
<1> QED
  BY <1>1, <1>2, <1>3, <1>4, <1>5, <1>6, <1>7, <1>8, <1>9 DEF Next, Loop

(* mng_sweep_timeouts() closes every session that was idle too long.       *)
THEOREM SweepTakesAll == Spec => SweepIsComplete
<1>1. ASSUME Inv, [Next]_vars
      PROVE  [pc = "sweep" /\ pc' = "signals" /\ idleOn => \A c \in active : ~stale[c]]_vars
  <2>1. SUFFICES ASSUME pc = "sweep", pc' = "signals", idleOn, NEW c \in active
                 PROVE  ~stale[c]
    OBVIOUS
  <2>2. cur = Null
    BY <1>1, <2>1, OnlyTheLoopMoves DEF Swept
  <2>3. Passed(c)
    BY <1>1, <2>1, <2>2, WalkOver
  <2> QED  BY <2>1, <2>3 DEF Passed, Killed
<1> QED  BY <1>1, SpecInv, PTL DEF Spec, SweepIsComplete

(* The first signal does not cut a session or a connection (server.c:214). *)
THEOREM FirstSignalIsGraceful == Spec => GracefulExit
<1>1. ASSUME Inv, [Next]_vars
      PROVE  [pc = "check" /\ pc' = "finally" => active = {} /\ conns = 0]_vars
  <2>1. SUFFICES ASSUME pc = "check", pc' = "finally"
                 PROVE  active = {} /\ conns = 0
    OBVIOUS
  <2>2. NothingActive
    BY <1>1, <2>1, OnlyTheLoopMoves DEF Check, Goes
  <2>3. order \in Seq(Structs) /\ Len(order) = 0 /\ Elements(order) = active
    BY <1>1, <2>2 DEF NothingActive, Inv, Data, ListsTypeOK, ListIsSound
  <2>4. DOMAIN order = {}
    BY <2>3, LenProperties
  <2> QED  BY <2>2, <2>3, <2>4 DEF NothingActive, Elements
<1> QED  BY <1>1, SpecInv, PTL DEF Spec, GracefulExit
=============================================================================
