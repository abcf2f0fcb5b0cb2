--------------------------- MODULE Monitor_proofs ---------------------------
(***************************************************************************)
(* What the sessions of the monitoring protocol keep, whatever their peers *)
(* say and however recv() and send() split it: proofs about Monitor and    *)
(* MngClient for every value of the constants.                             *)
(*                                                                         *)
(* The parsers are followed byte by byte: AuthTaken and CmdTaken are the   *)
(* bytes auth_feed() and cmd_feed() have used, told from what they have    *)
(* kept (AuthStep, CmdStep); a handler that runs over what recv() took     *)
(* adds them up (Parsed), the answer fits its buffer (AnswerFits), and the *)
(* invariant says of every peer where its session is (IInv).               *)
(*                                                                         *)
(* What a client prints is told from both ends: what it reads is what was  *)
(* written (ValueOfBigEndian, ListIsRead), whichever message was parsed is *)
(* the one it sent (HandshakeAgrees, CommandAgrees), and a second          *)
(* invariant says of every client what its session has done for it so far  *)
(* (Clients).                                                              *)
(*                                                                         *)
(* That the commands are atomic follows from both: the table is a set of   *)
(* accounts (AccountAdded, AccountDeleted, AccountsCounted), and a step    *)
(* is seen through the refinement mapping where a command is executed for  *)
(* a client that waits (CommandStep), where it prints (Tells) and where it *)
(* gives up (GivesUp), and nowhere else (Unseen).                          *)
(***************************************************************************)
EXTENDS MngClient, SequenceTheorems, FiniteSetTheorems, WellFoundedInduction, TLAPS

(* A set of numbers that is not empty has a least one.                     *)
LEMMA LeastNumber ==
    ASSUME NEW S \in SUBSET Nat, S # {}
    PROVE  \E x \in S : \A y \in S : x <= y
<1>1. PICK x \in S : \A y \in S : ~ (<<y, x>> \in OpToRel(<, Nat))
  BY WFMin, NatLessThanWellFounded
<1>2. \A y \in S : ~(y < x)
  BY <1>1 DEF OpToRel
<1> QED  BY <1>2

(* What has 0, and with a number the next one, has every number: by the    *)
(* least number it has not.                                                *)
LEMMA CountingUp ==
    ASSUME NEW S \in SUBSET Nat, 0 \in S, \A k \in S : k + 1 \in S
    PROVE  S = Nat
<1>1. SUFFICES ASSUME S # Nat PROVE FALSE
  OBVIOUS
<1>2. PICK x \in Nat \ S : \A y \in Nat \ S : x <= y
  <2>1. (Nat \ S) \in SUBSET Nat /\ Nat \ S # {}
    BY <1>1
  <2> QED  BY <2>1, LeastNumber
<1>3. x - 1 \in Nat /\ x - 1 + 1 = x /\ ~(x <= x - 1)
  BY <1>2
<1> QED  BY <1>2, <1>3

(* Recursion over a counter: G says what follows x at k.                   *)
IsRecursion(f, X, base, G, m) ==
    f \in [0 .. m -> X] /\ f[0] = base /\ \A k \in 1 .. m : f[k] = G[<<k, f[k - 1]>>]

(* There is a function that follows G from base.                           *)
LEMMA RecursionExists ==
    ASSUME NEW X, NEW base \in X, NEW m \in Nat, NEW G \in [(1 .. m) \X X -> X]
    PROVE  \E f : IsRecursion(f, X, base, G, m)
<1> DEFINE S == {k \in Nat : k <= m => \E f : IsRecursion(f, X, base, G, k)}
<1>1. 0 \in S
  <2> DEFINE f == [k \in 0 .. 0 |-> base]
  <2>1. f \in [0 .. 0 -> X] /\ f[0] = base /\ 1 .. 0 = {}
    OBVIOUS
  <2> HIDE DEF f
  <2> QED  BY <2>1 DEF IsRecursion
<1>2. ASSUME NEW k \in S PROVE k + 1 \in S
  <2>1. SUFFICES ASSUME k + 1 <= m PROVE \E f : IsRecursion(f, X, base, G, k + 1)
    OBVIOUS
  <2>2. k \in Nat /\ k + 1 \in Nat /\ k <= m /\ k + 1 \in 1 .. m
    BY <2>1
  <2>3. PICK f : IsRecursion(f, X, base, G, k)
    BY <2>2
  <2>4. f[k] \in X /\ G[<<k + 1, f[k]>>] \in X
    BY <2>2, <2>3 DEF IsRecursion
  <2> DEFINE g == [j \in 0 .. k + 1 |-> IF j = k + 1 THEN G[<<k + 1, f[k]>>] ELSE f[j]]
  <2>5. g \in [0 .. k + 1 -> X]
    BY <2>2, <2>3, <2>4 DEF IsRecursion
  <2>6. g[0] = base
    BY <2>2, <2>3 DEF IsRecursion
  <2>7. ASSUME NEW j \in 1 .. k + 1 PROVE g[j] = G[<<j, g[j - 1]>>]
    <3>1. CASE j = k + 1
      <4>1. j - 1 = k /\ k \in 0 .. k + 1 /\ k # k + 1 /\ j \in 0 .. k + 1
        BY <2>2, <3>1
      <4> QED  BY <3>1, <4>1
    <3>2. CASE j # k + 1
      <4>1. j \in 1 .. k /\ j \in 0 .. k + 1 /\ j - 1 \in 0 .. k + 1 /\ j - 1 # k + 1
        BY <2>2, <3>2
      <4> QED  BY <2>3, <3>2, <4>1 DEF IsRecursion
    <3> QED  BY <3>1, <3>2
  <2> HIDE DEF g
  <2>8. IsRecursion(g, X, base, G, k + 1)
    BY <2>5, <2>6, <2>7 DEF IsRecursion
  <2> QED  BY <2>8
<1> HIDE DEF S
<1>3. S = Nat
  <2>1. S \in SUBSET Nat
    BY DEF S
  <2> QED  BY <1>1, <1>2, <2>1, CountingUp
<1> QED  BY <1>3 DEF S

(* f is a function of the numbers up to m.                                 *)
Counts(f, m) == f = [k \in 0 .. m |-> f[k]]

(* Nothing else follows G.                                                 *)
LEMMA RecursionIsUnique ==
    ASSUME NEW X, NEW base, NEW m \in Nat, NEW G, NEW f, IsRecursion(f, X, base, G, m),
           NEW h, Counts(h, m), h[0] = base,
           \A k \in 1 .. m : h[k - 1] \in X => h[k] = G[<<k, h[k - 1]>>]
    PROVE  h = f
<1> DEFINE S == {k \in Nat : k <= m => h[k] = f[k]}
<1>1. 0 \in S
  BY DEF IsRecursion
<1>2. ASSUME NEW k \in S PROVE k + 1 \in S
  <2>1. SUFFICES ASSUME k + 1 <= m PROVE h[k + 1] = f[k + 1]
    OBVIOUS
  <2>2. k \in Nat /\ k + 1 \in 1 .. m /\ k + 1 - 1 = k /\ k \in 0 .. m /\ k <= m
    BY <2>1
  <2>3. h[k] = f[k] /\ f[k] \in X
    BY <2>2 DEF IsRecursion
  <2>4. h[k + 1] = G[<<k + 1, h[k]>>]
    BY <2>2, <2>3
  <2>5. f[k + 1] = G[<<k + 1, f[k]>>]
    BY <2>2 DEF IsRecursion
  <2> QED  BY <2>3, <2>4, <2>5
<1>3. S = Nat
  <2>1. S \in SUBSET Nat
    OBVIOUS
  <2> HIDE DEF S
  <2> QED  BY <1>1, <1>2, <2>1, CountingUp
<1>4. \A k \in 0 .. m : h[k] = f[k]
  BY <1>3
<1> QED  BY <1>4 DEF IsRecursion, Counts

-----------------------------------------------------------------------------
(* Numbers in bytes *)

Text == Seq(Byte)

(* A byte is a number up to 255.                                           *)
LEMMA Bytes ==
    /\ \A x \in Byte : x \in Nat /\ x <= 255
    /\ \A x \in Nat : x <= 255 => x \in Byte
BY DEF Byte

(* What write_u16() and the others shift: sh[k] is v without its last k    *)
(* bytes.                                                                  *)
IsShifted(sh, v, n) ==
    /\ sh \in [0 .. n -> Nat] /\ sh[0] = v /\ \A k \in 1 .. n : sh[k] = sh[k - 1] \div 256
    /\ sh = Shifted(v, n)
    /\ BigEndian(v, n) = [i \in 1 .. n |-> sh[n - i] % 256]

(* The recursive function of Shifted is what its definition says.          *)
LEMMA Shifts ==
    ASSUME NEW v \in Nat, NEW n \in Nat
    PROVE  \E sh : IsShifted(sh, v, n)
<1> DEFINE G == [a \in (1 .. n) \X Nat |-> a[2] \div 256]
           Is(f) == f = [k \in 0 .. n |-> IF k = 0 THEN v ELSE f[k - 1] \div 256]
           F == CHOOSE f : Is(f)
<1>1. G \in [(1 .. n) \X Nat -> Nat]
  OBVIOUS
<1>2. PICK f : IsRecursion(f, Nat, v, G, n)
  <2> HIDE DEF G
  <2> QED  BY <1>1, RecursionExists
<1>3. \A k \in 1 .. n : k - 1 \in 0 .. n
  OBVIOUS
<1>4. \A k \in 1 .. n : f[k] = f[k - 1] \div 256
  BY <1>2, <1>3 DEF IsRecursion
<1>5. f \in [0 .. n -> Nat] /\ f[0] = v
  BY <1>2 DEF IsRecursion
<1>6. Is(f)
  <2>1. \A k \in 0 .. n : k # 0 => k \in 1 .. n
    OBVIOUS
  <2> QED  BY <1>4, <1>5, <2>1
<1>7. Is(F)
  <2> HIDE DEF Is
  <2> QED  BY <1>6
<1>8. Shifted(v, n) = F
  BY DEF Shifted
<1> HIDE DEF F
<1>9. F = f
  <2>1. Counts(F, n) /\ F[0] = v /\ \A k \in 1 .. n : F[k] = F[k - 1] \div 256
    <3>1. \A k \in 1 .. n : k \in 0 .. n /\ k # 0
      OBVIOUS
    <3> QED  BY <1>7, <3>1 DEF Counts
  <2>2. ASSUME NEW k \in 1 .. n, F[k - 1] \in Nat PROVE F[k] = G[<<k, F[k - 1]>>]
    BY <2>1, <2>2
  <2> HIDE DEF G, Is
  <2> QED  BY <1>2, <2>1, <2>2, RecursionIsUnique
<1>10. f = Shifted(v, n) /\ BigEndian(v, n) = [i \in 1 .. n |-> f[n - i] % 256]
  BY ONLY <1>8, <1>9 DEF BigEndian
<1>11. IsShifted(f, v, n)
  BY ONLY <1>4, <1>5, <1>10 DEF IsShifted
<1> QED  BY <1>11

(* A number in n bytes has n bytes.                                        *)
LEMMA BigEndianBytes ==
    ASSUME NEW v \in Nat, NEW n \in Nat
    PROVE  /\ BigEndian(v, n) \in Text /\ Len(BigEndian(v, n)) = n
           /\ DOMAIN BigEndian(v, n) = 1 .. n
<1>1. PICK sh : IsShifted(sh, v, n)
  BY Shifts
<1>2. ASSUME NEW i \in 1 .. n PROVE sh[n - i] % 256 \in Byte
  <2>1. n - i \in 0 .. n
    OBVIOUS
  <2>2. sh[n - i] \in Nat
    BY <1>1, <2>1 DEF IsShifted
  <2> QED  BY <2>2 DEF Byte
<1>3. BigEndian(v, n) \in [1 .. n -> Byte]
  BY <1>1, <1>2 DEF IsShifted
<1> QED  BY <1>3 DEF Text

(* One byte holds what fits.                                               *)
LEMMA OneByteOf ==
    ASSUME NEW v \in Byte
    PROVE  BigEndian(v, 1) = <<v>>
<1>1. v \in Nat /\ v % 256 = v
  BY DEF Byte
<1>2. PICK sh : IsShifted(sh, v, 1)
  BY <1>1, Shifts
<1>3. BigEndian(v, 1)[1] = v
  <2>1. sh[1 - 1] = v
    BY <1>2 DEF IsShifted
  <2> QED  BY <1>1, <1>2, <2>1 DEF IsShifted
<1>4. BigEndian(v, 1) = [i \in 1 .. 1 |-> v]
  BY <1>2, <1>3 DEF IsShifted
<1> QED  BY <1>4

(* What one byte more makes of a number.                                   *)
OneByteMore(v, n, b) ==
    /\ BigEndian(256 * v + b, n + 1) = Append(BigEndian(v, n), b)
    /\ FitsIn(v, n) => FitsIn(256 * v + b, n + 1)

(* cmd_feed() undoes write_u32() byte by byte.                             *)
LEMMA BigEndianGrows ==
    ASSUME NEW v \in Nat, NEW n \in Nat, NEW b \in Byte
    PROVE  OneByteMore(v, n, b)
<1> DEFINE w == 256 * v + b
<1>1. b \in Nat /\ w \in Nat /\ w \div 256 = v /\ w % 256 = b
  BY DEF Byte
<1> HIDE DEF w
<1>2. PICK sh : IsShifted(sh, v, n)
  BY Shifts
<1>3. PICK st : IsShifted(st, w, n + 1)
  <2>1. n + 1 \in Nat
    OBVIOUS
  <2> QED  BY <1>1, <2>1, Shifts
<1> DEFINE S == {k \in Nat : k <= n => st[k + 1] = sh[k]}
<1>4. 0 \in S
  <2>1. 1 \in 1 .. n + 1 /\ 1 - 1 = 0
    OBVIOUS
  <2>2. st[1] = st[0] \div 256 /\ st[0] = w /\ sh[0] = v
    BY <1>2, <1>3, <2>1 DEF IsShifted
  <2> QED  BY <1>1, <2>2
<1>5. ASSUME NEW k \in S PROVE k + 1 \in S
  <2>1. SUFFICES ASSUME k + 1 <= n PROVE st[k + 1 + 1] = sh[k + 1]
    OBVIOUS
  <2>2. k + 1 \in 1 .. n /\ k + 1 - 1 = k /\ k + 1 + 1 \in 1 .. n + 1 /\ k + 1 + 1 - 1 = k + 1
    BY <2>1
  <2>3. st[k + 1] = sh[k]
    BY <2>2
  <2>4. sh[k + 1] = sh[k] \div 256
    BY <1>2, <2>2 DEF IsShifted
  <2>5. st[k + 1 + 1] = st[k + 1] \div 256
    <3>1. \A j \in 1 .. n + 1 : st[j] = st[j - 1] \div 256
      BY <1>3 DEF IsShifted
    <3> QED  BY <2>2, <3>1
  <2> QED  BY <2>3, <2>4, <2>5
<1>6. S = Nat
  <2>1. S \in SUBSET Nat
    OBVIOUS
  <2> HIDE DEF S
  <2> QED  BY <1>4, <1>5, <2>1, CountingUp
<1>7. \A k \in Nat : k <= n => st[k + 1] = sh[k]
  BY <1>6
<1> HIDE DEF S
<1>8. BigEndian(v, n) \in Text /\ Len(BigEndian(v, n)) = n
  BY BigEndianBytes
<1>9. BigEndian(w, n + 1) \in Text /\ Len(BigEndian(w, n + 1)) = n + 1
  BY <1>1, BigEndianBytes
<1>10. /\ Append(BigEndian(v, n), b) \in Text /\ Len(Append(BigEndian(v, n), b)) = n + 1
       /\ \A i \in 1 .. n : Append(BigEndian(v, n), b)[i] = BigEndian(v, n)[i]
       /\ Append(BigEndian(v, n), b)[n + 1] = b
  BY <1>8, AppendProperties DEF Text
<1>11. ASSUME NEW i \in 1 .. n + 1 PROVE BigEndian(w, n + 1)[i] = Append(BigEndian(v, n), b)[i]
  <2>0. BigEndian(w, n + 1)[i] = st[n + 1 - i] % 256
    BY <1>3 DEF IsShifted
  <2>1. CASE i = n + 1
    <3>1. n + 1 - i = 0
      BY <2>1
    <3>2. st[0] = w
      BY <1>3 DEF IsShifted
    <3> QED  BY <1>1, <1>10, <2>0, <2>1, <3>1, <3>2
  <2>2. CASE i # n + 1
    <3>1. i \in 1 .. n /\ n - i \in Nat /\ n - i <= n /\ n + 1 - i = (n - i) + 1
      BY <2>2
    <3>2. BigEndian(w, n + 1)[i] = st[(n - i) + 1] % 256
      BY <2>0, <3>1
    <3>3. BigEndian(v, n)[i] = sh[n - i] % 256
      BY <1>2, <3>1 DEF IsShifted
    <3> QED  BY <1>7, <1>10, <3>1, <3>2, <3>3
  <2> QED  BY <2>1, <2>2
<1>12. BigEndian(w, n + 1) = Append(BigEndian(v, n), b)
  BY <1>9, <1>10, <1>11, SeqEqual DEF Text
<1>13. st[n + 1] = sh[n] /\ Shifted(v, n) = sh /\ Shifted(w, n + 1) = st
  BY <1>2, <1>3, <1>7 DEF IsShifted
<1>14. FitsIn(v, n) => FitsIn(w, n + 1)
  BY <1>1, <1>13 DEF FitsIn
<1> QED  BY <1>12, <1>14 DEF w, OneByteMore

(* No byte holds 0.                                                        *)
LEMMA NothingFits == FitsIn(0, 0)
<1>1. PICK sh : IsShifted(sh, 0, 0)
  BY Shifts
<1> QED  BY <1>1 DEF IsShifted, FitsIn

-----------------------------------------------------------------------------
(* Sequences put together *)

(* fl[k] is what the first k of ss make.                                   *)
IsJoin(fl, X, ss) ==
    /\ fl \in [0 .. Len(ss) -> Seq(X)] /\ fl[0] = <<>>
    /\ \A k \in 1 .. Len(ss) : fl[k] = fl[k - 1] \o ss[k]
    /\ FlattenSeq(ss) = fl[Len(ss)]

(* FlattenSeq is such a join.                                              *)
LEMMA FlattenJoins ==
    ASSUME NEW X, NEW ss \in Seq(Seq(X))
    PROVE  \E fl : IsJoin(fl, X, ss)
<1> DEFINE m == Len(ss)
           G == [a \in (1 .. m) \X Seq(X) |-> a[2] \o ss[a[1]]]
           Is(f) == f = [i \in 1 .. m |-> IF i = 1 THEN ss[i] ELSE f[i - 1] \o ss[i]]
           F == CHOOSE f : Is(f)
<1>1. m \in Nat /\ (\A k \in 1 .. m : ss[k] \in Seq(X)) /\ <<>> \in Seq(X)
  OBVIOUS
<1>2. \A x \in Seq(X), y \in Seq(X) : x \o y \in Seq(X)
  BY ConcatProperties
<1>3. G \in [(1 .. m) \X Seq(X) -> Seq(X)]
  BY <1>1, <1>2
<1>4. PICK f : IsRecursion(f, Seq(X), <<>>, G, m)
  <2> HIDE DEF G, m
  <2> QED  BY <1>1, <1>3, RecursionExists
<1>5. f \in [0 .. m -> Seq(X)] /\ f[0] = <<>>
  BY <1>4 DEF IsRecursion
<1>6. ASSUME NEW k \in 1 .. m PROVE f[k] = f[k - 1] \o ss[k] /\ k - 1 \in 0 .. m
  <2>1. k - 1 \in 0 .. m
    BY <1>1
  <2>2. f[k] = G[<<k, f[k - 1]>>] /\ f[k - 1] \in Seq(X)
    BY <1>4, <2>1 DEF IsRecursion
  <2> QED  BY <2>1, <2>2
<1>7. CASE m = 0
  <2>1. FlattenSeq(ss) = <<>>
    BY <1>7 DEF FlattenSeq
  <2> QED  BY <1>5, <1>7, <2>1 DEF IsJoin
<1>8. CASE m # 0
  <2>1. FlattenSeq(ss) = F[m]
    BY <1>8 DEF FlattenSeq
  <2> DEFINE g == [i \in 1 .. m |-> f[i]]
  <2>2. Is(g)
    <3>1. ASSUME NEW i \in 1 .. m PROVE f[i] = IF i = 1 THEN ss[i] ELSE g[i - 1] \o ss[i]
      <4>1. CASE i = 1
        <5>1. f[1] = f[0] \o ss[1] /\ ss[1] \in Seq(X)
          <6>1. 1 \in 1 .. m /\ 1 - 1 = 0
            BY <1>1, <1>8
          <6> HIDE DEF m
          <6> QED  BY <1>1, <1>6, <6>1
        <5>2. <<>> \o ss[1] = ss[1]
          BY <5>1, ConcatEmptySeq
        <5> QED  BY <1>5, <4>1, <5>1, <5>2
      <4>2. CASE i # 1
        <5>1. i - 1 \in 1 .. m
          BY <1>1, <4>2
        <5> QED  BY <1>6, <4>2, <5>1
      <4> QED  BY <4>1, <4>2
    <3> QED  BY <3>1
  <2>3. Is(F)
    <3> HIDE DEF Is
    <3> QED  BY <2>2
  <2> HIDE DEF F, g
  <2> DEFINE h == [k \in 0 .. m |-> IF k = 0 THEN <<>> ELSE F[k]]
  <2>4. Counts(h, m) /\ h[0] = <<>> /\ h[m] = F[m]
    BY <1>1, <1>8 DEF Counts
  <2>5. ASSUME NEW k \in 1 .. m, h[k - 1] \in Seq(X) PROVE h[k] = G[<<k, h[k - 1]>>]
    <3>1. h[k] = F[k] /\ F[k] = IF k = 1 THEN ss[k] ELSE F[k - 1] \o ss[k]
      <4>1. k # 0 /\ k \in 0 .. m
        OBVIOUS
      <4>2. F[k] = IF k = 1 THEN ss[k] ELSE F[k - 1] \o ss[k]
        BY ONLY <2>3
      <4> HIDE DEF Is, m
      <4> QED  BY <4>1, <4>2
    <3>2. h[k] = h[k - 1] \o ss[k]
      <4>1. CASE k = 1
        <5>1. h[k - 1] = <<>> /\ ss[k] \in Seq(X)
          BY <1>1, <4>1
        <5>2. <<>> \o ss[k] = ss[k]
          BY <5>1, ConcatEmptySeq
        <5> QED  BY <3>1, <4>1, <5>1, <5>2
      <4>2. CASE k # 1
        <5>1. k - 1 \in 0 .. m /\ k - 1 # 0
          BY <1>1, <4>2
        <5>2. h[k - 1] = F[k - 1]
          BY <5>1
        <5> QED  BY <3>1, <4>2, <5>2
      <4> QED  BY <4>1, <4>2
    <3> HIDE DEF h
    <3> QED  BY <2>5, <3>2
  <2>6. h = f
    <3> HIDE DEF G, h, m
    <3> QED  BY <1>1, <1>4, <2>4, <2>5, RecursionIsUnique
  <2>7. FlattenSeq(ss) = f[m]
    BY <2>1, <2>4, <2>6
  <2> QED  BY <1>5, <1>6, <2>7 DEF IsJoin
<1> QED  BY <1>7, <1>8

(* Nothing joined is nothing.                                              *)
LEMMA FlattenNothing == FlattenSeq(<<>>) = <<>>
BY DEF FlattenSeq

(* Sequences joined are a sequence.                                        *)
LEMMA FlattenIsSeq ==
    ASSUME NEW X, NEW ss \in Seq(Seq(X))
    PROVE  FlattenSeq(ss) \in Seq(X)
<1>1. PICK fl : IsJoin(fl, X, ss)
  BY FlattenJoins
<1>2. Len(ss) \in 0 .. Len(ss)
  BY LenProperties
<1> QED  BY <1>1, <1>2 DEF IsJoin

(* There is one sequence more behind the first k.                          *)
JoinGoesOn(fl, X, ss, k) ==
    IsJoin(fl, X, ss) /\ Len(ss) \in Nat /\ k \in Nat /\ k + 1 <= Len(ss)

JoinsOne(fl, X, ss, k) == fl[k] \in Seq(X) /\ fl[k + 1] = fl[k] \o ss[k + 1]

(* One sequence more.                                                      *)
LEMMA JoinStep ==
    ASSUME NEW X, NEW ss, NEW fl, NEW k, JoinGoesOn(fl, X, ss, k)
    PROVE  JoinsOne(fl, X, ss, k)
<1> DEFINE j == k + 1
<1>0. IsJoin(fl, X, ss) /\ Len(ss) \in Nat /\ k \in Nat /\ k + 1 <= Len(ss)
  BY DEF JoinGoesOn
<1>1. j \in 1 .. Len(ss) /\ k \in 0 .. Len(ss) /\ j - 1 = k
  BY <1>0
<1>2. fl[k] \in Seq(X)
  BY <1>0, <1>1 DEF IsJoin
<1> HIDE DEF j
<1>3. fl[j] = fl[j - 1] \o ss[j]
  BY <1>0, <1>1, Zenon DEF IsJoin
<1>4. fl[j] = fl[k] \o ss[j]
  BY <1>1, <1>3
<1> QED  BY <1>2, <1>4 DEF j, JoinsOne

(* One answer more comes after the others.                                 *)
LEMMA FlattenAppends ==
    ASSUME NEW X, NEW ss \in Seq(Seq(X)), NEW s \in Seq(X)
    PROVE  FlattenSeq(Append(ss, s)) = FlattenSeq(ss) \o s
<1> DEFINE tt == Append(ss, s)
           m == Len(ss)
<1>1. /\ m \in Nat /\ tt \in Seq(Seq(X)) /\ Len(tt) = m + 1 /\ tt[m + 1] = s
      /\ \A i \in 1 .. m : tt[i] = ss[i]
  BY AppendProperties, LenProperties
<1> HIDE DEF tt
<1>2. PICK fl : IsJoin(fl, X, ss)
  BY FlattenJoins
<1>3. PICK ft : IsJoin(ft, X, tt)
  BY <1>1, FlattenJoins
<1> DEFINE S == {k \in Nat : k <= m => ft[k] = fl[k]}
<1>4. 0 \in S
  BY <1>2, <1>3 DEF IsJoin
<1>5. ASSUME NEW k \in S PROVE k + 1 \in S
  <2>1. SUFFICES ASSUME k + 1 <= m PROVE ft[k + 1] = fl[k + 1]
    OBVIOUS
  <2> HIDE DEF m
  <2>2. k \in Nat /\ k + 1 \in 1 .. m /\ k + 1 - 1 = k /\ k <= m /\ k + 1 \in 1 .. m + 1
    BY <1>1, <2>1
  <2>3. ft[k] = fl[k]
    BY <2>2
  <2> HIDE DEF S
  <2>4. ft[k + 1] = ft[k] \o tt[k + 1]
    <3>1. k \in Nat /\ Len(tt) \in Nat /\ k + 1 <= Len(tt)
      BY <1>1, <2>1, <2>2
    <3>2. JoinGoesOn(ft, X, tt, k)
      BY ONLY <1>3, <3>1 DEF JoinGoesOn
    <3>3. JoinsOne(ft, X, tt, k)
      BY ONLY <3>2, JoinStep
    <3> QED  BY ONLY <3>3 DEF JoinsOne
  <2>5. fl[k + 1] = fl[k] \o ss[k + 1]
    <3>1. k \in Nat /\ Len(ss) \in Nat /\ k + 1 <= Len(ss)
      BY <1>1, <2>1, <2>2 DEF m
    <3>2. JoinGoesOn(fl, X, ss, k)
      BY ONLY <1>2, <3>1 DEF JoinGoesOn
    <3>3. JoinsOne(fl, X, ss, k)
      BY ONLY <3>2, JoinStep
    <3> QED  BY ONLY <3>3 DEF JoinsOne
  <2> QED  BY <1>1, <2>2, <2>3, <2>4, <2>5
<1>6. S = Nat
  <2>1. S \in SUBSET Nat
    OBVIOUS
  <2> HIDE DEF S
  <2> QED  BY <1>4, <1>5, <2>1, CountingUp
<1>7. ft[m] = fl[m]
  BY <1>1, <1>6
<1> HIDE DEF S, m
<1>8. ft[m + 1] = ft[m] \o s
  <2>1. m \in Nat /\ Len(tt) \in Nat /\ m + 1 <= Len(tt) /\ tt[m + 1] = s
    BY <1>1
  <2>2. ft[m + 1] = ft[m] \o tt[m + 1]
    <3>1. JoinGoesOn(ft, X, tt, m)
      BY ONLY <1>3, <2>1 DEF JoinGoesOn
    <3>2. JoinsOne(ft, X, tt, m)
      BY ONLY <3>1, JoinStep
    <3> QED  BY ONLY <3>2 DEF JoinsOne
  <2> QED  BY <2>1, <2>2
<1>9. FlattenSeq(ss) = fl[m] /\ FlattenSeq(tt) = ft[m + 1]
  BY <1>1, <1>2, <1>3 DEF IsJoin, m
<1> QED  BY <1>7, <1>8, <1>9 DEF tt

(* Strings of n bytes at most.                                             *)
LEMMA FlattenFits ==
    ASSUME NEW X, NEW ss \in Seq(Seq(X)), NEW n \in Nat, \A i \in 1 .. Len(ss) : Len(ss[i]) <= n
    PROVE  Len(FlattenSeq(ss)) <= n * Len(ss)
<1> DEFINE m == Len(ss)
<1>1. m \in Nat /\ \A k \in 1 .. m : ss[k] \in Seq(X) /\ Len(ss[k]) \in Nat /\ Len(ss[k]) <= n
  BY LenProperties, ElementOfSeq
<1>2. PICK fl : IsJoin(fl, X, ss)
  BY FlattenJoins
<1> DEFINE S == {k \in Nat : k <= m => Len(fl[k]) <= n * k}
<1>4. 0 \in S
  <2>1. fl[0] = <<>> /\ Len(<<>>) = 0 /\ n * 0 = 0
    BY <1>2 DEF IsJoin
  <2> QED  BY <2>1
<1>5. ASSUME NEW k \in S PROVE k + 1 \in S
  <2>1. SUFFICES ASSUME k + 1 <= m PROVE Len(fl[k + 1]) <= n * (k + 1)
    OBVIOUS
  <2> HIDE DEF m
  <2>2. k \in Nat /\ k + 1 \in 1 .. m /\ k + 1 - 1 = k /\ k <= m /\ k \in 0 .. m
    BY <1>1, <2>1
  <2>3. Len(fl[k]) <= n * k
    BY <2>2
  <2> HIDE DEF S
  <2>4. fl[k] \in Seq(X) /\ fl[k + 1] = fl[k] \o ss[k + 1]
    <3>1. k \in Nat /\ Len(ss) \in Nat /\ k + 1 <= Len(ss)
      BY <1>1, <2>1, <2>2 DEF m
    <3>2. JoinGoesOn(fl, X, ss, k)
      BY ONLY <1>2, <3>1 DEF JoinGoesOn
    <3>3. JoinsOne(fl, X, ss, k)
      BY ONLY <3>2, JoinStep
    <3> QED  BY ONLY <3>3 DEF JoinsOne
  <2>5. Len(fl[k + 1]) = Len(fl[k]) + Len(ss[k + 1]) /\ Len(fl[k]) \in Nat
    BY <1>1, <2>2, <2>4, ConcatProperties, LenProperties
  <2>6. Len(ss[k + 1]) \in Nat /\ Len(ss[k + 1]) <= n
    BY <1>1, <2>2
  <2>7. n * (k + 1) = n * k + n /\ n * k \in Nat
    BY <2>2
  <2> DEFINE x == Len(fl[k + 1])  y == Len(fl[k])  z == Len(ss[k + 1])  w == n * k  v == n * (k + 1)
  <2>8. x = y + z /\ y <= w /\ z <= n /\ v = w + n /\ {y, z, w} \subseteq Nat
    BY <2>3, <2>5, <2>6, <2>7
  <2> HIDE DEF x, y, z, w, v
  <2>9. x <= v
    BY <2>8
  <2> QED  BY <2>9 DEF x, v
<1>6. S = Nat
  <2>1. S \in SUBSET Nat
    OBVIOUS
  <2> HIDE DEF S
  <2> QED  BY <1>4, <1>5, <2>1, CountingUp
<1>7. Len(fl[m]) <= n * m
  <2>1. \A k \in Nat : k <= m => Len(fl[k]) <= n * k
    BY ONLY <1>6
  <2>2. m <= m
    BY ONLY <1>1
  <2> QED  BY ONLY <1>1, <2>1, <2>2
<1>9. FlattenSeq(ss) = fl[m]
  BY <1>2 DEF IsJoin
<1> QED  BY <1>7, <1>9

-----------------------------------------------------------------------------
(* The answers fit *)

(* A string behind its length.                                             *)
LEMMA SizedBytes ==
    ASSUME NEW s \in Text, NEW n \in Nat
    PROVE  Sized(s, n) \in Text /\ Len(Sized(s, n)) = n + Len(s)
<1>1. Len(s) \in Nat
  BY DEF Text
<1>2. BigEndian(Len(s), n) \in Text /\ Len(BigEndian(Len(s), n)) = n
  BY <1>1, BigEndianBytes
<1> QED  BY <1>2, ConcatProperties DEF Sized, Text

(* A list of strings, each behind its length, is bytes.                    *)
LEMMA SizedsBytes ==
    ASSUME NEW ss \in Seq(Text), NEW n \in Nat
    PROVE  /\ [i \in DOMAIN ss |-> Sized(ss[i], n)] \in Seq(Text)
           /\ Len([i \in DOMAIN ss |-> Sized(ss[i], n)]) = Len(ss)
           /\ Sizeds(ss, n) \in Text
<1> DEFINE zs == [i \in DOMAIN ss |-> Sized(ss[i], n)]
<1>1. Len(ss) \in Nat /\ DOMAIN ss = 1 .. Len(ss) /\ \A i \in 1 .. Len(ss) : ss[i] \in Text
  OBVIOUS
<1>2. \A i \in 1 .. Len(ss) : zs[i] \in Text
  BY <1>1, SizedBytes
<1>3. zs \in [1 .. Len(ss) -> Text]
  BY <1>1, <1>2
<1> HIDE DEF zs
<1>4. zs \in Seq(Text) /\ Len(zs) = Len(ss)
  BY <1>1, <1>3
<1>5. FlattenSeq(zs) \in Text
  BY <1>4, FlattenIsSeq DEF Text
<1> QED  BY <1>4, <1>5 DEF zs, Sizeds

(* A name is a text.                                                       *)
LEMMA CStringsAreText == CStrings \subseteq Text /\ \A s \in CStrings : Len(s) <= 255
<1>1. (1 .. 255) \subseteq Byte
  BY DEF Byte
<1> QED  BY <1>1, SeqMonotonic DEF CStrings, Text

(* As many names at most as there are slots.                               *)
LEMMA ListedNames ==
    ASSUME NEW t \in T!Tables
    PROVE  Listed(t) \in Seq(CStrings) /\ Len(Listed(t)) <= MaxUsers
<1> DEFINE ns == [i \in T!Slots |-> IF t[i] = NoUser THEN <<>> ELSE <<t[i].name>>]
<1>1. MaxUsers \in Nat
  BY UsersAssumption, Bytes
<1>2. ASSUME NEW i \in T!Slots PROVE ns[i] \in Seq(CStrings) /\ Len(ns[i]) <= 1
  <2>1. CASE t[i] = NoUser
    BY <2>1
  <2>2. CASE t[i] # NoUser
    <3>1. t[i].name \in CStrings
      BY <2>2 DEF T!Tables, T!Accounts
    <3> QED  BY <2>2, <3>1
  <2> QED  BY <2>1, <2>2
<1>3. ns \in [1 .. MaxUsers -> Seq(CStrings)]
  BY <1>2 DEF T!Slots
<1>4. ns \in Seq(Seq(CStrings)) /\ Len(ns) = MaxUsers /\ \A i \in 1 .. Len(ns) : Len(ns[i]) <= 1
  <2>1. ns \in Seq(Seq(CStrings)) /\ Len(ns) = MaxUsers
    <3> HIDE DEF ns
    <3> QED  BY <1>1, <1>3
  <2> QED  BY <1>2, <2>1 DEF T!Slots
<1>5. Listed(t) = FlattenSeq(ns)
  BY DEF Listed
<1> HIDE DEF ns
<1>6. Len(FlattenSeq(ns)) <= 1 * Len(ns)
  BY <1>4, FlattenFits
<1>7. FlattenSeq(ns) \in Seq(CStrings)
  BY <1>4, FlattenIsSeq
<1> QED  BY <1>1, <1>4, <1>5, <1>6, <1>7

(* What fits is written whole.                                             *)
LEMMA FittingWhole ==
    ASSUME NEW STATE s, s \in Text, Len(s) <= AnswerSize
    PROVE  Fitting(s) = s
<1>1. Len(s) \in Nat /\ AnswerSize \in Nat
  BY SizesAssumption DEF Text
<1>2. Min({Len(s), AnswerSize}) = Len(s)
  BY <1>1 DEF Min
<1>3. SubSeq(s, 1, Len(s)) = s
  BY SubSeqFull DEF Text
<1> QED  BY <1>2, <1>3 DEF Fitting

(* One byte.                                                               *)
LEMMA ByteText ==
    ASSUME NEW b \in Byte
    PROVE  <<b>> \in Text /\ Len(<<b>>) = 1 /\ <<b>>[1] = b
BY DEF Text

(* The answer begins with a byte, and there is room for all of it.         *)
Fits(s) == s \in Text /\ Len(s) >= 1 /\ Len(s) <= AnswerSize

(* Bytes behind bytes.                                                     *)
LEMMA TextsJoin ==
    ASSUME NEW s \in Text, NEW t \in Text
    PROVE  s \o t \in Text /\ Len(s \o t) = Len(s) + Len(t) /\ {Len(s), Len(t)} \subseteq Nat
BY ConcatProperties, LenProperties DEF Text

(* s has n bytes.                                                          *)
Has(s, n) == s \in Text /\ Len(s) = n

(* The lengths add up.                                                     *)
LEMMA HasJoins ==
    ASSUME NEW s, NEW t, NEW m \in Nat, NEW n \in Nat, Has(s, m), Has(t, n)
    PROVE  Has(s \o t, m + n)
BY TextsJoin DEF Has

(* An answer of one byte.                                                  *)
LEMMA StatusFits ==
    ASSUME NEW STATE b, b \in Byte
    PROVE  Fits(<<b>>)
<1>1. <<b>> \in Text /\ Len(<<b>>) = 1
  BY DEF Text
<1>2. AnswerSize \in Nat /\ AnswerSize >= 1
  BY SizesAssumption
<1> QED  BY <1>1, <1>2 DEF Fits

(* The answer to LIST_USERS: two bytes, and 256 at most for each slot.     *)
LEMMA ListFits ==
    ASSUME NEW STATE t, t \in T!Tables
    PROVE  Fits(<<OK>> \o BigEndian(Len(Listed(t)), 1) \o Sizeds(Listed(t), 1))
<1> DEFINE ns == Listed(t)
           zs == [i \in DOMAIN ns |-> Sized(ns[i], 1)]
           o  == <<OK>>
<1>1. ns \in Seq(CStrings) /\ Len(ns) <= MaxUsers /\ MaxUsers \in Nat
  BY ListedNames, UsersAssumption, Bytes
<1> HIDE DEF ns
<1>2. ns \in Seq(Text) /\ Len(ns) \in Nat
  BY <1>1, CStringsAreText, SeqMonotonic, LenProperties
<1>3. zs \in Seq(Text) /\ Len(zs) = Len(ns) /\ Sizeds(ns, 1) \in Text
  BY <1>2, SizedsBytes
<1>4. \A i \in 1 .. Len(zs) : Len(zs[i]) <= 256
  <2>1. ASSUME NEW i \in 1 .. Len(ns) PROVE Len(Sized(ns[i], 1)) <= 256
    <3>1. ns[i] \in CStrings /\ ns[i] \in Text
      BY <1>1, <1>2, ElementOfSeq
    <3>2. Len(ns[i]) <= 255 /\ Len(ns[i]) \in Nat
      BY <3>1, CStringsAreText DEF Text
    <3>3. Len(Sized(ns[i], 1)) = 1 + Len(ns[i])
      BY <3>1, SizedBytes
    <3> QED  BY <3>2, <3>3
  <2>2. DOMAIN ns = 1 .. Len(ns)
    BY <1>2
  <2> QED  BY <1>3, <2>1, <2>2
<1> HIDE DEF zs
<1>5. Len(FlattenSeq(zs)) <= 256 * Len(zs)
  <2>1. zs \in Seq(Seq(Byte)) /\ 256 \in Nat
    BY <1>3 DEF Text
  <2> QED  BY ONLY ZenonT(30), <1>4, <2>1, FlattenFits
<1>6. Sizeds(ns, 1) = FlattenSeq(zs)
  BY DEF Sizeds, zs
<1>7. BigEndian(Len(ns), 1) \in Text /\ Len(BigEndian(Len(ns), 1)) = 1
  BY <1>2, BigEndianBytes
<1>8. o \in Text /\ Len(o) = 1
  BY ByteText DEF OK, Byte
<1> HIDE DEF o
<1>9. Has(o \o BigEndian(Len(ns), 1), 1 + 1)
  <2>1. Has(o, 1) /\ Has(BigEndian(Len(ns), 1), 1)
    BY <1>7, <1>8 DEF Has
  <2> QED  BY <2>1, HasJoins
<1>10. /\ o \o BigEndian(Len(ns), 1) \o Sizeds(ns, 1) \in Text
       /\ Len(o \o BigEndian(Len(ns), 1) \o Sizeds(ns, 1)) = 2 + Len(Sizeds(ns, 1))
       /\ Len(Sizeds(ns, 1)) \in Nat
  BY <1>3, <1>9, TextsJoin DEF Has
<1>11. Len(Sizeds(ns, 1)) <= 256 * MaxUsers
  BY <1>1, <1>2, <1>3, <1>5, <1>6
<1>12. AnswerSize >= 2 + 256 * MaxUsers /\ AnswerSize \in Nat
  BY SizesAssumption
<1> QED  BY <1>1, <1>10, <1>11, <1>12 DEF Fits, ns, o

(* The counters, then the log.                                             *)
Stats(w) ==
    <<OK>> \o BigEndian(w.hist, 8) \o BigEndian(w.curr, 4)
           \o BigEndian(w.sent, 8) \o BigEndian(w.recv, 8)

Log(w) == <<OK>> \o BigEndian(Len(w.log), 2) \o Sizeds(w.log, 2)

(* The answer to GET_STATS has 29 bytes.                                   *)
LEMMA StatsFit ==
    ASSUME NEW STATE w, w \in Worlds
    PROVE  Fits(Stats(w))
<1>1. w.hist \in Nat /\ w.curr \in Nat /\ w.sent \in Nat /\ w.recv \in Nat
  BY WorldsAssumption DEF FitsIn
<1>2. /\ BigEndian(w.hist, 8) \in Text /\ Len(BigEndian(w.hist, 8)) = 8
      /\ BigEndian(w.curr, 4) \in Text /\ Len(BigEndian(w.curr, 4)) = 4
      /\ BigEndian(w.sent, 8) \in Text /\ Len(BigEndian(w.sent, 8)) = 8
      /\ BigEndian(w.recv, 8) \in Text /\ Len(BigEndian(w.recv, 8)) = 8
  BY <1>1, BigEndianBytes
<1> DEFINE a == BigEndian(w.hist, 8)  b == BigEndian(w.curr, 4)
           c == BigEndian(w.sent, 8)  d == BigEndian(w.recv, 8)
           o == <<OK>>
<1> HIDE DEF a, b, c, d, o
<1>3. Has(a, 8) /\ Has(b, 4) /\ Has(c, 8) /\ Has(d, 8)
  BY <1>2 DEF a, b, c, d, Has
<1>4. Has(o, 1)
  BY ByteText DEF OK, Byte, o, Has
<1>5. Has(o \o a, 9)
  BY <1>3, <1>4, HasJoins
<1>6. Has(o \o a \o b, 13)
  BY <1>3, <1>5, HasJoins
<1>7. Has(o \o a \o b \o c, 21)
  BY <1>3, <1>6, HasJoins
<1>8. Has(o \o a \o b \o c \o d, 29)
  BY <1>3, <1>7, HasJoins
<1>9. AnswerSize >= 29 /\ AnswerSize \in Nat
  BY SizesAssumption
<1>10. Stats(w) = o \o a \o b \o c \o d
  BY DEF Stats, a, b, c, d, o
<1> QED  BY <1>8, <1>9, <1>10 DEF Fits, Has

(* The answer to GET_LOG.                                                  *)
LEMMA LogFits ==
    ASSUME NEW STATE w, w \in Worlds
    PROVE  Fits(Log(w))
<1> DEFINE o == <<OK>>
<1> HIDE DEF o
<1>1. w.log \in Seq(Text) /\ 3 + Len(Sizeds(w.log, 2)) <= AnswerSize
  BY WorldsAssumption DEF Text
<1>2. Sizeds(w.log, 2) \in Text /\ Len(w.log) \in Nat
  BY <1>1, SizedsBytes, LenProperties
<1>3. BigEndian(Len(w.log), 2) \in Text /\ Len(BigEndian(Len(w.log), 2)) = 2
  BY <1>2, BigEndianBytes
<1>4. o \in Text /\ Len(o) = 1
  BY ByteText DEF OK, Byte, o
<1>5. Has(o \o BigEndian(Len(w.log), 2), 1 + 2)
  <2>1. Has(o, 1) /\ Has(BigEndian(Len(w.log), 2), 2)
    BY <1>3, <1>4 DEF Has
  <2> QED  BY <2>1, HasJoins
<1>6. /\ Log(w) \in Text /\ Len(Log(w)) = 3 + Len(Sizeds(w.log, 2))
      /\ Len(Sizeds(w.log, 2)) \in Nat
  BY <1>2, <1>5, TextsJoin DEF Log, o, Has
<1>7. AnswerSize \in Nat
  BY SizesAssumption
<1> QED  BY <1>1, <1>6, <1>7 DEF Fits

(* exec_command() never fills the write buffer.                            *)
LEMMA AnswerFits ==
    ASSUME users \in T!Tables, world \in Worlds, NEW STATE q
    PROVE  Fits(Answer(q))
<1>1. CASE q.cmd = AddUser
  <2>1. Answer(q) = <<AddStatus(users, Account(q))>>
    BY <1>1 DEF Answer, AddUser, DelUser, ListUsers, GetStats, GetLog
  <2>2. AddStatus(users, Account(q)) \in Byte
    BY DEF AddStatus, Byte, OK, NotFound, Full
  <2> QED  BY <2>1, <2>2, StatusFits
<1>2. CASE q.cmd = DelUser
  <2>1. Answer(q) = <<DelStatus(users, CString(q.uname))>>
    BY <1>2 DEF Answer, AddUser, DelUser, ListUsers, GetStats, GetLog
  <2>2. DelStatus(users, CString(q.uname)) \in Byte
    BY DEF DelStatus, Byte, OK, NotFound
  <2> QED  BY <2>1, <2>2, StatusFits
<1>3. CASE q.cmd = ListUsers
  <2>1. Answer(q) = <<OK>> \o BigEndian(Len(Listed(users)), 1) \o Sizeds(Listed(users), 1)
    BY <1>3 DEF Answer, AddUser, DelUser, ListUsers, GetStats, GetLog
  <2> QED  BY <2>1, ListFits
<1>4. CASE q.cmd = GetStats
  <2>1. Answer(q) = Stats(world)
    BY <1>4 DEF Answer, AddUser, DelUser, ListUsers, GetStats, GetLog, Stats
  <2> QED  BY <2>1, StatsFit
<1>5. CASE q.cmd = GetLog
  <2>1. Answer(q) = Log(world)
    BY <1>5 DEF Answer, AddUser, DelUser, ListUsers, GetStats, GetLog, Log
  <2> QED  BY <2>1, LogFits
<1>6. CASE q.cmd \notin {AddUser, DelUser, ListUsers, GetStats, GetLog}
  <2>1. Answer(q) = <<OK>>
    BY <1>6 DEF Answer
  <2> QED  BY <2>1, StatusFits DEF OK, Byte
<1> QED  BY <1>1, <1>2, <1>3, <1>4, <1>5, <1>6

-----------------------------------------------------------------------------
(* What the parsers know *)

Places == {"VER", "CMD", "ULEN", "UNAME", "PLEN", "PASSWD", "TIMEOUT", "DONE", "ERROR"}

Parsers == [at : Places, left : Byte, cmd : Byte, uname : Text, passwd : Text, timeout : Nat]

(* A string that still misses left bytes, behind its length.               *)
Field(s, left) == <<Len(s) + left>> \o s

(* The bytes used of a name and a password that follow head.               *)
Behind(head, q) ==
    CASE q.at = "ULEN"              -> head
      [] q.at \in {"UNAME", "PLEN"} -> head \o Field(q.uname, q.left)
      [] OTHER                      -> (head \o Field(q.uname, 0)) \o Field(q.passwd, q.left)

(* The bytes auth_feed() and cmd_feed() have used of their message, told   *)
(* from where they are and what they have kept.                            *)
AuthTaken(q) == IF q.at = "VER" THEN <<>> ELSE Behind(<<Version>>, q)

CmdTaken(q) ==
    CASE q.at = "CMD" -> <<>>
      [] q.at \in {"ULEN", "UNAME", "PLEN", "PASSWD"} \/ (q.at = "DONE" /\ q.cmd = AddUser) ->
            Behind(<<q.cmd>>, q)
      [] q.at = "DONE" /\ q.cmd = DelUser -> <<q.cmd>> \o Field(q.uname, q.left)
      [] q.at = "TIMEOUT" \/ (q.at = "DONE" /\ q.cmd = SetTimeout) ->
            <<q.cmd>> \o BigEndian(q.timeout, 4 - q.left)
      [] OTHER -> <<q.cmd>>

(* A length is a byte, and so is what of it is left.                       *)
Counts255(s, left) == Len(s) + left <= 255

AuthKnows(q) ==
    /\ q.at \in {"VER", "ULEN", "UNAME", "PLEN", "PASSWD", "DONE", "ERROR"}
    /\ q.at \in {"VER", "ULEN"} => q.uname = <<>>
    /\ q.at \in {"VER", "ULEN", "UNAME", "PLEN"} => q.passwd = <<>>
    /\ q.at \in {"UNAME", "PLEN"} => Counts255(q.uname, q.left)
    /\ q.at \in {"PASSWD", "DONE"} => Counts255(q.uname, 0) /\ Counts255(q.passwd, q.left)
    /\ q.at \in {"UNAME", "PASSWD"} => q.left > 0
    /\ q.at \in {"PLEN", "DONE"} => q.left = 0

CmdKnows(q) ==
    /\ q.at \in {"CMD", "ULEN", "UNAME", "PLEN", "PASSWD", "TIMEOUT", "DONE", "ERROR"}
    /\ q.at \in {"CMD", "ULEN"} => q.uname = <<>>
    /\ q.at \in {"CMD", "ULEN", "UNAME", "PLEN"} => q.passwd = <<>>
    /\ q.at \in {"ULEN", "UNAME"} => q.cmd \in {AddUser, DelUser}
    /\ q.at \in {"PLEN", "PASSWD"} => q.cmd = AddUser
    /\ q.at = "TIMEOUT" => q.cmd = SetTimeout /\ q.left <= 4
    /\ q.at = "DONE" =>
          q.cmd \in {AddUser, DelUser, ListUsers, GetStats, SetTimeout, GetLog, Close}
    /\ q.at = "ERROR" =>
          q.cmd \notin {AddUser, DelUser, ListUsers, GetStats, SetTimeout, GetLog, Close}
    /\ q.at \in {"UNAME", "PLEN"} \/ (q.at = "DONE" /\ q.cmd = DelUser) =>
          Counts255(q.uname, q.left)
    /\ q.at = "PASSWD" \/ (q.at = "DONE" /\ q.cmd = AddUser) =>
          Counts255(q.uname, 0) /\ Counts255(q.passwd, q.left)
    /\ q.at \in {"UNAME", "PASSWD", "TIMEOUT"} => q.left > 0
    /\ q.at \in {"PLEN", "DONE"} => q.left = 0

(* A number has as many bytes as were used for it.                         *)
TimeKnows(q) ==
    /\ q.at = "CMD" => q.timeout = 0
    /\ q.at = "TIMEOUT" => FitsIn(q.timeout, 4 - q.left)
    /\ q.at = "DONE" /\ q.cmd = SetTimeout => FitsIn(q.timeout, 4)

-----------------------------------------------------------------------------
(* One byte more *)

(* A field is bytes.                                                       *)
LEMMA FieldText ==
    ASSUME NEW s \in Text, NEW left \in Nat, Counts255(s, left)
    PROVE  Field(s, left) \in Text /\ Len(Field(s, left)) = 1 + Len(s)
<1>1. Len(s) \in Nat
  BY DEF Text
<1>2. Len(s) + left \in Byte
  BY <1>1, Bytes DEF Counts255
<1>3. Has(<<Len(s) + left>>, 1)
  BY <1>2, ByteText DEF Has
<1>4. Has(Field(s, left), 1 + Len(s))
  <2>1. Has(s, Len(s))
    BY DEF Has
  <2> QED  BY <1>1, <1>3, <2>1, HasJoins DEF Field
<1> QED  BY <1>4 DEF Has

(* The length byte begins a field.                                         *)
LEMMA FieldBegins ==
    ASSUME NEW h \in Text, NEW b \in Byte
    PROVE  /\ Append(h, b) = h \o Field(<<>>, b)
           /\ Counts255(<<>>, b)
<1>1. b \in Nat /\ b <= 255 /\ Len(<<>>) = 0 /\ 0 + b = b
  BY Bytes
<1>2. Append(h, b) = h \o <<b>>
  BY AppendIsConcat DEF Text
<1>3. <<b>> \o <<>> = <<b>>
  BY ByteText, ConcatEmptySeq DEF Text
<1>4. Field(<<>>, b) = <<b>>
  BY <1>1, <1>3 DEF Field
<1> QED  BY <1>1, <1>2, <1>4 DEF Counts255

(* One byte of a field.                                                    *)
LEMMA FieldGrows ==
    ASSUME NEW h \in Text, NEW s \in Text, NEW left \in Nat, left > 0, Counts255(s, left),
           NEW b \in Byte
    PROVE  /\ Append(h \o Field(s, left), b) = h \o Field(Append(s, b), left - 1)
           /\ Append(s, b) \in Text /\ Counts255(Append(s, b), left - 1)
<1>1. Len(s) \in Nat /\ Append(s, b) \in Text /\ Len(Append(s, b)) = Len(s) + 1
  BY AppendProperties, LenProperties DEF Text
<1>2. Len(Append(s, b)) + (left - 1) = Len(s) + left
  BY <1>1
<1> DEFINE l == <<Len(s) + left>>
<1>3. l \in Text
  <2>1. Len(s) + left \in Byte
    BY <1>1, Bytes DEF Counts255
  <2> QED  BY <2>1, ByteText
<1>4. Field(s, left) = l \o s /\ Field(Append(s, b), left - 1) = l \o Append(s, b)
  BY <1>2 DEF Field
<1> HIDE DEF l
<1>5. <<b>> \in Text
  BY ByteText
<1>6. Append(s, b) = s \o <<b>>
  BY AppendIsConcat DEF Text
<1>7. l \o (s \o <<b>>) = (l \o s) \o <<b>> /\ l \o s \in Text
  BY <1>3, <1>5, ConcatAssociative, ConcatProperties DEF Text
<1>8. h \o ((l \o s) \o <<b>>) = (h \o (l \o s)) \o <<b>> /\ h \o (l \o s) \in Text
  BY <1>5, <1>7, ConcatAssociative, ConcatProperties, SMTT(20) DEF Text
<1>9. Append(h \o (l \o s), b) = (h \o (l \o s)) \o <<b>>
  BY <1>8, AppendIsConcat DEF Text
<1>10. Counts255(Append(s, b), left - 1)
  BY <1>2 DEF Counts255
<1> QED  BY <1>1, <1>4, <1>6, <1>7, <1>8, <1>9, <1>10

(* What a byte of a string changes of a parser.                            *)
LEMMA KeptFields ==
    ASSUME NEW q \in Parsers, NEW b \in Byte, NEW next \in Places, q.left > 0, NEW r
    PROVE  /\ r = Kept(q, "uname", b, next) =>
                 /\ r \in Parsers /\ r.uname = Append(q.uname, b) /\ r.passwd = q.passwd
                 /\ r.left = q.left - 1 /\ r.at = (IF q.left = 1 THEN next ELSE q.at)
                 /\ r.cmd = q.cmd /\ r.timeout = q.timeout
           /\ r = Kept(q, "passwd", b, next) =>
                 /\ r \in Parsers /\ r.passwd = Append(q.passwd, b) /\ r.uname = q.uname
                 /\ r.left = q.left - 1 /\ r.at = (IF q.left = 1 THEN next ELSE q.at)
                 /\ r.cmd = q.cmd /\ r.timeout = q.timeout
<1>1. q.left - 1 \in Byte
  BY Bytes DEF Parsers
<1>2. Append(q.uname, b) \in Text /\ Append(q.passwd, b) \in Text
  BY AppendProperties DEF Parsers, Text
<1>3. (IF q.left = 1 THEN next ELSE q.at) \in Places
  BY DEF Parsers
<1>4. ASSUME r = Kept(q, "uname", b, next)
      PROVE  /\ r \in Parsers /\ r.uname = Append(q.uname, b) /\ r.passwd = q.passwd
             /\ r.left = q.left - 1 /\ r.at = (IF q.left = 1 THEN next ELSE q.at)
             /\ r.cmd = q.cmd /\ r.timeout = q.timeout
  <2> DEFINE u == Append(q.uname, b)  l == q.left - 1  a == IF q.left = 1 THEN next ELSE q.at
  <2>1. r = [q EXCEPT !.uname = u, !.left = l, !.at = a]
    BY <1>4 DEF Kept
  <2>2. u \in Text /\ l \in Byte /\ a \in Places
    BY <1>1, <1>2, <1>3
  <2> HIDE DEF u, l, a
  <2>3. /\ r \in Parsers /\ r.uname = u /\ r.passwd = q.passwd /\ r.left = l /\ r.at = a
        /\ r.cmd = q.cmd /\ r.timeout = q.timeout
    BY <2>1, <2>2 DEF Parsers
  <2> QED  BY <2>3 DEF u, l, a
<1>5. ASSUME r = Kept(q, "passwd", b, next)
      PROVE  /\ r \in Parsers /\ r.passwd = Append(q.passwd, b) /\ r.uname = q.uname
             /\ r.left = q.left - 1 /\ r.at = (IF q.left = 1 THEN next ELSE q.at)
             /\ r.cmd = q.cmd /\ r.timeout = q.timeout
  <2> DEFINE u == Append(q.passwd, b)  l == q.left - 1  a == IF q.left = 1 THEN next ELSE q.at
  <2>1. r = [q EXCEPT !.passwd = u, !.left = l, !.at = a]
    BY <1>5 DEF Kept
  <2>2. u \in Text /\ l \in Byte /\ a \in Places
    BY <1>1, <1>2, <1>3
  <2> HIDE DEF u, l, a
  <2>3. /\ r \in Parsers /\ r.passwd = u /\ r.uname = q.uname /\ r.left = l /\ r.at = a
        /\ r.cmd = q.cmd /\ r.timeout = q.timeout
    BY <2>1, <2>2 DEF Parsers
  <2> QED  BY <2>3 DEF u, l, a
<1> QED  BY <1>4, <1>5

(* What auth_feed() knows after a byte, and that it has used it.           *)
LEMMA AuthStep ==
    ASSUME NEW q \in Parsers, AuthKnows(q), ~Over(q), NEW b \in Byte, NEW r, r = AuthFeed(q, b)
    PROVE  /\ r \in Parsers /\ AuthKnows(r)
           /\ r.at # "ERROR" => AuthTaken(r) = Append(AuthTaken(q), b)
<1> DEFINE h == <<Version>>
<1>0. h \in Text
  BY ByteText DEF Version, Byte
<1>1. b \in Nat /\ b <= 255 /\ (b > 0 \/ b = 0) /\ q.left \in Nat /\ q.uname \in Text
      /\ q.passwd \in Text
  BY Bytes DEF Parsers
<1>p. {"ULEN", "UNAME", "PLEN", "PASSWD", "DONE", "ERROR"} \subseteq Places
  BY DEF Places
<1>2. CASE q.at = "VER"
  <2>1. r = [q EXCEPT !.at = IF b = Version THEN "ULEN" ELSE "ERROR"]
    BY <1>2 DEF AuthFeed
  <2>2. /\ r \in Parsers /\ r.at = (IF b = Version THEN "ULEN" ELSE "ERROR")
        /\ r.uname = q.uname /\ r.passwd = q.passwd
    BY <2>1 DEF Parsers, Places
  <2>3. AuthKnows(r)
    BY <1>2, <2>2 DEF AuthKnows
  <2>4. r.at # "ERROR" => r.at = "ULEN" /\ b = Version
    BY <2>2
  <2>5. r.at = "ULEN" => AuthTaken(r) = <<Version>>
    BY DEF AuthTaken, Behind
  <2>6. AuthTaken(q) = <<>> /\ Append(<<>>, b) = <<b>>
    BY <1>2 DEF AuthTaken
  <2> QED  BY <2>2, <2>3, <2>4, <2>5, <2>6
<1>3. CASE q.at = "ULEN"
  <2>1. r = Counted(q, b, "UNAME", "PLEN")
    BY <1>3 DEF AuthFeed
  <2>2. /\ r \in Parsers /\ r.left = b /\ r.at = (IF b = 0 THEN "PLEN" ELSE "UNAME")
        /\ r.uname = q.uname /\ r.passwd = q.passwd
    BY <1>p, <2>1 DEF Counted, Parsers
  <2>3. q.uname = <<>> /\ q.passwd = <<>>
    BY <1>3 DEF AuthKnows
  <2>4. Append(h, b) = h \o Field(<<>>, b) /\ Counts255(<<>>, b)
    BY <1>0, FieldBegins
  <2>5. AuthTaken(q) = h
    BY <1>3 DEF AuthTaken, Behind
  <2>6. AuthTaken(r) = h \o Field(r.uname, r.left)
    BY <2>2 DEF AuthTaken, Behind
  <2>7. AuthKnows(r)
    BY <1>1, <2>2, <2>3, <2>4 DEF AuthKnows
  <2> QED  BY <2>2, <2>3, <2>4, <2>5, <2>6, <2>7
<1>4. CASE q.at = "UNAME"
  <2>0. q.left > 0 /\ Counts255(q.uname, q.left) /\ q.passwd = <<>>
    BY <1>4 DEF AuthKnows
  <2>1. r = Kept(q, "uname", b, "PLEN")
    BY <1>4 DEF AuthFeed
  <2>2. /\ r \in Parsers /\ r.left = q.left - 1 /\ r.at = (IF q.left = 1 THEN "PLEN" ELSE "UNAME")
        /\ r.uname = Append(q.uname, b) /\ r.passwd = q.passwd
    BY <1>4, <2>0, <2>1, <1>p, KeptFields
  <2>3. /\ Append(h \o Field(q.uname, q.left), b) = h \o Field(Append(q.uname, b), q.left - 1)
        /\ Counts255(Append(q.uname, b), q.left - 1)
    BY <1>0, <1>1, <2>0, FieldGrows
  <2>4. AuthTaken(q) = h \o Field(q.uname, q.left)
    BY <1>4 DEF AuthTaken, Behind
  <2>5. AuthTaken(r) = h \o Field(r.uname, r.left)
    BY <2>2 DEF AuthTaken, Behind
  <2>6. AuthKnows(r)
    <3>1. CASE q.left = 1
      BY <2>0, <2>2, <2>3, <3>1 DEF AuthKnows
    <3>2. CASE q.left # 1
      BY <1>1, <2>0, <2>2, <2>3, <3>2 DEF AuthKnows
    <3> QED  BY <3>1, <3>2
  <2> QED  BY <2>2, <2>3, <2>4, <2>5, <2>6
<1>5. CASE q.at = "PLEN"
  <2>0. q.left = 0 /\ Counts255(q.uname, 0) /\ q.passwd = <<>>
    BY <1>5 DEF AuthKnows
  <2>1. r = Counted(q, b, "PASSWD", "DONE")
    BY <1>5 DEF AuthFeed
  <2>2. /\ r \in Parsers /\ r.left = b /\ r.at = (IF b = 0 THEN "DONE" ELSE "PASSWD")
        /\ r.uname = q.uname /\ r.passwd = q.passwd
    BY <1>p, <2>1 DEF Counted, Parsers
  <2> DEFINE g == h \o Field(q.uname, 0)
  <2>3. g \in Text
    <3>1. Field(q.uname, 0) \in Text
      BY <1>1, <2>0, FieldText
    <3> QED  BY <1>0, <3>1, TextsJoin
  <2>4. Append(g, b) = g \o Field(<<>>, b) /\ Counts255(<<>>, b)
    BY <2>3, FieldBegins
  <2>5. AuthTaken(q) = g
    BY <1>5, <2>0 DEF AuthTaken, Behind
  <2>6. AuthTaken(r) = g \o Field(r.passwd, r.left)
    BY <2>2 DEF AuthTaken, Behind
  <2>7. AuthKnows(r)
    BY <1>1, <2>0, <2>2, <2>4 DEF AuthKnows
  <2> HIDE DEF g
  <2> QED  BY <2>0, <2>2, <2>4, <2>5, <2>6, <2>7
<1>6. CASE q.at = "PASSWD"
  <2>0. q.left > 0 /\ Counts255(q.passwd, q.left) /\ Counts255(q.uname, 0)
    BY <1>6 DEF AuthKnows
  <2>1. r = Kept(q, "passwd", b, "DONE")
    BY <1>6 DEF AuthFeed
  <2>2. /\ r \in Parsers /\ r.left = q.left - 1 /\ r.at = (IF q.left = 1 THEN "DONE" ELSE "PASSWD")
        /\ r.passwd = Append(q.passwd, b) /\ r.uname = q.uname
    BY <1>6, <2>0, <2>1, <1>p, KeptFields
  <2> DEFINE g == h \o Field(q.uname, 0)
  <2>3. g \in Text
    <3>1. Field(q.uname, 0) \in Text
      BY <1>1, <2>0, FieldText
    <3> QED  BY <1>0, <3>1, TextsJoin
  <2>4. /\ Append(g \o Field(q.passwd, q.left), b) = g \o Field(Append(q.passwd, b), q.left - 1)
        /\ Counts255(Append(q.passwd, b), q.left - 1)
    BY <1>1, <2>0, <2>3, FieldGrows
  <2>5. AuthTaken(q) = g \o Field(q.passwd, q.left)
    BY <1>6 DEF AuthTaken, Behind
  <2>6. AuthTaken(r) = g \o Field(r.passwd, r.left)
    BY <2>2 DEF AuthTaken, Behind
  <2>7. AuthKnows(r)
    <3>1. CASE q.left = 1
      BY <2>0, <2>2, <2>4, <3>1 DEF AuthKnows
    <3>2. CASE q.left # 1
      BY <1>1, <2>0, <2>2, <2>4, <3>2 DEF AuthKnows
    <3> QED  BY <3>1, <3>2
  <2> HIDE DEF g
  <2> QED  BY <2>2, <2>4, <2>5, <2>6, <2>7
<1> QED  BY <1>2, <1>3, <1>4, <1>5, <1>6 DEF AuthKnows, Over

Known == {AddUser, DelUser, ListUsers, GetStats, SetTimeout, GetLog, Close}

(* The first byte of a command.                                            *)
LEMMA CommandByte ==
    ASSUME NEW q \in Parsers, CmdKnows(q), q.at = "CMD", NEW b \in Byte, NEW r, r = CmdFeed(q, b)
    PROVE  /\ r \in Parsers /\ CmdKnows(r)
           /\ CmdTaken(r) = Append(CmdTaken(q), b)
<1>0. q.uname = <<>> /\ q.passwd = <<>>
  BY DEF CmdKnows
<1>1. CmdTaken(q) = <<>> /\ Append(<<>>, b) = <<b>>
  BY DEF CmdTaken
<1>2. CASE b \in {AddUser, DelUser}
  <2>1. /\ r \in Parsers /\ r.at = "ULEN" /\ r.cmd = b
        /\ r.uname = q.uname /\ r.passwd = q.passwd
    <3>1. b # SetTimeout \/ 0 = 4
      BY <1>2 DEF AddUser, DelUser, SetTimeout, ListUsers, GetStats, GetLog, Close, Known
    <3>2. r = [q EXCEPT !.cmd = b, !.left = 0, !.at = "ULEN"]
      <4>1. CmdFeed(q, b) =
               [q EXCEPT !.cmd = b, !.left = IF b = SetTimeout THEN 4 ELSE 0,
                         !.at = CASE b \in {AddUser, DelUser} -> "ULEN"
                                  [] b = SetTimeout -> "TIMEOUT"
                                  [] b \in {ListUsers, GetStats, GetLog, Close} -> "DONE"
                                  [] OTHER -> "ERROR"]
        BY DEF CmdFeed
      <4>2. (IF b = SetTimeout THEN 4 ELSE 0) = 0
        BY <1>2, <3>1 DEF AddUser, DelUser, SetTimeout
      <4>3. (CASE b \in {AddUser, DelUser} -> "ULEN"
               [] b = SetTimeout -> "TIMEOUT"
               [] b \in {ListUsers, GetStats, GetLog, Close} -> "DONE"
               [] OTHER -> "ERROR") = "ULEN"
        BY <1>2 DEF AddUser, DelUser, SetTimeout, ListUsers, GetStats, GetLog, Close
      <4> QED  BY <4>1, <4>2, <4>3
    <3>3. 0 \in Byte /\ "ULEN" \in Places
      BY DEF Byte, Places
    <3> QED  BY <3>2, <3>3 DEF Parsers
  <2>2. CmdKnows(r)
    BY <1>0, <1>2, <2>1 DEF CmdKnows
  <2>3. CmdTaken(r) = <<b>>
    BY <2>1 DEF CmdTaken, Behind
  <2> QED  BY <1>1, <2>1, <2>2, <2>3
<1>3. CASE b = SetTimeout
  <2>1. /\ r \in Parsers /\ r.at = "TIMEOUT" /\ r.cmd = b /\ r.left = 4 /\ r.timeout = q.timeout
        /\ r.uname = q.uname /\ r.passwd = q.passwd
    <3>1. r = [q EXCEPT !.cmd = b, !.left = 4, !.at = "TIMEOUT"]
      BY <1>3 DEF CmdFeed, AddUser, DelUser, SetTimeout, ListUsers, GetStats, GetLog, Close
    <3>2. 4 \in Byte /\ "TIMEOUT" \in Places
      BY DEF Byte, Places
    <3> QED  BY <3>1, <3>2 DEF Parsers
  <2>2. CmdKnows(r)
    BY <1>0, <1>3, <2>1 DEF CmdKnows
  <2>3. CmdTaken(r) = <<b>>
    <3>1. r.timeout \in Nat /\ 4 - r.left = 0
      BY <2>1 DEF Parsers
    <3>2. BigEndian(r.timeout, 0) \in Text /\ Len(BigEndian(r.timeout, 0)) = 0
      BY <3>1, BigEndianBytes
    <3>3. BigEndian(r.timeout, 0) = <<>>
      BY <3>2, EmptySeq DEF Text
    <3>4. CmdTaken(r) = <<b>> \o <<>>
      BY <2>1, <3>1, <3>3 DEF CmdTaken
    <3> QED  BY <3>4, ByteText, ConcatEmptySeq DEF Text
  <2> QED  BY <1>1, <2>1, <2>2, <2>3
<1>4. CASE b \in {ListUsers, GetStats, GetLog, Close}
  <2>1. /\ r \in Parsers /\ r.at = "DONE" /\ r.cmd = b /\ r.left = 0
        /\ r.uname = q.uname /\ r.passwd = q.passwd
    <3>1. b # SetTimeout \/ 0 = 4
      BY <1>4 DEF AddUser, DelUser, SetTimeout, ListUsers, GetStats, GetLog, Close, Known
    <3>2. r = [q EXCEPT !.cmd = b, !.left = 0, !.at = "DONE"]
      BY <1>4, <3>1 DEF CmdFeed, AddUser, DelUser, SetTimeout, ListUsers, GetStats, GetLog,
                Close, Known
    <3>3. 0 \in Byte /\ "DONE" \in Places
      BY DEF Byte, Places
    <3> QED  BY <3>2, <3>3 DEF Parsers
  <2>2. CmdKnows(r)
    BY <1>0, <1>4, <2>1 DEF CmdKnows, AddUser, DelUser, SetTimeout, ListUsers,
                GetStats, GetLog, Close
  <2>3. CmdTaken(r) = <<b>>
    BY <1>4, <2>1 DEF CmdTaken, AddUser, DelUser, SetTimeout, ListUsers,
                GetStats, GetLog, Close
  <2> QED  BY <1>1, <2>1, <2>2, <2>3
<1>5. CASE b \notin Known
  <2>1. /\ r \in Parsers /\ r.at = "ERROR" /\ r.cmd = b /\ r.left = 0
        /\ r.uname = q.uname /\ r.passwd = q.passwd
    <3>1. b # SetTimeout \/ 0 = 4
      BY <1>5 DEF AddUser, DelUser, SetTimeout, ListUsers, GetStats, GetLog, Close, Known
    <3>2. r = [q EXCEPT !.cmd = b, !.left = 0, !.at = "ERROR"]
      BY <1>5, <3>1 DEF CmdFeed, AddUser, DelUser, SetTimeout, ListUsers, GetStats, GetLog,
                Close, Known
    <3>3. 0 \in Byte /\ "ERROR" \in Places
      BY DEF Byte, Places
    <3> QED  BY <3>2, <3>3 DEF Parsers
  <2>2. CmdKnows(r)
    BY <1>0, <1>5, <2>1 DEF CmdKnows, Known
  <2>3. CmdTaken(r) = <<b>>
    BY <1>5, <2>1 DEF CmdTaken
  <2> QED  BY <1>1, <2>1, <2>2, <2>3
<1> QED  BY <1>2, <1>3, <1>4, <1>5 DEF Known

(* What cmd_feed() knows after a byte, and that it has used it.            *)
LEMMA CmdStep ==
    ASSUME NEW q \in Parsers, CmdKnows(q), ~Over(q), NEW b \in Byte, NEW r, r = CmdFeed(q, b)
    PROVE  /\ r \in Parsers /\ CmdKnows(r)
           /\ CmdTaken(r) = Append(CmdTaken(q), b)
<1> DEFINE h == <<q.cmd>>
<1>0. h \in Text
  BY ByteText DEF Parsers
<1>1. /\ b \in Nat /\ b <= 255 /\ (b > 0 \/ b = 0) /\ q.left \in Nat
      /\ q.uname \in Text /\ q.passwd \in Text /\ q.timeout \in Nat
  BY Bytes DEF Parsers
<1>p. {"ULEN", "UNAME", "PLEN", "PASSWD", "DONE", "ERROR", "TIMEOUT"} \subseteq Places
  BY DEF Places
<1>a. AfterName(q) = (IF q.cmd = AddUser THEN "PLEN" ELSE "DONE") /\ AfterName(q) \in Places
  BY <1>p DEF AfterName
<1>3. CASE q.at = "ULEN"
  <2>1. r = Counted(q, b, "UNAME", AfterName(q))
    BY <1>3 DEF CmdFeed
  <2>2. /\ r \in Parsers /\ r.left = b /\ r.at = (IF b = 0 THEN AfterName(q) ELSE "UNAME")
        /\ r.uname = q.uname /\ r.passwd = q.passwd /\ r.cmd = q.cmd
    BY <1>p, <1>a, <2>1 DEF Counted, Parsers
  <2>3. q.uname = <<>> /\ q.passwd = <<>> /\ q.cmd \in {AddUser, DelUser}
    BY <1>3 DEF CmdKnows
  <2>4. Append(h, b) = h \o Field(<<>>, b) /\ Counts255(<<>>, b)
    BY <1>0, FieldBegins
  <2>5. CmdTaken(q) = h
    BY <1>3 DEF CmdTaken, Behind
  <2>6. CmdTaken(r) = h \o Field(r.uname, r.left)
    <3>1. CASE q.cmd = AddUser
      <4>1. r.at \in {"UNAME", "PLEN"}
        BY <1>a, <2>2, <3>1
      <4>2. CmdTaken(r) = Behind(<<r.cmd>>, r)
        BY <4>1 DEF CmdTaken
      <4> QED  BY <2>2, <4>1, <4>2 DEF Behind
    <3>2. CASE q.cmd = DelUser
      <4>1. r.at = "UNAME" \/ r.at = "DONE"
        BY <1>a, <2>2, <3>2 DEF AddUser, DelUser
      <4>2. CASE r.at = "UNAME"
        BY <2>2, <4>2 DEF CmdTaken, Behind
      <4>3. CASE r.at = "DONE"
        BY <2>2, <3>2, <4>3 DEF CmdTaken, AddUser, DelUser, SetTimeout
      <4> QED  BY <4>1, <4>2, <4>3
    <3> QED  BY <2>3, <3>1, <3>2
  <2>7. CmdKnows(r)
    BY <1>a, <1>1, <2>2, <2>3, <2>4 DEF CmdKnows, AddUser, DelUser
  <2> QED  BY <2>2, <2>3, <2>4, <2>5, <2>6, <2>7
<1>4. CASE q.at = "UNAME"
  <2>0. /\ q.left > 0 /\ Counts255(q.uname, q.left) /\ q.passwd = <<>>
        /\ q.cmd \in {AddUser, DelUser}
    BY <1>4 DEF CmdKnows
  <2>1. r = Kept(q, "uname", b, AfterName(q))
    BY <1>4 DEF CmdFeed
  <2>2. /\ r \in Parsers /\ r.left = q.left - 1
        /\ r.at = (IF q.left = 1 THEN AfterName(q) ELSE "UNAME")
        /\ r.uname = Append(q.uname, b) /\ r.passwd = q.passwd /\ r.cmd = q.cmd
    BY <1>4, <1>a, <2>0, <2>1, <1>p, KeptFields
  <2>3. /\ Append(h \o Field(q.uname, q.left), b) = h \o Field(Append(q.uname, b), q.left - 1)
        /\ Counts255(Append(q.uname, b), q.left - 1)
    <3>1. h \in Text /\ q.uname \in Text /\ q.left \in Nat /\ q.left > 0 /\ b \in Byte
          /\ Counts255(q.uname, q.left)
      BY <1>0, <1>1, <2>0
    <3> QED  BY ONLY <3>1, FieldGrows, Zenon
  <2>4. CmdTaken(q) = h \o Field(q.uname, q.left)
    BY <1>4 DEF CmdTaken, Behind
  <2>5. CmdTaken(r) = h \o Field(r.uname, r.left)
    <3>1. CASE q.cmd = AddUser
      <4>1. r.at \in {"UNAME", "PLEN"}
        BY <1>a, <2>2, <3>1
      <4>2. CmdTaken(r) = Behind(<<r.cmd>>, r)
        BY <4>1 DEF CmdTaken
      <4> QED  BY <2>2, <4>1, <4>2 DEF Behind
    <3>2. CASE q.cmd = DelUser
      <4>1. r.at = "UNAME" \/ r.at = "DONE"
        BY <1>a, <2>2, <3>2 DEF AddUser, DelUser
      <4>2. CASE r.at = "UNAME"
        BY <2>2, <4>2 DEF CmdTaken, Behind
      <4>3. CASE r.at = "DONE"
        BY <2>2, <3>2, <4>3 DEF CmdTaken, AddUser, DelUser, SetTimeout
      <4> QED  BY <4>1, <4>2, <4>3
    <3> QED  BY <2>0, <3>1, <3>2
  <2>6. CmdKnows(r)
    <3>1. CASE q.left = 1
      BY <1>a, <2>0, <2>2, <2>3, <3>1 DEF CmdKnows, AddUser, DelUser
    <3>2. CASE q.left # 1
      BY <1>1, <2>0, <2>2, <2>3, <3>2 DEF CmdKnows, AddUser, DelUser
    <3> QED  BY <3>1, <3>2
  <2> QED  BY <2>2, <2>3, <2>4, <2>5, <2>6
<1>5. CASE q.at = "PLEN"
  <2>0. q.left = 0 /\ Counts255(q.uname, 0) /\ q.passwd = <<>> /\ q.cmd = AddUser
    BY <1>5 DEF CmdKnows
  <2>1. r = Counted(q, b, "PASSWD", "DONE")
    BY <1>5 DEF CmdFeed
  <2>2. /\ r \in Parsers /\ r.left = b /\ r.at = (IF b = 0 THEN "DONE" ELSE "PASSWD")
        /\ r.uname = q.uname /\ r.passwd = q.passwd /\ r.cmd = q.cmd
    BY <1>p, <2>1 DEF Counted, Parsers
  <2> DEFINE g == h \o Field(q.uname, 0)
  <2>3. g \in Text
    <3>1. Field(q.uname, 0) \in Text
      BY <1>1, <2>0, FieldText
    <3> QED  BY <1>0, <3>1, TextsJoin
  <2>4. Append(g, b) = g \o Field(<<>>, b) /\ Counts255(<<>>, b)
    BY <2>3, FieldBegins
  <2>5. CmdTaken(q) = g
    BY <1>5, <2>0 DEF CmdTaken, Behind
  <2>6. CmdTaken(r) = g \o Field(r.passwd, r.left)
    <3>1. r.at \in {"PASSWD", "DONE"}
      BY <2>2
    <3>2. CmdTaken(r) = Behind(<<r.cmd>>, r)
      BY <2>0, <2>2, <3>1 DEF CmdTaken, AddUser, DelUser, SetTimeout
    <3> QED  BY <2>2, <3>1, <3>2 DEF Behind
  <2>7. CmdKnows(r)
    BY <1>1, <2>0, <2>2, <2>4 DEF CmdKnows, AddUser, DelUser
  <2> HIDE DEF g
  <2> QED  BY <2>0, <2>2, <2>4, <2>5, <2>6, <2>7
<1>6. CASE q.at = "PASSWD"
  <2>0. q.left > 0 /\ Counts255(q.passwd, q.left) /\ Counts255(q.uname, 0) /\ q.cmd = AddUser
    BY <1>6 DEF CmdKnows
  <2>1. r = Kept(q, "passwd", b, "DONE")
    BY <1>6 DEF CmdFeed
  <2>2. /\ r \in Parsers /\ r.left = q.left - 1 /\ r.at = (IF q.left = 1 THEN "DONE" ELSE "PASSWD")
        /\ r.passwd = Append(q.passwd, b) /\ r.uname = q.uname /\ r.cmd = q.cmd
    BY <1>6, <2>0, <2>1, <1>p, KeptFields
  <2> DEFINE g == h \o Field(q.uname, 0)
  <2>3. g \in Text
    <3>1. Field(q.uname, 0) \in Text
      BY <1>1, <2>0, FieldText
    <3> QED  BY <1>0, <3>1, TextsJoin
  <2>4. /\ Append(g \o Field(q.passwd, q.left), b) = g \o Field(Append(q.passwd, b), q.left - 1)
        /\ Counts255(Append(q.passwd, b), q.left - 1)
    BY <1>1, <2>0, <2>3, FieldGrows
  <2>5. CmdTaken(q) = g \o Field(q.passwd, q.left)
    BY <1>6 DEF CmdTaken, Behind
  <2>6. CmdTaken(r) = g \o Field(r.passwd, r.left)
    <3>1. r.at \in {"PASSWD", "DONE"}
      BY <2>2
    <3>2. CmdTaken(r) = Behind(<<r.cmd>>, r)
      BY <2>0, <2>2, <3>1 DEF CmdTaken, AddUser, DelUser, SetTimeout
    <3> QED  BY <2>2, <3>1, <3>2 DEF Behind
  <2>7. CmdKnows(r)
    <3>1. CASE q.left = 1
      BY <2>0, <2>2, <2>4, <3>1 DEF CmdKnows, AddUser, DelUser
    <3>2. CASE q.left # 1
      BY <1>1, <2>0, <2>2, <2>4, <3>2 DEF CmdKnows, AddUser, DelUser
    <3> QED  BY <3>1, <3>2
  <2> HIDE DEF g
  <2> QED  BY <2>2, <2>4, <2>5, <2>6, <2>7
<1>7. CASE q.at = "TIMEOUT"
  <2>0. q.left > 0 /\ q.left <= 4 /\ q.cmd = SetTimeout
    BY <1>7 DEF CmdKnows
  <2> DEFINE v == 256 * q.timeout + b  l == q.left - 1  a == IF q.left = 1 THEN "DONE" ELSE q.at
             n == 4 - q.left
  <2>1. r = [q EXCEPT !.timeout = v, !.left = l, !.at = a]
    BY <1>7 DEF CmdFeed
  <2>2. v \in Nat /\ l \in Byte /\ a \in Places /\ n \in Nat /\ 4 - l = n + 1 /\ l \in Nat /\ l <= 4
    BY <1>1, <1>7, <1>p, <2>0, Bytes
  <2>3. BigEndian(v, n + 1) = Append(BigEndian(q.timeout, n), b)
    <3> DEFINE x == q.timeout
    <3>1. x \in Nat /\ n \in Nat
      BY <1>1, <2>2
    <3> HIDE DEF n, x
    <3>2. OneByteMore(x, n, b)
      BY <3>1, BigEndianGrows
    <3> QED  BY <3>2 DEF x, OneByteMore
  <2> HIDE DEF v, l, a
  <2>4. /\ r \in Parsers /\ r.timeout = v /\ r.left = l /\ r.at = a /\ r.cmd = q.cmd
        /\ r.uname = q.uname /\ r.passwd = q.passwd
    BY <2>1, <2>2 DEF Parsers
  <2>5. BigEndian(q.timeout, n) \in Text
    BY <1>1, <2>2, BigEndianBytes
  <2>6. CmdTaken(q) = h \o BigEndian(q.timeout, n)
    BY <1>7 DEF CmdTaken
  <2>7. a = "TIMEOUT" \/ a = "DONE"
    BY <1>7 DEF a
  <2>8. CmdTaken(r) = h \o BigEndian(v, n + 1)
    <3>1. 4 - r.left = n + 1
      BY <2>2, <2>4
    <3> HIDE DEF n
    <3> QED  BY <2>0, <2>4, <2>7, <3>1 DEF CmdTaken, AddUser, DelUser, SetTimeout
  <2>9. h \o Append(BigEndian(q.timeout, n), b) = Append(h \o BigEndian(q.timeout, n), b)
    <3> DEFINE x == BigEndian(q.timeout, n)
    <3> HIDE DEF h, n, x
    <3>1. <<b>> \in Text /\ x \in Text
      BY <2>5, ByteText DEF x
    <3>2. Append(x, b) = x \o <<b>>
      BY <3>1, AppendIsConcat DEF Text
    <3>3. h \o (x \o <<b>>) = (h \o x) \o <<b>> /\ h \o x \in Text
      BY <1>0, <3>1, ConcatAssociative, ConcatProperties DEF Text
    <3>4. Append(h \o x, b) = (h \o x) \o <<b>>
      BY <3>3, AppendIsConcat DEF Text
    <3> QED  BY <3>2, <3>3, <3>4 DEF x
  <2>10. CmdKnows(r)
    <3>1. CASE q.left = 1
      BY <2>0, <2>2, <2>4, <3>1 DEF CmdKnows, AddUser, DelUser, SetTimeout, a, l
    <3>2. CASE q.left # 1
      <4>1. a = "TIMEOUT" /\ l > 0
        BY <1>1, <1>7, <2>0, <3>2 DEF a, l
      <4> QED  BY <2>0, <2>2, <2>4, <4>1 DEF CmdKnows, AddUser, DelUser, SetTimeout
    <3> QED  BY <3>1, <3>2
  <2> QED  BY <2>3, <2>4, <2>6, <2>8, <2>9, <2>10
<1>8. CASE q.at = "CMD"
  BY <1>8, CommandByte
<1> QED  BY <1>3, <1>4, <1>5, <1>6, <1>7, <1>8 DEF CmdKnows, Over

(* cmd_feed() reads a number of four bytes.                                *)
LEMMA TimeStep ==
    ASSUME NEW q \in Parsers, CmdKnows(q), TimeKnows(q), ~Over(q), NEW b \in Byte,
           NEW r, r = CmdFeed(q, b)
    PROVE  TimeKnows(r)
<1>0. q.timeout \in Nat /\ q.left \in Nat /\ b \in Nat
  BY Bytes DEF Parsers
<1>1. CASE q.at = "CMD"
  <2> DEFINE at == CASE b \in {AddUser, DelUser} -> "ULEN"
                     [] b = SetTimeout -> "TIMEOUT"
                     [] b \in {ListUsers, GetStats, GetLog, Close} -> "DONE"
                     [] OTHER -> "ERROR"
             left == IF b = SetTimeout THEN 4 ELSE 0
  <2>0. r = [q EXCEPT !.cmd = b, !.left = left, !.at = at] /\ q.timeout = 0
    BY <1>1 DEF CmdFeed, TimeKnows
  <2>1. /\ at \in {"ULEN", "TIMEOUT", "DONE", "ERROR"}
        /\ at = "TIMEOUT" => left = 4
        /\ at = "DONE" => b # SetTimeout
    BY DEF AddUser, DelUser, SetTimeout, ListUsers, GetStats, GetLog, Close
  <2> HIDE DEF at, left
  <2>2. r.timeout = 0 /\ r.at = at /\ r.cmd = b /\ r.left = left
    BY <2>0 DEF Parsers
  <2>4. FitsIn(0, 0)
    BY NothingFits
  <2>5. 4 - 4 = 0
    OBVIOUS
  <2> QED  BY <2>1, <2>2, <2>4, <2>5 DEF TimeKnows
<1>2. CASE q.at \in {"ULEN", "UNAME", "PLEN", "PASSWD"}
  <2>1. r.at \notin {"CMD", "TIMEOUT"} /\ (r.at = "DONE" => r.cmd # SetTimeout)
    <3>1. q.cmd \in {AddUser, DelUser}
      BY <1>2 DEF CmdKnows
    <3>2. r.cmd = q.cmd /\ r.at \in {"ULEN", "UNAME", "PLEN", "PASSWD", "DONE"}
      BY <1>2 DEF CmdFeed, Counted, Kept, AfterName, Parsers
    <3> QED  BY <3>1, <3>2 DEF AddUser, DelUser, SetTimeout
  <2> QED  BY <2>1 DEF TimeKnows
<1>3. CASE q.at = "TIMEOUT"
  <2> DEFINE v == 256 * q.timeout + b  n == 4 - q.left
  <2>1. q.left > 0 /\ q.left <= 4 /\ FitsIn(q.timeout, n)
    BY <1>3 DEF CmdKnows, TimeKnows
  <2>2. r.timeout = v /\ r.left = q.left - 1 /\ r.at = (IF q.left = 1 THEN "DONE" ELSE "TIMEOUT")
    BY <1>3 DEF CmdFeed, Parsers
  <2>3. FitsIn(v, n + 1)
    <3> DEFINE x == q.timeout
    <3>1. x \in Nat /\ n \in Nat
      BY <1>0, <2>1
    <3>2. FitsIn(x, n)
      BY <2>1
    <3> HIDE DEF n, x
    <3>3. OneByteMore(x, n, b)
      BY <3>1, BigEndianGrows
    <3> QED  BY <3>2, <3>3 DEF x, OneByteMore
  <2>4. r.at = "TIMEOUT" => 4 - r.left = n + 1
    BY <1>0, <2>1, <2>2
  <2>5. r.at = "DONE" => n + 1 = 4
    BY <1>0, <2>1, <2>2
  <2>6. r.at # "CMD"
    BY <2>2
  <2> HIDE DEF v, n
  <2> QED  BY <2>2, <2>3, <2>4, <2>5, <2>6 DEF TimeKnows
<1> QED  BY <1>1, <1>2, <1>3 DEF CmdKnows, Over

(* A message that is whole looks like the tables of doc/SPEC.md.           *)
LEMMA FieldIsSized ==
    ASSUME NEW s \in Text, Counts255(s, 0)
    PROVE  Field(s, 0) = Sized(s, 1)
<1>1. Len(s) \in Nat /\ Len(s) + 0 = Len(s)
  BY LenProperties DEF Text
<1>2. Len(s) \in Byte
  BY <1>1, Bytes DEF Counts255
<1> QED  BY <1>1, <1>2, OneByteOf DEF Field, Sized

(* What the parsers have used of a message that is whole.                  *)
LEMMA TakenIsEncoded ==
    ASSUME NEW q \in Parsers
    PROVE  /\ AuthKnows(q) /\ q.at = "DONE" => AuthTaken(q) = Handshake(q)
           /\ CmdKnows(q) /\ Over(q) => CmdTaken(q) = Encoded(q)
<1>0. q.uname \in Text /\ q.passwd \in Text
  BY DEF Parsers
<1>1. ASSUME AuthKnows(q), q.at = "DONE" PROVE AuthTaken(q) = Handshake(q)
  <2>1. Field(q.uname, 0) = Sized(q.uname, 1) /\ Field(q.passwd, 0) = Sized(q.passwd, 1)
        /\ q.left = 0
    BY <1>0, <1>1, FieldIsSized DEF AuthKnows
  <2> QED  BY <1>1, <2>1 DEF AuthTaken, Behind, Handshake
<1>2. ASSUME CmdKnows(q), q.at = "ERROR" PROVE CmdTaken(q) = Encoded(q)
  BY <1>2 DEF CmdKnows, CmdTaken, Encoded
<1>3. ASSUME CmdKnows(q), q.at = "DONE" PROVE CmdTaken(q) = Encoded(q)
  <2>1. q.left = 0 /\ q.cmd \in Known /\ 4 - 0 = 4
    BY <1>3 DEF CmdKnows, Known
  <2>2. CASE q.cmd = AddUser
    <3>1. Field(q.uname, 0) = Sized(q.uname, 1) /\ Field(q.passwd, 0) = Sized(q.passwd, 1)
      BY <1>0, <1>3, <2>1, <2>2, FieldIsSized DEF CmdKnows
    <3> QED  BY <1>3, <2>1, <2>2, <3>1 DEF CmdTaken, Behind, Encoded
  <2>3. CASE q.cmd = DelUser
    <3>1. Field(q.uname, 0) = Sized(q.uname, 1)
      BY <1>0, <1>3, <2>1, <2>3, FieldIsSized DEF CmdKnows
    <3> QED  BY <1>3, <2>1, <2>3, <3>1 DEF CmdTaken, Encoded, AddUser, DelUser
  <2>4. CASE q.cmd = SetTimeout
    BY <1>3, <2>1, <2>4 DEF CmdTaken, Encoded, AddUser, DelUser, SetTimeout
  <2>5. CASE q.cmd \notin {AddUser, DelUser, SetTimeout}
    BY <1>3, <2>5 DEF CmdTaken, Encoded
  <2> QED  BY <2>2, <2>3, <2>4, <2>5
<1> QED  BY <1>1, <1>2, <1>3 DEF Over

(* The loop of Parse on one byte.                                          *)
Step(state, acc, b) ==
    IF Over(acc.q) THEN acc ELSE [q |-> Feed(state, acc.q, b), used |-> acc.used + 1]

(* f is the recursive function by which the community modules define       *)
(* FoldLeft over a sequence: FoldLeft itself is the CHOICE of such a       *)
(* function.                                                               *)
IsFold(state, q, s, f, D) ==
    f = [t \in SUBSET D |->
            IF t = {} THEN [q |-> q, used |-> 0]
            ELSE Step(state, f[t \ {Max(t)}], s[Max(t)])]

(* Parse is that choice, at the whole sequence.                            *)
LEMMA ParseIsFold ==
    ASSUME NEW state, NEW q, NEW s
    PROVE  Parse(state, q, s) = (CHOOSE f : IsFold(state, q, s, f, DOMAIN s))[DOMAIN s]
BY DEF Parse, FoldLeft, MapThenFoldSet, IsFold, Step

(* The positions are folded from the greatest down.                        *)
LEMMA MaxOfSome ==
    ASSUME NEW k \in Nat, NEW t \in SUBSET (1 .. k), t # {}
    PROVE  Max(t) \in t /\ \A x \in t : x <= Max(t)
<1> DEFINE D == {k - x : x \in t}
<1>1. \A x \in t : x \in Nat /\ x <= k /\ k - x \in Nat
  OBVIOUS
<1>2. D \in SUBSET Nat /\ D # {}
  BY <1>1
<1>3. PICK d \in D : \A e \in D : d <= e
  BY <1>2, LeastNumber
<1>4. PICK x \in t : d = k - x
  BY <1>3
<1>5. \A y \in t : x >= y
  <2>1. ASSUME NEW y \in t PROVE x >= y
    <3>1. d <= k - y
      BY <1>3
    <3> QED  BY <1>1, <1>4, <3>1
  <2> QED  BY <2>1
<1>6. Max(t) \in t /\ \A y \in t : Max(t) >= y
  BY <1>5 DEF Max
<1> QED  BY <1>1, <1>6

(* There is such a function for every length, so that the choice is one.   *)
LEMMA FoldExists ==
    ASSUME NEW state, NEW q, NEW s, NEW m \in Nat
    PROVE  \E f : IsFold(state, q, s, f, 1 .. m)
<1> DEFINE S == {k \in Nat : \E f : IsFold(state, q, s, f, 1 .. k)}
<1>1. 0 \in S
  <2> DEFINE f == [t \in SUBSET (1 .. 0) |-> [q |-> q, used |-> 0]]
  <2>1. \A t \in SUBSET (1 .. 0) : t = {}
    OBVIOUS
  <2>2. IsFold(state, q, s, f, 1 .. 0)
    BY <2>1 DEF IsFold
  <2> QED  BY <2>2
<1>2. ASSUME NEW k \in S PROVE k + 1 \in S
  <2>1. PICK f : IsFold(state, q, s, f, 1 .. k)
    OBVIOUS
  <2> DEFINE g == [t \in SUBSET (1 .. k + 1) |->
                     IF t = {} THEN [q |-> q, used |-> 0]
                     ELSE Step(state, f[t \ {Max(t)}], s[Max(t)])]
  <2>2. ASSUME NEW t \in SUBSET (1 .. k + 1), t # {}
        PROVE  Max(t) \in t /\ t \ {Max(t)} \in SUBSET (1 .. k)
    <3>1. k \in Nat /\ k + 1 \in Nat
      OBVIOUS
    <3>2. Max(t) \in t /\ \A x \in t : x <= Max(t)
      BY <2>2, <3>1, MaxOfSome
    <3>3. \A x \in t : x \in Nat /\ 1 <= x /\ x <= k + 1
      OBVIOUS
    <3>4. ASSUME NEW x \in t \ {Max(t)} PROVE x \in 1 .. k
      <4>1. x \in Nat /\ 1 <= x /\ x <= Max(t) /\ x # Max(t) /\ Max(t) <= k + 1 /\ Max(t) \in Nat
        BY <3>2, <3>3
      <4> QED  BY <3>1, <4>1
    <3> QED  BY <3>2, <3>4
  <2>3. \A t \in SUBSET (1 .. k) : g[t] = f[t]
    <3>1. SUBSET (1 .. k) \subseteq SUBSET (1 .. k + 1)
      OBVIOUS
    <3>2. \A t \in SUBSET (1 .. k) : g[t] =
             IF t = {} THEN [q |-> q, used |-> 0]
             ELSE Step(state, f[t \ {Max(t)}], s[Max(t)])
      BY <3>1
    <3>3. \A t \in SUBSET (1 .. k) : f[t] =
             IF t = {} THEN [q |-> q, used |-> 0]
             ELSE Step(state, f[t \ {Max(t)}], s[Max(t)])
      BY <2>1 DEF IsFold
    <3> QED  BY <3>2, <3>3
  <2>4. IsFold(state, q, s, g, 1 .. k + 1)
    <3>1. \A t \in SUBSET (1 .. k + 1) : t # {} => g[t \ {Max(t)}] = f[t \ {Max(t)}]
      BY <2>2, <2>3
    <3> QED  BY <3>1 DEF IsFold
  <2> QED  BY <2>4
<1> HIDE DEF S
<1>3. S = Nat
  <2>1. S \in SUBSET Nat
    BY DEF S
  <2> QED  BY <1>1, <1>2, <2>1, CountingUp
<1> QED  BY <1>3 DEF S

(* run[k] is what acc is after k bytes of s.                               *)
IsRun(run, state, q, s, m) ==
    /\ run[0] = [q |-> q, used |-> 0]
    /\ \A k \in 1 .. m : run[k] = Step(state, run[k - 1], s[k])
    /\ Parse(state, q, s) = run[m]

(* The fold of Parse, unfolded: a run of Step over the bytes.              *)
LEMMA ParseRuns ==
    ASSUME NEW state, NEW q, NEW s, NEW m \in Nat, DOMAIN s = 1 .. m
    PROVE  \E run : IsRun(run, state, q, s, m)
<1> DEFINE F == CHOOSE f : IsFold(state, q, s, f, 1 .. m)
           run == [k \in 0 .. m |-> F[1 .. k]]
<1>1. IsFold(state, q, s, F, 1 .. m)
  BY FoldExists
<1>2. Parse(state, q, s) = F[1 .. m]
  BY ParseIsFold
<1> HIDE DEF F
<1>3. \A t \in SUBSET (1 .. m) : F[t] =
         IF t = {} THEN [q |-> q, used |-> 0] ELSE Step(state, F[t \ {Max(t)}], s[Max(t)])
  BY <1>1 DEF IsFold
<1>4. run[0] = [q |-> q, used |-> 0]
  <2>1. 1 .. 0 = {} /\ 0 \in 0 .. m
    OBVIOUS
  <2> QED  BY <1>3, <2>1
<1>5. ASSUME NEW k \in 1 .. m PROVE run[k] = Step(state, run[k - 1], s[k])
  <2>1. k \in Nat /\ (1 .. k) \in SUBSET (1 .. m) /\ 1 .. k # {} /\ k \in 0 .. m
        /\ k - 1 \in 0 .. m
    <3>1. k \in Nat /\ 1 <= k /\ k <= m /\ k \in 1 .. k
      OBVIOUS
    <3> QED  BY <3>1
  <2>2. Max(1 .. k) \in 1 .. k /\ \A x \in 1 .. k : x <= Max(1 .. k)
    BY <2>1, MaxOfSome
  <2>3. Max(1 .. k) = k
    BY <2>1, <2>2
  <2>4. (1 .. k) \ {k} = 1 .. (k - 1)
    BY <2>1
  <2>5. F[1 .. k] = Step(state, F[(1 .. k) \ {k}], s[k])
    BY <1>3, <2>1, <2>3
  <2> QED  BY <2>1, <2>4, <2>5
<1> HIDE DEF run
<1>6. Parse(state, q, s) = run[m]
  BY <1>2 DEF run
<1> QED  BY <1>4, <1>5, <1>6 DEF IsRun

-----------------------------------------------------------------------------
(* What has been used of a stream *)

(* What auth_feed() knows after the first u bytes of s; its message begins *)
(* the stream.                                                             *)
AuthSays(s, q, u) ==
    /\ q \in Parsers /\ AuthKnows(q) /\ u \in 0 .. Len(s)
    /\ q.at # "ERROR" => SubSeq(s, 1, u) = AuthTaken(q)

(* cmd_feed() has used the last bytes of the first u, behind the first a.  *)
CmdFrom(s, q, a, u) ==
    /\ q \in Parsers /\ CmdKnows(q) /\ TimeKnows(q)
    /\ u \in 0 .. Len(s) /\ a \in 0 .. u /\ SubSeq(s, a + 1, u) = CmdTaken(q)

CmdSays(s, q, u) == \E a \in Nat : CmdFrom(s, q, a, u)

Says(state, s, q, a, u) ==
    IF state = "AUTH_READ" THEN AuthSays(s, q, u) ELSE CmdFrom(s, q, a, u)

(* One byte more of a stream.                                              *)
LEMMA OneMore ==
    ASSUME NEW s \in Text, NEW a \in Nat, NEW u \in Nat, a <= u, u < Len(s)
    PROVE  SubSeq(s, a + 1, u + 1) = Append(SubSeq(s, a + 1, u), s[u + 1])
<1>1. Len(s) \in Nat
  BY LenProperties DEF Text
<1> DEFINE x == SubSeq(s, a + 1, u)  y == SubSeq(s, a + 1, u + 1)
<1>2. x \in Text /\ Len(x) = u - a /\ \A i \in 1 .. (u - a) : x[i] = s[a + i]
  BY <1>1, SubSeqProperties DEF Text
<1>3. y \in Text /\ Len(y) = (u - a) + 1 /\ \A i \in 1 .. ((u - a) + 1) : y[i] = s[a + i]
  BY <1>1, SubSeqProperties DEF Text
<1>4. s[u + 1] \in Byte
  BY <1>1, ElementOfSeq DEF Text
<1>5. /\ Append(x, s[u + 1]) \in Text /\ Len(Append(x, s[u + 1])) = Len(x) + 1
      /\ \A i \in 1 .. Len(x) : Append(x, s[u + 1])[i] = x[i]
      /\ Append(x, s[u + 1])[Len(x) + 1] = s[u + 1]
  BY <1>2, <1>4, AppendProperties DEF Text
<1>6. a + ((u - a) + 1) = u + 1
  OBVIOUS
<1> HIDE DEF x, y
<1>7. \A i \in 1 .. Len(y) : y[i] = Append(x, s[u + 1])[i]
  BY <1>2, <1>3, <1>5, <1>6
<1>8. y = Append(x, s[u + 1])
  BY <1>2, <1>3, <1>5, <1>7, SeqEqual DEF Text
<1> QED  BY <1>8 DEF x, y

(* The parser of the state, over one byte of the stream.                   *)
LEMMA SaysStep ==
    ASSUME NEW state, NEW s \in Text, NEW q, NEW a \in Nat, NEW u \in Nat, u < Len(s),
           Says(state, s, q, a, u), ~Over(q)
    PROVE  Says(state, s, Feed(state, q, s[u + 1]), a, u + 1)
<1> DEFINE r == Feed(state, q, s[u + 1])
<1>1. Len(s) \in Nat /\ s[u + 1] \in Byte /\ u + 1 \in 0 .. Len(s) /\ 0 + 1 = 1 /\ 0 <= u
  BY LenProperties, ElementOfSeq DEF Text
<1>2. CASE state = "AUTH_READ"
  <2>1. /\ q \in Parsers /\ AuthKnows(q) /\ q.at # "ERROR"
        /\ SubSeq(s, 1, u) = AuthTaken(q)
    BY <1>2 DEF Says, AuthSays, Over
  <2>2. r = AuthFeed(q, s[u + 1])
    BY <1>2 DEF Feed
  <2> HIDE DEF r
  <2>3. r \in Parsers /\ AuthKnows(r)
        /\ (r.at # "ERROR" => AuthTaken(r) = Append(AuthTaken(q), s[u + 1]))
    BY <1>1, <2>1, <2>2, AuthStep
  <2>4. SubSeq(s, 1, u + 1) = Append(SubSeq(s, 1, u), s[u + 1])
    <3>1. SubSeq(s, 0 + 1, u + 1) = Append(SubSeq(s, 0 + 1, u), s[u + 1])
      BY <1>1, OneMore
    <3> QED  BY <1>1, <3>1
  <2>5. AuthSays(s, r, u + 1)
    BY <1>1, <2>1, <2>3, <2>4 DEF AuthSays
  <2> QED  BY <1>2, <2>5 DEF Says, r
<1>3. CASE state # "AUTH_READ"
  <2>1. q \in Parsers /\ CmdKnows(q) /\ TimeKnows(q)
    BY <1>3 DEF Says, CmdFrom
  <2>2. a \in 0 .. u /\ SubSeq(s, a + 1, u) = CmdTaken(q)
    BY <1>3 DEF Says, CmdFrom
  <2>3. r = CmdFeed(q, s[u + 1])
    BY <1>3 DEF Feed
  <2> HIDE DEF r
  <2>4. r \in Parsers /\ CmdKnows(r) /\ CmdTaken(r) = Append(CmdTaken(q), s[u + 1])
    BY <1>1, <2>1, <2>3, CmdStep
  <2>5. a <= u /\ a \in 0 .. (u + 1)
    BY <2>2
  <2>6. SubSeq(s, a + 1, u + 1) = CmdTaken(r)
    BY <2>2, <2>4, <2>5, OneMore
  <2>8. TimeKnows(r)
    BY <1>1, <2>1, <2>3, TimeStep
  <2>7. CmdFrom(s, r, a, u + 1)
    BY <1>1, <2>4, <2>5, <2>6, <2>8 DEF CmdFrom
  <2> QED  BY <1>3, <2>7 DEF Says, r
<1> QED  BY <1>2, <1>3

(* A read handler on the n bytes behind the first u: it uses what its      *)
(* message needs of them, and all of them while the message goes on.       *)
LEMMA Parsed ==
    ASSUME NEW state, NEW s \in Text, NEW q, NEW a \in Nat, NEW u \in Nat, NEW n \in Nat,
           u + n <= Len(s), Says(state, s, q, a, u), NEW r, r = Parse(state, q, SubSeq(s, u + 1, u + n))
    PROVE  /\ r.used \in 0 .. n /\ Says(state, s, r.q, a, u + r.used)
           /\ ~Over(r.q) => r.used = n
<1> DEFINE b == SubSeq(s, u + 1, u + n)
<1>1. Len(s) \in Nat
  BY LenProperties DEF Text
<1>2. b \in Text /\ Len(b) = n /\ \A i \in 1 .. n : b[i] = s[u + i]
  <2>1. (u + n) - (u + 1) + 1 = n /\ \A i \in 1 .. n : (u + 1) + i - 1 = u + i
    OBVIOUS
  <2> QED  BY <1>1, <2>1, SubSeqProperties DEF Text
<1> HIDE DEF b
<1>3. DOMAIN b = 1 .. n
  BY <1>2, LenProperties DEF Text
<1>4. PICK run : IsRun(run, state, q, b, n)
  BY <1>3, ParseRuns
<1> DEFINE Good(k) == /\ run[k].used \in 0 .. k /\ Says(state, s, run[k].q, a, u + run[k].used)
                      /\ ~Over(run[k].q) => run[k].used = k
           S == {k \in Nat : k <= n => Good(k)}
<1>5. 0 \in S
  <2>1. run[0] = [q |-> q, used |-> 0]
    BY <1>4 DEF IsRun
  <2>2. run[0].q = q /\ run[0].used = 0 /\ u + 0 = u
    BY <2>1
  <2>3. Good(0)
    BY <2>2
  <2> QED  BY <2>3
<1>6. ASSUME NEW k \in S PROVE k + 1 \in S
  <2>1. SUFFICES ASSUME k + 1 <= n PROVE Good(k + 1)
    OBVIOUS
  <2>2. k \in Nat /\ Good(k) /\ k + 1 \in 1 .. n
    BY <2>1
  <2> DEFINE j == k + 1
  <2>3. j - 1 = k /\ j \in 1 .. n
    BY <2>2
  <2>4. run[j] = Step(state, run[j - 1], b[j])
    BY <1>4, <2>3 DEF IsRun
  <2> HIDE DEF S
  <2>5. run[j] = Step(state, run[k], b[j]) /\ b[j] = s[u + j]
    BY <1>2, <2>3, <2>4
  <2>6. CASE Over(run[k].q)
    <3>1. run[j] = run[k]
      BY <2>5, <2>6 DEF Step
    <3>2. run[k].used \in 0 .. j
      BY <2>2
    <3> HIDE DEF j
    <3> QED  BY <2>2, <2>6, <3>1, <3>2 DEF j
  <2>7. CASE ~Over(run[k].q)
    <3>1. run[k].used = k /\ Says(state, s, run[k].q, a, u + k)
      BY <2>2, <2>7
    <3>2. /\ run[j].q = Feed(state, run[k].q, b[j]) /\ run[j].used = k + 1
      BY <2>5, <2>7, <3>1 DEF Step
    <3>3. u + k \in Nat /\ u + k < Len(s) /\ (u + k) + 1 = u + j
      BY <1>1, <2>1, <2>2
    <3>4. Says(state, s, Feed(state, run[k].q, s[(u + k) + 1]), a, (u + k) + 1)
      BY <2>7, <3>1, <3>3, SaysStep
    <3>5. Says(state, s, run[j].q, a, u + j) /\ run[j].used = j /\ j \in 0 .. j
      BY <2>2, <2>5, <3>2, <3>3, <3>4
    <3> QED  BY <3>5
  <2> QED  BY <2>6, <2>7
<1>7. S = Nat
  <2>1. S \in SUBSET Nat
    OBVIOUS
  <2> HIDE DEF S
  <2> QED  BY <1>5, <1>6, <2>1, CountingUp
<1>8. Good(n)
  BY <1>7
<1>9. r = run[n]
  BY <1>4 DEF IsRun, b
<1> QED  BY <1>8, <1>9

-----------------------------------------------------------------------------
(* The invariant *)

States == ReadStates \cup WriteStates \cup {"OUTSIDE", "BACKLOG", "CLOSED"}

(* What is remembered of a command that was executed.                      *)
Turns == [q : Parsers, users : T!Tables, world : Worlds]

Types ==
    /\ users \in T!Tables /\ timeout \in Nat /\ world \in Worlds /\ closing \in BOOLEAN
    /\ said \in [Peers -> Text] /\ fin \in [Peers -> BOOLEAN] /\ got \in [Peers -> Text]
    /\ taken \in [Peers -> Nat] /\ rbuf \in [Peers -> Text] /\ wbuf \in [Peers -> Text]
    /\ stm \in [Peers -> States] /\ p \in [Peers -> Parsers]
    /\ authenticated \in [Peers -> BOOLEAN] /\ closeAfter \in [Peers -> BOOLEAN]
    /\ shuttingDown \in [Peers -> BOOLEAN]
    /\ did \in [Peers -> Seq(Turns)]
    /\ answers \in [Peers -> Seq(Text)] /\ failed \subseteq Peers

(* A session that is not there yet is a zeroed structure.                  *)
Fresh(c) ==
    stm[c] \in {"OUTSIDE", "BACKLOG"} =>
        /\ taken[c] = 0 /\ rbuf[c] = <<>> /\ wbuf[c] = <<>> /\ p[c] = Zeroed("VER")
        /\ got[c] = <<>> /\ did[c] = <<>> /\ answers[c] = <<>>
        /\ ~authenticated[c]

(* The buffers, and whether the parser has a message.                      *)
Stocked(c) ==
    /\ taken[c] <= Len(said[c]) /\ Len(rbuf[c]) <= taken[c]
    /\ Len(rbuf[c]) <= ReadSize /\ Len(wbuf[c]) <= AnswerSize
    /\ stm[c] \in ReadStates => rbuf[c] = <<>> /\ wbuf[c] = <<>> /\ ~Over(p[c])
    /\ stm[c] \in WriteStates => wbuf[c] # <<>> /\ Over(p[c])

(* The parser is where the bytes used of the stream leave it.              *)
Heard(c) ==
    /\ stm[c] \in {"AUTH_READ", "AUTH_WRITE"} => AuthSays(said[c], p[c], Used(c))
    /\ stm[c] \in {"CMD_READ", "RESP_WRITE"} => CmdSays(said[c], p[c], Used(c))

(* The answers are what the peer got and what is still to send.            *)
Sent(c) ==
    /\ c \in failed => stm[c] = "CLOSED" /\ IsPrefix(got[c], Answered(c))
    /\ c \notin failed => Answered(c) = got[c] \o wbuf[c]
    /\ c \notin failed /\ c \notin Active => wbuf[c] = <<>>

(* The first bytes of s are the credential of -A.                          *)
Credentialed(s) ==
    LET plen == 3 + s[2]
    IN  /\ Len(s) >= 2 /\ plen <= Len(s) /\ plen + s[plen] <= Len(s)
        /\ s[1] = Version
        /\ [name |-> CString(SubSeq(s, 3, plen - 1)),
            pass |-> CString(SubSeq(s, plen + 1, plen + s[plen]))] \in Admins

(* Who is past the handshake has been let in.                              *)
Admits(c) ==
    /\ authenticated[c] => Credentialed(said[c])
    /\ stm[c] = "AUTH_READ" => answers[c] = <<>> /\ did[c] = <<>> /\ ~authenticated[c]
    /\ stm[c] = "AUTH_WRITE" => did[c] = <<>>
    /\ stm[c] = "AUTH_WRITE" /\ authenticated[c] => answers[c] = << <<Version, AuthOK>> >>
    /\ stm[c] \in {"CMD_READ", "RESP_WRITE"} \/ did[c] # <<>> =>
          /\ authenticated[c]
          /\ Len(got[c]) >= 2 /\ SubSeq(got[c], 1, 2) = <<Version, AuthOK>>

(* After the signal a session is there only for the answer it sends.       *)
Quiet(c) ==
    closing =>
        /\ stm[c] \notin ReadStates \cup {"BACKLOG"}
        /\ stm[c] \in WriteStates => shuttingDown[c]

PeerOK(c) == Fresh(c) /\ Stocked(c) /\ Heard(c) /\ Sent(c) /\ Admits(c) /\ Quiet(c)

Inv == Types /\ \A c \in Peers : PeerOK(c)

Asks == {"add-user", "del-user", "users", "stats", "set-timeout", "log", "unknown"}

(* The clients only speak as their command line says.                      *)
ClientTypes ==
    /\ task \in Casts
    /\ cpc \in [Peers -> {"start", "auth", "answer", "bye", "exit"}]
    /\ \A c \in Peers : cpc[c] # "exit" => task[c].do \in Asks

IInv == Inv /\ ClientTypes

-----------------------------------------------------------------------------
(* The table, and what is a C string *)

(* A search that can succeed returns a slot it looked for.                 *)
LEMMA FirstIsMember ==
    ASSUME NEW S \in SUBSET Nat, S # {}
    PROVE  T!First(S) \in S /\ \A j \in S : T!First(S) <= j
<1>1. PICK x \in S : \A y \in S : x <= y
  BY LeastNumber
<1> QED  BY <1>1 DEF T!First

(* The commands leave a table.                                             *)
LEMMA TablesStay ==
    ASSUME NEW t \in T!Tables
    PROVE  /\ \A a \in T!Accounts : T!Added(t, a) \in T!Tables
           /\ \A n : T!Deleted(t, n) \in T!Tables
<1>0. T!Slots \subseteq Nat
  BY UsersAssumption DEF T!Slots
<1>1. ASSUME NEW a \in T!Accounts PROVE T!Added(t, a) \in T!Tables
  <2>1. CASE T!Named(t, a.name) # {} \/ T!InUse(t) = T!Slots
    BY <2>1 DEF T!Added
  <2>2. CASE T!Named(t, a.name) = {} /\ T!InUse(t) # T!Slots
    <3>1. T!Slots \ T!InUse(t) # {} /\ T!Slots \ T!InUse(t) \subseteq Nat
      BY <1>0, <2>2 DEF T!InUse
    <3>2. T!First(T!Slots \ T!InUse(t)) \in T!Slots
      BY <3>1, FirstIsMember
    <3> QED  BY <2>2, <3>2 DEF T!Added, T!Tables
  <2> QED  BY <2>1, <2>2
<1>2. ASSUME NEW n PROVE T!Deleted(t, n) \in T!Tables
  <2>1. CASE T!Named(t, n) = {}
    BY <2>1 DEF T!Deleted
  <2>2. CASE T!Named(t, n) # {}
    <3>1. T!Named(t, n) \subseteq T!Slots
      BY DEF T!Named, T!InUse
    <3>2. T!First(T!Named(t, n)) \in T!Slots
      BY <1>0, <2>2, <3>1, FirstIsMember
    <3> QED  BY <2>2, <3>2 DEF T!Deleted, T!Tables
  <2> QED  BY <2>1, <2>2
<1> QED  BY <1>1, <1>2

(* A byte that does not end a string.                                      *)
LEMMA NotNul == \A b \in Byte : b # 0 => b \in 1 .. 255
BY DEF Byte

(* A string ends at its first NUL.                                         *)
LEMMA CStringEnds ==
    ASSUME NEW s \in Text, Len(s) <= 255
    PROVE  CString(s) \in CStrings
<1>0. Len(s) \in Nat /\ s \in [1 .. Len(s) -> Byte] /\ DOMAIN s = 1 .. Len(s)
  BY LenProperties DEF Text
<1> DEFINE nul == {i \in DOMAIN s : s[i] = 0}
<1>1. CASE nul = {}
  <2>1. \A i \in 1 .. Len(s) : s[i] \in 1 .. 255
    <3>1. ASSUME NEW i \in 1 .. Len(s) PROVE s[i] \in 1 .. 255
      <4>1. s[i] \in Byte /\ s[i] # 0
        BY <1>0, <1>1
      <4> QED  BY <4>1, NotNul
    <3> QED  BY <3>1
  <2>2. s \in Seq(1 .. 255)
    BY <1>0, <2>1, IsASeq
  <2> QED  BY <1>1, <2>2 DEF CString, CStrings
<1>2. CASE nul # {}
  <2> DEFINE e == T!First(nul)
  <2>1. nul \in SUBSET Nat /\ nul \subseteq 1 .. Len(s)
    BY <1>0
  <2>2. e \in 1 .. Len(s) /\ \A j \in nul : e <= j
    BY <1>2, <2>1, FirstIsMember
  <2>3. CString(s) = SubSeq(s, 1, e - 1)
    BY <1>2 DEF CString
  <2> HIDE DEF e
  <2>4. e - 1 \in 0 .. Len(s) /\ (e - 1) - 1 + 1 = e - 1 /\ \A i \in 1 .. (e - 1) : 1 + i - 1 = i
    BY <1>0, <2>2
  <2>5. /\ SubSeq(s, 1, e - 1) \in Text /\ Len(SubSeq(s, 1, e - 1)) = e - 1
        /\ \A i \in 1 .. (e - 1) : SubSeq(s, 1, e - 1)[i] = s[i]
    BY <1>0, <2>2, <2>4, SubSeqProperties DEF Text
  <2>6. \A i \in 1 .. (e - 1) : s[i] \in 1 .. 255
    <3>1. ASSUME NEW i \in 1 .. (e - 1) PROVE s[i] \in 1 .. 255
      <4>1. i \in 1 .. Len(s) /\ ~(e <= i)
        BY <1>0, <2>2
      <4>2. s[i] # 0
        BY <1>0, <2>2, <4>1
      <4>3. s[i] \in Byte
        BY <1>0, <4>1
      <4> QED  BY <4>2, <4>3, NotNul
    <3> QED  BY <3>1
  <2>7. SubSeq(s, 1, e - 1) \in Seq(1 .. 255)
    <3>1. 1 \in Int /\ e - 1 \in Int
      BY <2>2
    <3> QED  BY <2>6, <3>1, SubSeqProperties
  <2>8. Len(SubSeq(s, 1, e - 1)) <= 255
    BY <1>0, <2>2, <2>5
  <2> QED  BY <2>3, <2>7, <2>8 DEF CStrings
<1> QED  BY <1>1, <1>2

(* What exec_command() does keeps the table.                               *)
LEMMA ExecutedTable ==
    ASSUME NEW t \in T!Tables, NEW q \in Parsers, CmdKnows(q), q.at = "DONE"
    PROVE  /\ q.cmd = AddUser => T!Added(t, Account(q)) \in T!Tables
           /\ T!Deleted(t, CString(q.uname)) \in T!Tables
<1>1. ASSUME q.cmd = AddUser PROVE T!Added(t, Account(q)) \in T!Tables
  <2>1. Counts255(q.uname, 0) /\ Counts255(q.passwd, q.left) /\ q.left = 0
    BY <1>1 DEF CmdKnows
  <2>2. /\ q.uname \in Text /\ q.passwd \in Text
        /\ Len(q.uname) <= 255 /\ Len(q.passwd) <= 255
    BY <2>1, LenProperties DEF Counts255, Parsers, Text
  <2>3. CString(q.uname) \in CStrings /\ CString(q.passwd) \in CStrings
    BY <2>2, CStringEnds
  <2>4. Account(q) \in T!Accounts
    BY <2>3 DEF Account, T!Accounts
  <2> QED  BY <2>4, TablesStay
<1> QED  BY <1>1, TablesStay

(* The bytes of two texts put together.                                    *)
LEMMA JoinedBytes ==
    ASSUME NEW s \in Text, NEW t \in Text
    PROVE  /\ \A i \in 1 .. Len(s) : (s \o t)[i] = s[i]
           /\ \A i \in 1 .. Len(t) : (s \o t)[Len(s) + i] = t[i]
<1>1. Len(s) \in Nat /\ Len(t) \in Nat
  BY LenProperties DEF Text
<1>2. \A i \in 1 .. Len(s) + Len(t) :
         (s \o t)[i] = IF i <= Len(s) THEN s[i] ELSE t[i - Len(s)]
  BY ConcatProperties DEF Text
<1>3. ASSUME NEW i \in 1 .. Len(t) PROVE (s \o t)[Len(s) + i] = t[i]
  <2> DEFINE j == Len(s) + i
  <2>1. j \in 1 .. Len(s) + Len(t) /\ ~(j <= Len(s)) /\ j - Len(s) = i
    BY <1>1
  <2> HIDE DEF j
  <2>2. (s \o t)[j] = t[i]
    BY <1>2, <2>1
  <2> QED  BY <2>2 DEF j
<1>4. ASSUME NEW i \in 1 .. Len(s) PROVE (s \o t)[i] = s[i]
  BY <1>1, <1>2
<1> QED  BY <1>3, <1>4

(* The length byte, and the bytes behind it.                               *)
LEMMA FieldAt ==
    ASSUME NEW s \in Text, Counts255(s, 0)
    PROVE  /\ Field(s, 0) \in Text /\ Len(Field(s, 0)) = 1 + Len(s) /\ Len(s) \in Nat
           /\ Field(s, 0)[1] = Len(s)
           /\ \A i \in 1 .. Len(s) : Field(s, 0)[1 + i] = s[i]
<1>1. Field(s, 0) \in Text /\ Len(Field(s, 0)) = 1 + Len(s)
  BY FieldText
<1>2. Len(s) \in Nat /\ Len(s) + 0 = Len(s)
  BY LenProperties DEF Text
<1>3. Len(s) \in Byte
  BY <1>2, Bytes DEF Counts255
<1> DEFINE l == <<Len(s)>>
<1>4. l \in Text /\ Len(l) = 1 /\ l[1] = Len(s)
  BY <1>3, ByteText
<1>5. Field(s, 0) = l \o s
  BY <1>2 DEF Field
<1> HIDE DEF l
<1>6. /\ \A i \in 1 .. Len(l) : (l \o s)[i] = l[i]
      /\ \A i \in 1 .. Len(s) : (l \o s)[Len(l) + i] = s[i]
  BY <1>4, JoinedBytes
<1> QED  BY <1>1, <1>2, <1>4, <1>5, <1>6

(* A part of a stream, by its bytes.                                       *)
LEMMA PartIs ==
    ASSUME NEW s \in Text, NEW a \in Nat, NEW t \in Text, a + Len(t) <= Len(s),
           \A i \in 1 .. Len(t) : s[a + i] = t[i]
    PROVE  SubSeq(s, a + 1, a + Len(t)) = t
<1> DEFINE x == SubSeq(s, a + 1, a + Len(t))
<1>1. Len(s) \in Nat /\ Len(t) \in Nat
  BY LenProperties DEF Text
<1>2. x \in Text /\ Len(x) = Len(t) /\ \A i \in 1 .. Len(t) : x[i] = s[a + i]
  <2>1. (a + Len(t)) - (a + 1) + 1 = Len(t) /\ \A i \in 1 .. Len(t) : (a + 1) + i - 1 = a + i
    BY <1>1
  <2> QED  BY <1>1, <2>1, SubSeqProperties DEF Text
<1> HIDE DEF x
<1>3. x = t
  BY <1>2, SeqEqual DEF Text
<1> QED  BY <1>3 DEF x

(* What the handshake admits is what the stream begins with.               *)
LEMMA AdmittedStream ==
    ASSUME NEW s \in Text, NEW q, NEW u, AuthSays(s, q, u), q.at = "DONE", Admitted(q)
    PROVE  Credentialed(s)
<1> DEFINE n == q.uname  w == q.passwd  h == <<Version>>
<1>1. /\ q \in Parsers /\ AuthKnows(q) /\ u \in Nat /\ u <= Len(s) /\ Len(s) \in Nat
      /\ SubSeq(s, 1, u) = AuthTaken(q)
  BY LenProperties DEF AuthSays, Text
<1>2. n \in Text /\ w \in Text /\ Counts255(n, 0) /\ Counts255(w, 0) /\ q.left = 0
  BY <1>1 DEF AuthKnows, Parsers
<1>3. h \in Text /\ Len(h) = 1 /\ h[1] = Version
  BY ByteText DEF Version, Byte
<1>4. AuthTaken(q) = (h \o Field(n, 0)) \o Field(w, 0)
  BY <1>2 DEF AuthTaken, Behind
<1>5. [name |-> CString(n), pass |-> CString(w)] \in Admins
  BY DEF Admitted, Account
<1> HIDE DEF n, w, h
<1> DEFINE f == Field(n, 0)  g == Field(w, 0)
<1>6. /\ f \in Text /\ Len(f) = 1 + Len(n) /\ Len(n) \in Nat /\ f[1] = Len(n)
      /\ \A i \in 1 .. Len(n) : f[1 + i] = n[i]
  BY <1>2, FieldAt
<1>7. /\ g \in Text /\ Len(g) = 1 + Len(w) /\ Len(w) \in Nat /\ g[1] = Len(w)
      /\ \A i \in 1 .. Len(w) : g[1 + i] = w[i]
  BY <1>2, FieldAt
<1> HIDE DEF f, g
<1> DEFINE a == h \o f  x == a \o g
<1>8. /\ a \in Text /\ Len(a) = 2 + Len(n) /\ a[1] = Version
      /\ \A i \in 1 .. Len(f) : a[1 + i] = f[i]
  <2>1. a \in Text /\ Len(a) = 1 + Len(f)
    BY <1>3, <1>6, TextsJoin
  <2>2. \A i \in 1 .. Len(h) : a[i] = h[i]
    BY <1>3, <1>6, JoinedBytes
  <2>3. \A i \in 1 .. Len(f) : a[Len(h) + i] = f[i]
    BY <1>3, <1>6, JoinedBytes
  <2> QED  BY <1>3, <1>6, <2>1, <2>2, <2>3
<1>9. x \in Text /\ Len(x) = 3 + Len(n) + Len(w)
  <2> HIDE DEF a
  <2>1. a \o g \in Text /\ Len(a \o g) = Len(a) + Len(g)
    BY <1>7, <1>8, TextsJoin
  <2>2. (2 + Len(n)) + (1 + Len(w)) = 3 + Len(n) + Len(w)
    BY <1>6, <1>7
  <2> QED  BY <1>7, <1>8, <2>1, <2>2
<1>10. \A i \in 1 .. 2 + Len(n) : x[i] = a[i]
  BY <1>7, <1>8, JoinedBytes
<1>11. \A i \in 1 .. Len(g) : x[(2 + Len(n)) + i] = g[i]
  <2> HIDE DEF a
  <2>1. \A i \in 1 .. Len(g) : (a \o g)[Len(a) + i] = g[i]
    BY <1>7, <1>8, JoinedBytes
  <2> QED  BY <1>8, <2>1
<1>12. SubSeq(s, 1, u) = x
  BY <1>1, <1>4 DEF f, g
<1> HIDE DEF a, x
<1>13. u = 3 + Len(n) + Len(w) /\ \A i \in 1 .. u : s[i] = x[i]
  <2>1. u - 1 + 1 = u /\ \A i \in 1 .. u : 1 + i - 1 = i
    BY <1>1
  <2>2. Len(SubSeq(s, 1, u)) = u /\ \A i \in 1 .. u : SubSeq(s, 1, u)[i] = s[i]
    <3>1. \A i \in 1 .. u : s[i] \in Byte
      BY <1>1, ElementOfSeq DEF Text
    <3>2. /\ Len(SubSeq(s, 1, u)) = IF 1 <= u THEN u - 1 + 1 ELSE 0
          /\ \A i \in 1 .. u - 1 + 1 : SubSeq(s, 1, u)[i] = s[1 + i - 1]
      BY <1>1, <3>1, SubSeqProperties
    <3> QED  BY <1>1, <2>1, <3>2
  <2> QED  BY <1>9, <1>12, <2>2
<1>14. s[1] = Version /\ s[2] = Len(n)
  <2>1. 1 \in 1 .. u /\ 2 \in 1 .. u /\ 1 \in 1 .. 2 + Len(n) /\ 2 \in 1 .. 2 + Len(n)
        /\ 1 \in 1 .. Len(f)
    BY <1>6, <1>7, <1>13
  <2>2. a[1 + 1] = f[1]
    BY <1>8, <2>1
  <2> QED  BY <1>6, <1>8, <1>10, <1>13, <2>1, <2>2
<1> DEFINE plen == 3 + s[2]
<1>15. plen = 3 + Len(n) /\ s[plen] = Len(w)
  <2>1. 1 \in 1 .. Len(g) /\ (2 + Len(n)) + 1 = 3 + Len(n) /\ 3 + Len(n) \in 1 .. u
    BY <1>6, <1>7, <1>13
  <2>2. x[(2 + Len(n)) + 1] = g[1]
    BY <1>11, <2>1
  <2> QED  BY <1>7, <1>13, <1>14, <2>1, <2>2
<1>16. SubSeq(s, 2 + 1, 2 + Len(n)) = n
  <2>1. ASSUME NEW i \in 1 .. Len(n) PROVE s[2 + i] = n[i]
    <3>1. 2 + i \in 1 .. u /\ 2 + i \in 1 .. 2 + Len(n) /\ 1 + i \in 1 .. Len(f)
          /\ 1 + (1 + i) = 2 + i
      BY <1>6, <1>7, <1>13
    <3>2. a[1 + (1 + i)] = f[1 + i]
      BY <1>8, <3>1
    <3> QED  BY <1>6, <1>10, <1>13, <3>1, <3>2
  <2>2. 2 + Len(n) <= Len(s) /\ 2 \in Nat
    BY <1>1, <1>6, <1>7, <1>13
  <2> QED  BY <1>2, <2>1, <2>2, PartIs
<1>17. SubSeq(s, (3 + Len(n)) + 1, (3 + Len(n)) + Len(w)) = w
  <2>1. ASSUME NEW i \in 1 .. Len(w) PROVE s[(3 + Len(n)) + i] = w[i]
    <3>1. (3 + Len(n)) + i \in 1 .. u /\ 1 + i \in 1 .. Len(g)
          /\ (2 + Len(n)) + (1 + i) = (3 + Len(n)) + i
      BY <1>6, <1>7, <1>13
    <3>2. x[(2 + Len(n)) + (1 + i)] = g[1 + i]
      BY <1>11, <3>1
    <3> QED  BY <1>7, <1>13, <3>1, <3>2
  <2>2. (3 + Len(n)) + Len(w) <= Len(s) /\ 3 + Len(n) \in Nat
    BY <1>1, <1>6, <1>7, <1>13
  <2> QED  BY <1>2, <2>1, <2>2, PartIs
<1>18. /\ SubSeq(s, 3, plen - 1) = n /\ SubSeq(s, plen + 1, plen + s[plen]) = w
       /\ Len(s) >= 2 /\ plen <= Len(s) /\ plen + s[plen] <= Len(s)
  <2>1. plen - 1 = 2 + Len(n) /\ 2 + 1 = 3
    BY <1>6, <1>15
  <2>2. Len(s) >= 2 /\ plen <= Len(s) /\ plen + s[plen] <= Len(s)
    BY <1>1, <1>6, <1>7, <1>13, <1>15
  <2> QED  BY <1>15, <1>16, <1>17, <2>1, <2>2
<1> QED  BY <1>5, <1>14, <1>18 DEF Credentialed

(* What a longer stream leaves as it is.                                   *)
LEMMA StreamGrows ==
    ASSUME NEW s \in Text, NEW m \in Text, NEW a \in Nat, NEW u \in Nat, u <= Len(s)
    PROVE  /\ s \o m \in Text /\ Len(s) <= Len(s \o m) /\ Len(s) \in Nat /\ Len(s \o m) \in Nat
           /\ \A i \in 1 .. Len(s) : (s \o m)[i] = s[i]
           /\ SubSeq(s \o m, a + 1, u) = SubSeq(s, a + 1, u)
<1>1. s \o m \in Text /\ Len(s) <= Len(s \o m) /\ Len(s) \in Nat /\ Len(s \o m) \in Nat
  <2>1. s \o m \in Text /\ Len(s \o m) = Len(s) + Len(m)
    BY TextsJoin
  <2>2. Len(s) \in Nat /\ Len(m) \in Nat
    BY LenProperties DEF Text
  <2> QED  BY <2>1, <2>2
<1>2. \A i \in 1 .. Len(s) : (s \o m)[i] = s[i]
  BY JoinedBytes
<1> DEFINE t == s \o m
<1> HIDE DEF t
<1>3. \A i \in a + 1 .. u : t[i] = s[i] /\ s[i] \in Byte
  <2>1. ASSUME NEW i \in a + 1 .. u PROVE i \in 1 .. Len(s)
    BY <1>1
  <2> QED  BY <1>2, <2>1, ElementOfSeq DEF Text, t
<1>4. SubSeq(t, a + 1, u) = SubSeq(s, a + 1, u)
  <2>1. /\ SubSeq(s, a + 1, u) \in Seq(Byte) /\ SubSeq(t, a + 1, u) \in Seq(Byte)
        /\ Len(SubSeq(s, a + 1, u)) = IF a + 1 <= u THEN u - (a + 1) + 1 ELSE 0
        /\ Len(SubSeq(t, a + 1, u)) = IF a + 1 <= u THEN u - (a + 1) + 1 ELSE 0
        /\ \A i \in 1 .. u - (a + 1) + 1 : SubSeq(s, a + 1, u)[i] = s[a + 1 + i - 1]
        /\ \A i \in 1 .. u - (a + 1) + 1 : SubSeq(t, a + 1, u)[i] = t[a + 1 + i - 1]
    <3>1. a + 1 \in Int /\ u \in Int
      OBVIOUS
    <3>2. \A i \in a + 1 .. u : t[i] \in Byte
      BY <1>3
    <3> QED  BY <1>3, <3>1, <3>2, SubSeqProperties
  <2>2. ASSUME NEW i \in 1 .. Len(SubSeq(t, a + 1, u))
        PROVE  SubSeq(t, a + 1, u)[i] = SubSeq(s, a + 1, u)[i]
    <3>1. i \in 1 .. u - (a + 1) + 1 /\ a + 1 + i - 1 \in a + 1 .. u
      BY <2>1
    <3> QED  BY <1>3, <2>1, <3>1
  <2> QED  BY <2>1, <2>2, SeqEqual
<1> QED  BY <1>1, <1>2, <1>4 DEF t

(* What the parsers know of a stream they know of a longer one.            *)
LEMMA SaysGrows ==
    ASSUME NEW s \in Text, NEW m \in Text, NEW q, NEW u
    PROVE  /\ AuthSays(s, q, u) => AuthSays(s \o m, q, u)
           /\ \A a \in Nat : CmdFrom(s, q, a, u) => CmdFrom(s \o m, q, a, u)
           /\ CmdSays(s, q, u) => CmdSays(s \o m, q, u)
<1>1. ASSUME AuthSays(s, q, u) PROVE AuthSays(s \o m, q, u)
  <2>1. u \in Nat /\ u <= Len(s) /\ Len(s) \in Nat
    BY <1>1, LenProperties DEF AuthSays, Text
  <2>2. SubSeq(s \o m, 0 + 1, u) = SubSeq(s, 0 + 1, u) /\ Len(s) <= Len(s \o m)
        /\ Len(s \o m) \in Nat
    BY <2>1, StreamGrows
  <2>3. u \in 0 .. Len(s \o m) /\ 0 + 1 = 1
    BY <2>1, <2>2
  <2> QED  BY <1>1, <2>2, <2>3 DEF AuthSays
<1>2. ASSUME NEW a \in Nat, CmdFrom(s, q, a, u) PROVE CmdFrom(s \o m, q, a, u)
  <2>1. u \in Nat /\ u <= Len(s) /\ Len(s) \in Nat
    BY <1>2, LenProperties DEF CmdFrom, Text
  <2>2. SubSeq(s \o m, a + 1, u) = SubSeq(s, a + 1, u) /\ Len(s) <= Len(s \o m)
        /\ Len(s \o m) \in Nat
    BY <2>1, StreamGrows
  <2>3. u \in 0 .. Len(s \o m)
    BY <2>1, <2>2
  <2> QED  BY <1>2, <2>2, <2>3 DEF CmdFrom
<1> QED  BY <1>1, <1>2 DEF CmdSays

(* A credential stays at the beginning.                                    *)
LEMMA CredentialedGrows ==
    ASSUME NEW s \in Text, NEW m \in Text, Credentialed(s)
    PROVE  Credentialed(s \o m)
<1> DEFINE t == s \o m  plen == 3 + s[2]
<1>0. Len(s) \in Nat /\ 2 <= Len(s) /\ plen <= Len(s) /\ plen + s[plen] <= Len(s)
  BY LenProperties DEF Credentialed, Text
<1>1. s[2] \in Nat /\ plen \in Nat /\ plen \in 1 .. Len(s) /\ s[plen] \in Nat
  <2>1. s[2] \in Nat
    BY <1>0, ElementOfSeq, Bytes DEF Text
  <2>2. plen \in Nat /\ plen \in 1 .. Len(s)
    BY <1>0, <2>1
  <2>3. s[plen] \in Nat
    BY <2>2, ElementOfSeq, Bytes DEF Text
  <2> QED  BY <2>1, <2>2, <2>3
<1>2. /\ t \in Text /\ Len(s) <= Len(t) /\ Len(t) \in Nat
      /\ \A i \in 1 .. Len(s) : t[i] = s[i]
  <2>1. 0 \in Nat /\ 0 <= Len(s)
    BY <1>0
  <2> QED  BY <2>1, StreamGrows
<1>3. SubSeq(t, 3, plen - 1) = SubSeq(s, 3, plen - 1)
  <2>1. 2 \in Nat /\ 2 + 1 = 3 /\ plen - 1 \in Nat /\ plen - 1 <= Len(s)
    BY <1>0, <1>1
  <2>2. SubSeq(t, 2 + 1, plen - 1) = SubSeq(s, 2 + 1, plen - 1)
    BY <2>1, StreamGrows
  <2> QED  BY <2>1, <2>2
<1>4. SubSeq(t, plen + 1, plen + s[plen]) = SubSeq(s, plen + 1, plen + s[plen])
  <2>1. plen + s[plen] \in Nat
    BY <1>1
  <2> HIDE DEF plen
  <2> QED  BY <1>0, <1>1, <2>1, StreamGrows, SMTT(20)
<1>5. t[1] = s[1] /\ t[2] = s[2] /\ t[plen] = s[plen]
  BY <1>0, <1>1, <1>2
<1>6. plen <= Len(t) /\ plen + s[plen] <= Len(t) /\ 2 <= Len(t)
  BY <1>0, <1>1, <1>2
<1> HIDE DEF t
<1>7. Credentialed(t)
  <2>1. /\ s[1] = Version
        /\ [name |-> CString(SubSeq(s, 3, plen - 1)),
            pass |-> CString(SubSeq(s, plen + 1, plen + s[plen]))] \in Admins
    BY DEF Credentialed
  <2> QED  BY <1>2, <1>3, <1>4, <1>5, <1>6, <2>1 DEF Credentialed
<1> QED  BY <1>7 DEF t

(* A step that leaves a peer's session alone.                              *)
Same(d) ==
    /\ said'[d] = said[d] /\ got'[d] = got[d] /\ taken'[d] = taken[d]
    /\ rbuf'[d] = rbuf[d] /\ wbuf'[d] = wbuf[d] /\ stm'[d] = stm[d] /\ p'[d] = p[d]
    /\ authenticated'[d] = authenticated[d] /\ shuttingDown'[d] = shuttingDown[d]
    /\ did'[d] = did[d] /\ answers'[d] = answers[d]
    /\ closing' = closing /\ (d \in failed' <=> d \in failed)

(* Then the invariant stays true of that session.                          *)
LEMMA SameKeeps ==
    ASSUME NEW d \in Peers, PeerOK(d), Same(d)
    PROVE  PeerOK(d)'
<1>0. (d \in Active)' <=> d \in Active
  BY DEF Same, Active
<1>1. Fresh(d)'
  BY DEF PeerOK, Fresh, Same
<1>2. Stocked(d)'
  BY DEF PeerOK, Stocked, Same
<1>3. Heard(d)'
  BY DEF PeerOK, Heard, Same, Used
<1>4. Sent(d)'
  BY <1>0 DEF PeerOK, Sent, Same, Answered
<1>5. Admits(d)'
  BY DEF PeerOK, Admits, Same
<1>6. Quiet(d)'
  BY DEF PeerOK, Quiet, Same
<1> QED  BY <1>1, <1>2, <1>3, <1>4, <1>5, <1>6 DEF PeerOK

(* The first bytes of a stream, before any.                                *)
LEMMA NothingSaid ==
    ASSUME NEW s \in Text
    PROVE  /\ AuthSays(s, Zeroed("VER"), 0) /\ Zeroed("VER") \in Parsers
           /\ \A u \in 0 .. Len(s) : CmdFrom(s, Zeroed("CMD"), u, u)
           /\ \A u \in 0 .. Len(s) : CmdSays(s, Zeroed("CMD"), u)
           /\ Zeroed("CMD") \in Parsers
<1>0. Len(s) \in Nat /\ <<>> \in Text /\ 0 \in Byte
  BY LenProperties, EmptySeq DEF Text, Byte
<1>1. Zeroed("VER") \in Parsers /\ Zeroed("CMD") \in Parsers
  BY <1>0 DEF Zeroed, Parsers, Places
<1>2. AuthKnows(Zeroed("VER")) /\ AuthTaken(Zeroed("VER")) = <<>>
  BY DEF Zeroed, AuthKnows, AuthTaken
<1>3. CmdKnows(Zeroed("CMD")) /\ TimeKnows(Zeroed("CMD")) /\ CmdTaken(Zeroed("CMD")) = <<>>
  BY DEF Zeroed, CmdKnows, TimeKnows, CmdTaken
<1>4. \A u \in 0 .. Len(s) : SubSeq(s, u + 1, u) = <<>>
  <2>1. ASSUME NEW u \in 0 .. Len(s) PROVE SubSeq(s, u + 1, u) = <<>>
    <3>1. u + 1 \in Int /\ u \in Int /\ ~(u + 1 <= u) /\ \A i \in u + 1 .. u : s[i] \in Byte
      OBVIOUS
    <3>2. SubSeq(s, u + 1, u) \in Seq(Byte) /\ Len(SubSeq(s, u + 1, u)) = 0
      BY <3>1, SubSeqProperties
    <3> QED  BY <3>2, EmptySeq
  <2> QED  BY <2>1
<1>5. SubSeq(s, 1, 0) = <<>> /\ 0 \in 0 .. Len(s)
  <2>1. 0 \in 0 .. Len(s) /\ 0 + 1 = 1
    BY <1>0
  <2>2. SubSeq(s, 0 + 1, 0) = <<>>
    BY <1>4, <2>1
  <2> QED  BY <2>1, <2>2
<1>6. AuthSays(s, Zeroed("VER"), 0)
  BY <1>1, <1>2, <1>5 DEF AuthSays
<1>7. ASSUME NEW u \in 0 .. Len(s) PROVE u \in Nat /\ CmdFrom(s, Zeroed("CMD"), u, u)
  <2>1. u \in 0 .. u
    BY <1>0
  <2>2. SubSeq(s, u + 1, u) = CmdTaken(Zeroed("CMD"))
    BY <1>3, <1>4
  <2> QED  BY <1>1, <1>3, <2>1, <2>2 DEF CmdFrom
<1> QED  BY <1>1, <1>6, <1>7 DEF CmdSays

(* No session, and the table of the command line.                          *)
LEMMA InitHolds == Init => Inv
<1> SUFFICES ASSUME Init PROVE Inv
  OBVIOUS
<1>0. <<>> \in Text /\ Zeroed("VER") \in Parsers
  BY NothingSaid, EmptySeq DEF Text
<1>1. users \in T!Tables
  <2>1. PICK c \in CommandLines : users = T!Loaded(c)
    BY DEF Init, T!TableInit
  <2>2. c \in Seq(T!Accounts)
    BY UsersAssumption
  <2>3. \A i \in T!Slots : i <= Len(c) => c[i] \in T!Accounts
    <3>1. ASSUME NEW i \in T!Slots, i <= Len(c) PROVE c[i] \in T!Accounts
      <4>1. i \in 1 .. Len(c)
        BY <2>2, <3>1, LenProperties, UsersAssumption DEF T!Slots
      <4> QED  BY <2>2, <4>1, ElementOfSeq
    <3> QED  BY <3>1
  <2> QED  BY <2>1, <2>3 DEF T!Loaded, T!Tables
<1>2. Types
  <2>1. <<>> \in Seq(Turns) /\ <<>> \in Seq(Text)
    BY EmptySeq
  <2>2. /\ said \in [Peers -> Text] /\ fin \in [Peers -> BOOLEAN] /\ got \in [Peers -> Text]
        /\ taken \in [Peers -> Nat] /\ rbuf \in [Peers -> Text] /\ wbuf \in [Peers -> Text]
    BY <1>0 DEF Init
  <2>3. /\ stm \in [Peers -> States] /\ p \in [Peers -> Parsers]
        /\ authenticated \in [Peers -> BOOLEAN] /\ closeAfter \in [Peers -> BOOLEAN]
        /\ shuttingDown \in [Peers -> BOOLEAN]
    BY <1>0 DEF Init, States
  <2>4. did \in [Peers -> Seq(Turns)] /\ answers \in [Peers -> Seq(Text)]
    BY <2>1 DEF Init
  <2>5. timeout \in Nat /\ world \in Worlds /\ closing \in BOOLEAN /\ failed \subseteq Peers
    BY DEF Init
  <2> QED  BY <1>1, <2>2, <2>3, <2>4, <2>5 DEF Types
<1>3. ASSUME NEW c \in Peers PROVE PeerOK(c)
  <2>1. /\ said[c] = <<>> /\ got[c] = <<>> /\ taken[c] = 0 /\ rbuf[c] = <<>> /\ wbuf[c] = <<>>
        /\ stm[c] = "OUTSIDE" /\ p[c] = Zeroed("VER") /\ authenticated[c] = FALSE
        /\ did[c] = <<>> /\ answers[c] = <<>> /\ failed = {} /\ closing = FALSE
    BY DEF Init
  <2>2. Fresh(c)
    BY <2>1 DEF Fresh
  <2>3. Stocked(c)
    <3>1. ReadSize \in Nat /\ AnswerSize \in Nat /\ Len(<<>>) = 0
      BY SizesAssumption
    <3> QED  BY <2>1, <3>1 DEF Stocked, ReadStates, WriteStates
  <2>4. Heard(c)
    BY <2>1 DEF Heard
  <2>5. Sent(c)
    <3>1. FlattenSeq(<<>>) = <<>> /\ <<>> \o <<>> = <<>>
      BY <1>0, FlattenNothing, ConcatEmptySeq DEF Text
    <3> QED  BY <2>1, <3>1 DEF Sent, Answered
  <2>6. Admits(c)
    BY <2>1 DEF Admits
  <2>7. Quiet(c)
    BY <2>1 DEF Quiet
  <2> QED  BY <2>2, <2>3, <2>4, <2>5, <2>6, <2>7 DEF PeerOK
<1> QED  BY <1>2, <1>3 DEF Inv

-----------------------------------------------------------------------------
(* The peers *)

(* A session before it is accepted has no bytes of its peer.               *)
LEMMA ConnectKeeps ==
    ASSUME Inv, NEW c \in Peers, NEW m \in Text, Connect(c, m)
    PROVE  Inv'
<1>1. Types'
  BY DEF Inv, Types, Connect, Goes, States, serverVars
<1>2. ASSUME NEW d \in Peers PROVE PeerOK(d)'
  <2>0. PeerOK(d)
    BY DEF Inv
  <2>1. CASE d # c
    <3>1. Same(d)
      BY <2>1 DEF Same, Connect, Goes, Inv, Types
    <3> QED  BY <2>0, <3>1, SameKeeps
  <2>2. CASE d = c
    <3>1. /\ stm[d] = "OUTSIDE" /\ stm'[d] = "BACKLOG" /\ said'[d] = m /\ ~closing
          /\ closing' = closing
          /\ got'[d] = got[d] /\ taken'[d] = taken[d] /\ rbuf'[d] = rbuf[d] /\ wbuf'[d] = wbuf[d]
          /\ p'[d] = p[d] /\ authenticated'[d] = authenticated[d] /\ did'[d] = did[d]
          /\ answers'[d] = answers[d] /\ failed' = failed
      BY <2>2 DEF Connect, Goes, Inv, Types
    <3>2. /\ taken[d] = 0 /\ ~authenticated[d] /\ did[d] = <<>> /\ Len(m) \in Nat
          /\ got[d] = <<>> /\ rbuf[d] = <<>> /\ wbuf[d] = <<>> /\ answers[d] = <<>>
          /\ p[d] = Zeroed("VER")
      BY <2>0, <3>1, LenProperties DEF PeerOK, Fresh, Text
    <3>3. Fresh(d)'
      BY <3>1, <3>2 DEF Fresh
    <3>4. Stocked(d)'
      <4>1. 0 <= Len(m)
        BY <3>2
      <4> QED  BY <2>0, <3>1, <3>2, <4>1 DEF PeerOK, Stocked, ReadStates, WriteStates
    <3>5. Heard(d)'
      BY <3>1 DEF Heard
    <3>6. Sent(d)'
      BY <2>0, <3>1, <3>2 DEF PeerOK, Sent, Answered, Active, ReadStates, WriteStates
    <3>7. Admits(d)'
      BY <3>1, <3>2 DEF Admits
    <3>8. Quiet(d)'
      BY <3>1 DEF Quiet
    <3> QED  BY <3>3, <3>4, <3>5, <3>6, <3>7, <3>8 DEF PeerOK
  <2> QED  BY <2>1, <2>2
<1> QED  BY <1>1, <1>2 DEF Inv

(* More bytes wait in the stream: no session is changed.                   *)
LEMMA SendsKeeps ==
    ASSUME Inv, NEW c \in Peers, NEW m \in Text, Sends(c, m)
    PROVE  Inv'
<1>0. said[c] \in Text /\ said[c] \o m \in Text
  <2>1. said[c] \in Text
    BY DEF Inv, Types
  <2> QED  BY <2>1, TextsJoin
<1>1. Types'
  BY <1>0 DEF Inv, Types, Sends, serverVars, sessionVars
<1>2. ASSUME NEW d \in Peers PROVE PeerOK(d)'
  <2>0. PeerOK(d)
    BY DEF Inv
  <2>1. CASE d # c
    <3>1. Same(d)
      BY <2>1 DEF Same, Sends, Inv, Types, sessionVars
    <3> QED  BY <2>0, <3>1, SameKeeps
  <2>2. CASE d = c
    <3>1. /\ said'[d] = said[d] \o m /\ stm'[d] = stm[d] /\ closing' = closing
          /\ got'[d] = got[d] /\ taken'[d] = taken[d] /\ rbuf'[d] = rbuf[d] /\ wbuf'[d] = wbuf[d]
          /\ p'[d] = p[d] /\ authenticated'[d] = authenticated[d] /\ did'[d] = did[d]
          /\ answers'[d] = answers[d] /\ failed' = failed /\ shuttingDown'[d] = shuttingDown[d]
      BY <2>2 DEF Sends, Inv, Types, sessionVars
    <3>2. /\ Len(said[d]) <= Len(said[d] \o m) /\ Len(said[d]) \in Nat /\ Len(said[d] \o m) \in Nat
          /\ taken[d] \in Nat
      <4>1. 0 \in Nat /\ 0 <= Len(said[d])
        BY <1>0, <2>2, LenProperties DEF Text
      <4>2. taken[d] \in Nat
        BY DEF Inv, Types
      <4> QED  BY <1>0, <2>2, <4>1, <4>2, StreamGrows
    <3>3. Fresh(d)'
      BY <2>0, <3>1 DEF PeerOK, Fresh
    <3>4. Stocked(d)'
      <4>1. taken[d] <= Len(said[d] \o m)
        BY <2>0, <3>2 DEF PeerOK, Stocked
      <4> QED  BY <2>0, <3>1, <4>1 DEF PeerOK, Stocked
    <3>5. Heard(d)'
      <4>1. Used(d)' = Used(d)
        BY <3>1 DEF Used
      <4>2. /\ AuthSays(said[d], p[d], Used(d)) => AuthSays(said[d] \o m, p[d], Used(d))
            /\ CmdSays(said[d], p[d], Used(d)) => CmdSays(said[d] \o m, p[d], Used(d))
        BY <1>0, <2>2, SaysGrows
      <4> QED  BY <2>0, <3>1, <4>1, <4>2 DEF PeerOK, Heard
    <3>6. Sent(d)'
      BY <2>0, <3>1 DEF PeerOK, Sent, Answered, Active
    <3>7. Admits(d)'
      <4>1. Credentialed(said[d]) => Credentialed(said[d] \o m)
        BY <1>0, <2>2, CredentialedGrows
      <4> QED  BY <2>0, <3>1, <4>1 DEF PeerOK, Admits
    <3>8. Quiet(d)'
      BY <2>0, <3>1 DEF PeerOK, Quiet
    <3> QED  BY <3>3, <3>4, <3>5, <3>6, <3>7, <3>8 DEF PeerOK
  <2> QED  BY <2>1, <2>2
<1> QED  BY <1>1, <1>2 DEF Inv

(* The end of the stream is only noticed by recv().                        *)
LEMMA FinishKeeps ==
    ASSUME Inv, NEW c \in Peers, Finish(c)
    PROVE  Inv'
<1>1. Types'
  BY DEF Inv, Types, Finish, serverVars, sessionVars
<1>2. ASSUME NEW d \in Peers PROVE PeerOK(d)'
  <2>1. Same(d)
    BY DEF Same, Finish, sessionVars
  <2> QED  BY <2>1, SameKeeps DEF Inv
<1> QED  BY <1>1, <1>2 DEF Inv

(* The counters and the log are no part of a session.                      *)
LEMMA TrafficKeeps ==
    ASSUME Inv, Traffic
    PROVE  Inv'
<1>1. Types'
  BY DEF Inv, Types, Traffic, serverVars, sessionVars, peerVars
<1>2. ASSUME NEW d \in Peers PROVE PeerOK(d)'
  <2>1. Same(d)
    BY DEF Same, Traffic, sessionVars, peerVars
  <2> QED  BY <2>1, SameKeeps DEF Inv
<1> QED  BY <1>1, <1>2 DEF Inv

(* A step that changes nothing.                                            *)
LEMMA UnchangedKeeps ==
    ASSUME Inv, UNCHANGED vars
    PROVE  Inv'
<1>1. Types'
  BY DEF Inv, Types, vars, serverVars, sessionVars, peerVars
<1>2. ASSUME NEW d \in Peers PROVE PeerOK(d)'
  <2>1. Same(d)
    BY DEF Same, vars, sessionVars, peerVars
  <2> QED  BY <2>1, SameKeeps DEF Inv
<1> QED  BY <1>1, <1>2 DEF Inv

-----------------------------------------------------------------------------
(* The server *)

(* mng_passive_accept(): a session begins with a zeroed structure.         *)
LEMMA AcceptKeeps ==
    ASSUME Inv, NEW c \in Peers, Accept(c)
    PROVE  Inv'
<1>1. Types'
  BY DEF Inv, Types, Accept, Goes, States, ReadStates, serverVars, peerVars
<1>2. ASSUME NEW d \in Peers PROVE PeerOK(d)'
  <2>0. PeerOK(d)
    BY DEF Inv
  <2>1. CASE d # c
    <3>1. Same(d)
      BY <2>1 DEF Same, Accept, Goes, Inv, Types, peerVars
    <3> QED  BY <2>0, <3>1, SameKeeps
  <2>2. CASE d = c
    <3>1. /\ stm[d] = "BACKLOG" /\ (stm'[d] = "AUTH_READ" \/ stm'[d] = "CLOSED")
          /\ said'[d] = said[d] /\ closing' = closing
          /\ got'[d] = got[d] /\ taken'[d] = taken[d] /\ rbuf'[d] = rbuf[d] /\ wbuf'[d] = wbuf[d]
          /\ p'[d] = p[d] /\ authenticated'[d] = authenticated[d] /\ did'[d] = did[d]
          /\ answers'[d] = answers[d] /\ failed' = failed
      BY <2>2 DEF Accept, Goes, Inv, Types, peerVars
    <3>2. /\ taken[d] = 0 /\ ~authenticated[d] /\ did[d] = <<>> /\ said[d] \in Text
          /\ got[d] = <<>> /\ rbuf[d] = <<>> /\ wbuf[d] = <<>> /\ answers[d] = <<>>
          /\ p[d] = Zeroed("VER") /\ d \notin failed /\ Len(<<>>) = 0
      BY <2>0, <3>1 DEF PeerOK, Fresh, Sent, Inv, Types
    <3>3. Fresh(d)'
      BY <3>1 DEF Fresh
    <3>4. Stocked(d)'
      <4>1. ~Over(Zeroed("VER"))
        BY DEF Over, Zeroed
      <4> QED  BY <2>0, <3>1, <3>2, <4>1 DEF PeerOK, Stocked, WriteStates
    <3>5. Heard(d)'
      <4>1. Used(d)' = 0
        <5>1. taken'[d] = 0 /\ rbuf'[d] = <<>> /\ 0 - 0 = 0
          BY <3>1, <3>2
        <5>2. Len(rbuf'[d]) = 0
          BY <3>2, <5>1
        <5> QED  BY <5>1, <5>2 DEF Used
      <4>2. AuthSays(said[d], Zeroed("VER"), 0)
        BY <3>2, NothingSaid
      <4> QED  BY <3>1, <3>2, <4>1, <4>2 DEF Heard
    <3>6. Sent(d)'
      BY <2>0, <3>1, <3>2 DEF PeerOK, Sent, Answered
    <3>7. Admits(d)'
      BY <3>1, <3>2 DEF Admits
    <3>8. Quiet(d)'
      BY <2>0, <3>1 DEF PeerOK, Quiet, WriteStates
    <3> QED  BY <3>3, <3>4, <3>5, <3>6, <3>7, <3>8 DEF PeerOK
  <2> QED  BY <2>1, <2>2
<1> QED  BY <1>1, <1>2 DEF Inv

(* A session that is closed while it may still expect a message.           *)
LEMMA ReadEndKeeps ==
    ASSUME Inv, NEW c \in Peers, ReadEnd(c)
    PROVE  Inv'
<1>1. Types'
  BY DEF Inv, Types, ReadEnd, CloseSession, Goes, States, serverVars, peerVars
<1>2. ASSUME NEW d \in Peers PROVE PeerOK(d)'
  <2>0. PeerOK(d)
    BY DEF Inv
  <2>1. CASE d # c
    <3>1. Same(d)
      BY <2>1 DEF Same, ReadEnd, CloseSession, Goes, Inv, Types, peerVars
    <3> QED  BY <2>0, <3>1, SameKeeps
  <2>2. CASE d = c
    <3>1. /\ stm[d] \in ReadStates /\ stm'[d] = "CLOSED" /\ said'[d] = said[d] /\ closing' = closing
          /\ got'[d] = got[d] /\ taken'[d] = taken[d] /\ rbuf'[d] = rbuf[d] /\ wbuf'[d] = wbuf[d]
          /\ p'[d] = p[d] /\ authenticated'[d] = authenticated[d] /\ did'[d] = did[d]
          /\ answers'[d] = answers[d] /\ failed' = failed
      BY <2>2 DEF ReadEnd, CloseSession, Goes, Inv, Types, peerVars
    <3>2. wbuf[d] = <<>> /\ d \notin failed
      BY <2>0, <3>1 DEF PeerOK, Stocked, Sent, ReadStates
    <3>3. Fresh(d)'
      BY <3>1 DEF Fresh
    <3>4. Stocked(d)'
      BY <2>0, <3>1 DEF PeerOK, Stocked, ReadStates, WriteStates
    <3>5. Heard(d)'
      BY <3>1 DEF Heard
    <3>6. Sent(d)'
      BY <2>0, <3>1, <3>2 DEF PeerOK, Sent, Answered
    <3>7. Admits(d)'
      BY <2>0, <3>1 DEF PeerOK, Admits
    <3>8. Quiet(d)'
      BY <3>1 DEF Quiet, ReadStates, WriteStates
    <3> QED  BY <3>3, <3>4, <3>5, <3>6, <3>7, <3>8 DEF PeerOK
  <2> QED  BY <2>1, <2>2
<1> QED  BY <1>1, <1>2 DEF Inv

(* A text begins what it is followed by.                                   *)
LEMMA BeginsJoin ==
    ASSUME NEW s \in Text, NEW t \in Text
    PROVE  IsPrefix(s, s \o t)
<1>1. Len(s) \in Nat /\ Len(s) <= Len(s) /\ 0 \in Nat /\ 0 + 1 = 1
  BY LenProperties DEF Text
<1>2. Len(s) <= Len(s \o t) /\ SubSeq(s \o t, 0 + 1, Len(s)) = SubSeq(s, 0 + 1, Len(s))
  BY <1>1, StreamGrows
<1> QED  BY <1>1, <1>2 DEF IsPrefix

(* What was sent is the beginning of the answers, whatever is still to     *)
(* send.                                                                   *)
LEMMA FailKeeps ==
    ASSUME Inv, NEW c \in Peers, Fail(c)
    PROVE  Inv'
<1>1. Types'
  BY DEF Inv, Types, Fail, CloseSession, Goes, States, serverVars, peerVars
<1>2. ASSUME NEW d \in Peers PROVE PeerOK(d)'
  <2>0. PeerOK(d)
    BY DEF Inv
  <2>1. CASE d # c
    <3>1. Same(d)
      BY <2>1 DEF Same, Fail, CloseSession, Goes, Inv, Types, peerVars
    <3> QED  BY <2>0, <3>1, SameKeeps
  <2>2. CASE d = c
    <3>1. /\ stm[d] \in ReadStates \cup WriteStates /\ stm'[d] = "CLOSED"
          /\ said'[d] = said[d] /\ closing' = closing
          /\ got'[d] = got[d] /\ taken'[d] = taken[d] /\ rbuf'[d] = rbuf[d] /\ wbuf'[d] = wbuf[d]
          /\ p'[d] = p[d] /\ authenticated'[d] = authenticated[d] /\ did'[d] = did[d]
          /\ answers'[d] = answers[d] /\ d \in failed'
      BY <2>2 DEF Fail, CloseSession, Goes, Inv, Types, peerVars, Active
    <3>2. d \notin failed
      BY <2>0, <3>1 DEF PeerOK, Sent, ReadStates, WriteStates
    <3>3. Fresh(d)'
      BY <3>1 DEF Fresh
    <3>4. Stocked(d)'
      BY <2>0, <3>1 DEF PeerOK, Stocked, ReadStates, WriteStates
    <3>5. Heard(d)'
      BY <3>1 DEF Heard
    <3>6. Sent(d)'
      <4>1. Answered(d) = got[d] \o wbuf[d]
        BY <2>0, <3>2 DEF PeerOK, Sent
      <4>2. got[d] \in Text /\ wbuf[d] \in Text
        BY DEF Inv, Types
      <4>3. IsPrefix(got[d], got[d] \o wbuf[d])
        BY <4>2, BeginsJoin
      <4> QED  BY <3>1, <4>1, <4>3 DEF Sent, Answered
    <3>7. Admits(d)'
      BY <2>0, <3>1 DEF PeerOK, Admits
    <3>8. Quiet(d)'
      BY <3>1 DEF Quiet, ReadStates, WriteStates
    <3> QED  BY <3>3, <3>4, <3>5, <3>6, <3>7, <3>8 DEF PeerOK
  <2> QED  BY <2>1, <2>2
<1> QED  BY <1>1, <1>2 DEF Inv

(* mng_begin_shutdown() closes what has nothing to send.                   *)
LEMMA ShutdownKeeps ==
    ASSUME Inv, BeginShutdown
    PROVE  Inv'
<1>1. Types'
  BY DEF Inv, Types, BeginShutdown, States, serverVars, peerVars
<1>2. ASSUME NEW d \in Peers PROVE PeerOK(d)'
  <2>0. PeerOK(d)
    BY DEF Inv
  <2>1. /\ said'[d] = said[d] /\ closing'
        /\ got'[d] = got[d] /\ taken'[d] = taken[d] /\ rbuf'[d] = rbuf[d] /\ wbuf'[d] = wbuf[d]
        /\ p'[d] = p[d] /\ authenticated'[d] = authenticated[d] /\ did'[d] = did[d]
        /\ answers'[d] = answers[d] /\ failed' = failed
        /\ stm'[d] = (IF stm[d] = "OUTSIDE" \/ Spared(d) THEN stm[d] ELSE "CLOSED")
        /\ shuttingDown'[d] = (shuttingDown[d] \/ Spared(d))
    BY DEF BeginShutdown, peerVars
  <2>2. CASE stm[d] = "OUTSIDE"
    <3>1. stm'[d] = "OUTSIDE"
      BY <2>1, <2>2
    <3>3. Fresh(d)'
      BY <2>0, <2>1, <2>2 DEF PeerOK, Fresh
    <3>4. Stocked(d)'
      BY <2>0, <2>1, <2>2 DEF PeerOK, Stocked
    <3>5. Heard(d)'
      BY <3>1 DEF Heard
    <3>6. Sent(d)'
      BY <2>0, <2>1, <2>2 DEF PeerOK, Sent, Answered, Active
    <3>7. Admits(d)'
      BY <2>0, <2>1, <2>2 DEF PeerOK, Admits
    <3>8. Quiet(d)'
      BY <3>1 DEF Quiet, ReadStates, WriteStates
    <3> QED  BY <3>3, <3>4, <3>5, <3>6, <3>7, <3>8 DEF PeerOK
  <2>3. CASE Spared(d)
    <3>1. stm'[d] = stm[d] /\ stm[d] \in WriteStates /\ shuttingDown'[d]
      BY <2>1, <2>3 DEF Spared
    <3>3. Fresh(d)'
      BY <3>1 DEF Fresh, WriteStates
    <3>4. Stocked(d)'
      BY <2>0, <2>1, <3>1 DEF PeerOK, Stocked
    <3>5. Heard(d)'
      BY <2>0, <2>1, <3>1 DEF PeerOK, Heard, Used
    <3>6. Sent(d)'
      BY <2>0, <2>1, <3>1 DEF PeerOK, Sent, Answered, Active
    <3>7. Admits(d)'
      BY <2>0, <2>1, <3>1 DEF PeerOK, Admits
    <3>8. Quiet(d)'
      BY <3>1 DEF Quiet, ReadStates, WriteStates
    <3> QED  BY <3>3, <3>4, <3>5, <3>6, <3>7, <3>8 DEF PeerOK
  <2>4. CASE stm[d] # "OUTSIDE" /\ ~Spared(d)
    <3>1. stm'[d] = "CLOSED" /\ stm[d] \notin WriteStates /\ stm[d] \in States
      BY <2>0, <2>1, <2>4 DEF PeerOK, Stocked, Spared, Inv, Types
    <3>2. d \notin failed => wbuf[d] = <<>>
      BY <2>0, <3>1 DEF PeerOK, Stocked, Sent, Active
    <3>3. Fresh(d)'
      BY <3>1 DEF Fresh
    <3>4. Stocked(d)'
      BY <2>0, <2>1, <3>1 DEF PeerOK, Stocked, ReadStates, WriteStates
    <3>5. Heard(d)'
      BY <3>1 DEF Heard
    <3>6. Sent(d)'
      BY <2>0, <2>1, <3>1, <3>2 DEF PeerOK, Sent, Answered
    <3>7. Admits(d)'
      BY <2>0, <2>1, <3>1 DEF PeerOK, Admits
    <3>8. Quiet(d)'
      BY <3>1 DEF Quiet, ReadStates, WriteStates
    <3> QED  BY <3>3, <3>4, <3>5, <3>6, <3>7, <3>8 DEF PeerOK
  <2> QED  BY <2>2, <2>3, <2>4
<1> QED  BY <1>1, <1>2 DEF Inv

(* What send() takes of a text, and what it leaves.                        *)
LEMMA SendSplits ==
    ASSUME NEW s \in Text, NEW n \in 1 .. Len(s)
    PROVE  /\ SubSeq(s, 1, n) \in Text /\ Len(SubSeq(s, 1, n)) = n
           /\ SubSeq(s, n + 1, Len(s)) \in Text /\ Len(SubSeq(s, n + 1, Len(s))) = Len(s) - n
           /\ SubSeq(s, 1, n) \o SubSeq(s, n + 1, Len(s)) = s
<1>1. Len(s) \in Nat /\ n \in Nat /\ n <= Len(s)
  BY LenProperties DEF Text
<1> DEFINE a == SubSeq(s, 1, n)  b == SubSeq(s, n + 1, Len(s))
<1>2. a \in Text /\ Len(a) = n /\ \A i \in 1 .. n : a[i] = s[i]
  <2>1. n - 1 + 1 = n /\ \A i \in 1 .. n : 1 + i - 1 = i
    BY <1>1
  <2>2. \A i \in 1 .. n : s[i] \in Byte
    BY <1>1, ElementOfSeq DEF Text
  <2>3. /\ a \in Seq(Byte) /\ Len(a) = IF 1 <= n THEN n - 1 + 1 ELSE 0
        /\ \A i \in 1 .. n - 1 + 1 : a[i] = s[1 + i - 1]
    BY <1>1, <2>2, SubSeqProperties
  <2> QED  BY <2>1, <2>3 DEF Text
<1>3. b \in Text /\ Len(b) = Len(s) - n /\ \A i \in 1 .. (Len(s) - n) : b[i] = s[n + i]
  <2>1. /\ Len(s) - (n + 1) + 1 = Len(s) - n
        /\ \A i \in 1 .. (Len(s) - n) : (n + 1) + i - 1 = n + i
        /\ (IF n + 1 <= Len(s) THEN Len(s) - (n + 1) + 1 ELSE 0) = Len(s) - n
    BY <1>1
  <2>2. \A i \in n + 1 .. Len(s) : s[i] \in Byte
    BY <1>1, ElementOfSeq DEF Text
  <2>3. /\ b \in Seq(Byte) /\ Len(b) = IF n + 1 <= Len(s) THEN Len(s) - (n + 1) + 1 ELSE 0
        /\ \A i \in 1 .. Len(s) - (n + 1) + 1 : b[i] = s[(n + 1) + i - 1]
    BY <1>1, <2>2, SubSeqProperties
  <2> QED  BY <2>1, <2>3 DEF Text
<1> HIDE DEF a, b
<1>4. a \o b \in Text /\ Len(a \o b) = Len(s)
  <2>1. Len(a \o b) = Len(a) + Len(b) /\ a \o b \in Text
    BY <1>2, <1>3, TextsJoin
  <2> QED  BY <1>1, <1>2, <1>3, <2>1
<1>5. ASSUME NEW i \in 1 .. Len(s) PROVE (a \o b)[i] = s[i]
  <2>1. CASE i <= n
    <3>1. i \in 1 .. Len(a)
      BY <1>1, <1>2, <2>1
    <3> QED  BY <1>2, <1>3, <3>1, JoinedBytes
  <2>2. CASE ~(i <= n)
    <3> DEFINE j == i - n
    <3>1. j \in 1 .. Len(b) /\ n + j = i
      BY <1>1, <1>3, <2>2
    <3> HIDE DEF j
    <3>2. (a \o b)[Len(a) + j] = b[j]
      BY <1>2, <1>3, <3>1, JoinedBytes
    <3> QED  BY <1>1, <1>2, <1>3, <3>1, <3>2
  <2> QED  BY <2>1, <2>2
<1>6. a \o b = s
  BY <1>4, <1>5, SeqEqual DEF Text
<1> QED  BY <1>2, <1>3, <1>6 DEF a, b

(* The order in which three texts are put together.                        *)
LEMMA TextsAssociate ==
    ASSUME NEW s \in Text, NEW t \in Text, NEW u \in Text
    PROVE  (s \o t) \o u = s \o (t \o u)
BY ConcatAssociative DEF Text

(* The first answer goes out alone.                                        *)
LEMMA OneAnswer ==
    ASSUME NEW s \in Text
    PROVE  FlattenSeq(<<s>>) = s
<1>1. <<>> \in Seq(Text) /\ <<>> \in Text
  BY EmptySeq DEF Text
<1>2. FlattenSeq(Append(<<>>, s)) = FlattenSeq(<<>>) \o s
  BY <1>1, FlattenAppends DEF Text
<1>3. Append(<<>>, s) = <<s>>
  OBVIOUS
<1>4. <<>> \o s = s
  BY ConcatEmptySeq DEF Text
<1> QED  BY <1>2, <1>3, <1>4, FlattenNothing

(* The two bytes that let a peer in stay the first it got.                 *)
LEMMA LetInStays ==
    ASSUME NEW g \in Text, NEW a \in Text, Len(g) >= 2
    PROVE  Len(g \o a) >= 2 /\ SubSeq(g \o a, 1, 2) = SubSeq(g, 1, 2)
<1>1. 0 \in Nat /\ 2 \in Nat /\ 2 <= Len(g) /\ 0 + 1 = 1
  OBVIOUS
<1>2. /\ Len(g) <= Len(g \o a) /\ Len(g) \in Nat /\ Len(g \o a) \in Nat
      /\ SubSeq(g \o a, 0 + 1, 2) = SubSeq(g, 0 + 1, 2)
  BY <1>1, StreamGrows
<1> QED  BY <1>1, <1>2

(* An answer is sent in parts, the session goes on or ends behind it.      *)
LEMMA WriteKeeps ==
    ASSUME Inv, NEW c \in Peers, NEW n, Write(c, n)
    PROVE  Inv'
<1> DEFINE a == SubSeq(wbuf[c], 1, n)  b == SubSeq(wbuf[c], n + 1, Len(wbuf[c]))
<1>0. /\ got[c] \in Text /\ wbuf[c] \in Text /\ rbuf[c] \in Text /\ said[c] \in Text
      /\ taken[c] \in Nat /\ PeerOK(c)
  BY DEF Inv, Types
<1>1. /\ a \in Text /\ Len(a) = n /\ b \in Text /\ Len(b) = Len(wbuf[c]) - n /\ a \o b = wbuf[c]
      /\ n \in 1 .. Len(wbuf[c]) /\ Len(wbuf[c]) \in Nat
  <2>1. n \in 1 .. Len(wbuf[c])
    BY DEF Write
  <2> QED  BY <1>0, <2>1, SendSplits, LenProperties DEF Text
<1>2. got[c] \o a \in Text /\ <<>> \in Text /\ Zeroed("CMD") \in Parsers
  BY <1>0, <1>1, TextsJoin, NothingSaid, EmptySeq DEF Text
<1>3. /\ stm[c] \in WriteStates /\ got' = [got EXCEPT ![c] = @ \o a]
      /\ UNCHANGED <<serverVars, world, closing, peerVars, taken, authenticated,
                     shuttingDown, did, answers, failed>>
  BY DEF Write
<1>4. \/ /\ AllSent(c, n) /\ Following(c) = "CMD_READ" /\ Goes(c, "CMD_READ") /\ Arrive(c)
      \/ /\ AllSent(c, n) /\ Following(c) = "CLOSED" /\ Goes(c, "CLOSED")
         /\ wbuf' = [wbuf EXCEPT ![c] = <<>>] /\ UNCHANGED <<p, closeAfter, rbuf>>
      \/ /\ ~AllSent(c, n) /\ wbuf' = [wbuf EXCEPT ![c] = b]
         /\ UNCHANGED <<stm, p, closeAfter, rbuf>>
  <2>1. Following(c) = "CMD_READ" \/ Following(c) = "CLOSED"
    BY DEF Following
  <2> QED  BY <2>1 DEF Write
<1> HIDE DEF a, b
<1>5. Types'
  <2>1. CASE stm' = [stm EXCEPT ![c] = "CMD_READ"] /\ Arrive(c)
    BY <1>2, <1>3, <2>1 DEF Inv, Types, Arrive, States, ReadStates, serverVars, peerVars
  <2>2. CASE /\ stm' = [stm EXCEPT ![c] = "CLOSED"]
             /\ wbuf' = [wbuf EXCEPT ![c] = <<>>] /\ UNCHANGED <<p, closeAfter, rbuf>>
    BY <1>2, <1>3, <2>2 DEF Inv, Types, States, serverVars, peerVars
  <2>3. CASE wbuf' = [wbuf EXCEPT ![c] = b] /\ UNCHANGED <<stm, p, closeAfter, rbuf>>
    BY <1>1, <1>2, <1>3, <2>3 DEF Inv, Types, serverVars, peerVars
  <2> QED  BY <1>4, <2>1, <2>2, <2>3 DEF Goes
<1>6. ASSUME NEW d \in Peers, d # c PROVE PeerOK(d)'
  <2>1. Same(d)
    BY <1>3, <1>4, <1>6 DEF Same, Goes, Arrive, Inv, Types, peerVars
  <2> QED  BY <2>1, SameKeeps DEF Inv
<1>7. PeerOK(c)'
  <2>1. /\ said'[c] = said[c] /\ closing' = closing /\ got'[c] = got[c] \o a
        /\ taken'[c] = taken[c] /\ authenticated'[c] = authenticated[c] /\ did'[c] = did[c]
        /\ answers'[c] = answers[c] /\ failed' = failed /\ shuttingDown'[c] = shuttingDown[c]
    BY <1>3 DEF Inv, Types, peerVars
  <2>2. c \notin failed /\ Answered(c) = got[c] \o wbuf[c] /\ Answered(c)' = Answered(c)
    BY <1>0, <1>3, <2>1 DEF PeerOK, Sent, WriteStates, Answered
  <2>3. did[c] # <<>> \/ stm[c] = "RESP_WRITE" =>
           /\ authenticated[c] /\ Len(got[c] \o a) >= 2
           /\ SubSeq(got[c] \o a, 1, 2) = <<Version, AuthOK>>
    <3>1. did[c] # <<>> \/ stm[c] = "RESP_WRITE" =>
             /\ authenticated[c] /\ Len(got[c]) >= 2 /\ SubSeq(got[c], 1, 2) = <<Version, AuthOK>>
      BY <1>0 DEF PeerOK, Admits
    <3>2. Len(got[c]) >= 2 =>
             Len(got[c] \o a) >= 2 /\ SubSeq(got[c] \o a, 1, 2) = SubSeq(got[c], 1, 2)
      BY <1>0, <1>1, LetInStays
    <3> QED  BY <3>1, <3>2
  <2>4. stm[c] \in {"AUTH_WRITE", "RESP_WRITE"}
    BY <1>3 DEF WriteStates
  <2>5. ASSUME AllSent(c, n), wbuf'[c] = <<>>
        PROVE  Answered(c)' = got'[c] /\ got'[c] \o wbuf'[c] = got'[c] /\ got'[c] = got[c] \o a
    <3>1. n = Len(wbuf[c])
      BY <2>5 DEF AllSent
    <3>2. Len(b) = 0
      BY <1>1, <3>1
    <3>3. b = <<>>
      BY <1>1, <3>2, EmptySeq DEF Text
    <3>4. a = wbuf[c]
      <4>1. a \o <<>> = a
        BY <1>1, ConcatEmptySeq DEF Text
      <4> QED  BY <1>1, <3>3, <4>1
    <3>5. (got[c] \o a) \o <<>> = got[c] \o a
      BY <1>2, ConcatEmptySeq DEF Text
    <3> QED  BY <2>1, <2>2, <2>5, <3>4, <3>5
  <2>6. CASE /\ AllSent(c, n) /\ Following(c) = "CMD_READ" /\ Goes(c, "CMD_READ") /\ Arrive(c)
    <3>1. /\ stm'[c] = "CMD_READ" /\ wbuf'[c] = <<>> /\ rbuf'[c] = <<>> /\ p'[c] = Zeroed("CMD")
      BY <2>6 DEF Goes, Arrive, Inv, Types
    <3>2. ~shuttingDown[c] /\ (stm[c] = "AUTH_WRITE" => authenticated[c])
      BY <2>6 DEF Following
    <3>3. Fresh(c)'
      BY <3>1 DEF Fresh
    <3>4. Stocked(c)'
      <4>1. ~Over(Zeroed("CMD"))
        BY DEF Over, Zeroed
      <4>2. Len(<<>>) = 0 /\ 0 <= taken[c] /\ 0 <= ReadSize /\ 0 <= AnswerSize
        BY <1>0, SizesAssumption
      <4> QED  BY <1>0, <2>1, <3>1, <4>1, <4>2 DEF PeerOK, Stocked, WriteStates
    <3>5. Heard(c)'
      <4>1. Used(c)' = taken[c]
        <5>1. Len(rbuf'[c]) = 0 /\ taken[c] - 0 = taken[c]
          BY <1>0, <3>1
        <5> QED  BY <2>1, <5>1 DEF Used
      <4>2. taken[c] \in 0 .. Len(said[c])
        BY <1>0, LenProperties DEF PeerOK, Stocked, Text
      <4>3. CmdSays(said[c], Zeroed("CMD"), taken[c])
        BY <1>0, <4>2, NothingSaid
      <4> QED  BY <2>1, <3>1, <4>1, <4>3 DEF Heard
    <3>6. Sent(c)'
      BY <2>1, <2>2, <2>5, <2>6, <3>1 DEF Sent
    <3>7. Admits(c)'
      <4>1. /\ authenticated[c] /\ Len(got'[c]) >= 2
            /\ SubSeq(got'[c], 1, 2) = <<Version, AuthOK>>
        <5>1. CASE stm[c] = "RESP_WRITE"
          BY <2>1, <2>3, <5>1
        <5>2. CASE stm[c] = "AUTH_WRITE"
          <6> DEFINE yes == <<Version, AuthOK>>
          <6>1. authenticated[c] /\ answers[c] = <<yes>>
            BY <1>0, <3>2, <5>2 DEF PeerOK, Admits
          <6>2. yes \in Text /\ Len(yes) = 2 /\ SubSeq(yes, 1, 2) = yes
            <7>1. yes \in Seq(Byte) /\ Len(yes) = 2
              BY DEF Version, AuthOK, Byte
            <7>2. SubSeq(yes, 1, Len(yes)) = yes
              BY <7>1, SubSeqFull
            <7> QED  BY <7>1, <7>2 DEF Text
          <6> HIDE DEF yes
          <6>3. FlattenSeq(<<yes>>) = yes
            BY <6>2, OneAnswer
          <6>4. got'[c] = yes
            BY <2>2, <2>5, <2>6, <3>1, <6>1, <6>3 DEF Answered
          <6> QED  BY <6>1, <6>2, <6>4 DEF yes
        <5> QED  BY <2>4, <5>1, <5>2
      <4>2. Credentialed(said[c])
        BY <1>0, <4>1 DEF PeerOK, Admits
      <4> QED  BY <2>1, <3>1, <4>1, <4>2 DEF Admits
    <3>8. Quiet(c)'
      BY <1>0, <1>3, <2>1, <3>2 DEF PeerOK, Quiet
    <3> QED  BY <3>3, <3>4, <3>5, <3>6, <3>7, <3>8 DEF PeerOK
  <2>7. CASE /\ AllSent(c, n) /\ Following(c) = "CLOSED" /\ Goes(c, "CLOSED")
             /\ wbuf' = [wbuf EXCEPT ![c] = <<>>] /\ UNCHANGED <<p, closeAfter, rbuf>>
    <3>1. stm'[c] = "CLOSED" /\ wbuf'[c] = <<>> /\ rbuf'[c] = rbuf[c] /\ p'[c] = p[c]
      BY <2>7 DEF Goes, Inv, Types
    <3>3. Fresh(c)'
      BY <3>1 DEF Fresh
    <3>4. Stocked(c)'
      <4>1. Len(<<>>) = 0 /\ 0 <= AnswerSize
        BY SizesAssumption
      <4> QED  BY <1>0, <2>1, <3>1, <4>1 DEF PeerOK, Stocked, ReadStates, WriteStates
    <3>5. Heard(c)'
      BY <3>1 DEF Heard
    <3>6. Sent(c)'
      BY <2>1, <2>2, <2>5, <2>7, <3>1 DEF Sent
    <3>7. Admits(c)'
      BY <1>0, <2>1, <2>3, <3>1 DEF PeerOK, Admits
    <3>8. Quiet(c)'
      BY <3>1 DEF Quiet, ReadStates, WriteStates
    <3> QED  BY <3>3, <3>4, <3>5, <3>6, <3>7, <3>8 DEF PeerOK
  <2>8. CASE /\ ~AllSent(c, n) /\ wbuf' = [wbuf EXCEPT ![c] = b]
             /\ UNCHANGED <<stm, p, closeAfter, rbuf>>
    <3>1. stm'[c] = stm[c] /\ wbuf'[c] = b /\ rbuf'[c] = rbuf[c] /\ p'[c] = p[c]
      BY <2>8 DEF Inv, Types
    <3>2. Len(b) > 0 /\ Len(b) <= Len(wbuf[c]) /\ Len(b) \in Nat /\ b # <<>>
      <4>1. n # Len(wbuf[c])
        BY <2>8 DEF AllSent
      <4> QED  BY <1>1, <4>1
    <3>3. Fresh(c)'
      BY <1>3, <3>1 DEF Fresh, WriteStates
    <3>4. Stocked(c)'
      <4>1. Len(b) <= AnswerSize
        BY <1>0, <1>1, <3>2, SizesAssumption DEF PeerOK, Stocked
      <4> QED  BY <1>0, <1>3, <2>1, <3>1, <3>2, <4>1 DEF PeerOK, Stocked, ReadStates, WriteStates
    <3>5. Heard(c)'
      BY <1>0, <2>1, <3>1 DEF PeerOK, Heard, Used
    <3>6. Sent(c)'
      <4>1. (got[c] \o a) \o b = got[c] \o (a \o b)
        <5>1. got[c] \in Text /\ a \in Text /\ b \in Text
          BY <1>0, <1>1
        <5> QED  BY ONLY <5>1, TextsAssociate, Zenon
      <4>2. (c \in Active)'
        BY <1>3, <3>1 DEF Active
      <4> QED  BY <1>1, <2>1, <2>2, <3>1, <4>1, <4>2 DEF Sent
    <3>7. Admits(c)'
      BY <1>0, <2>1, <2>3, <2>4, <3>1 DEF PeerOK, Admits
    <3>8. Quiet(c)'
      BY <1>0, <2>1, <3>1 DEF PeerOK, Quiet
    <3> QED  BY <3>3, <3>4, <3>5, <3>6, <3>7, <3>8 DEF PeerOK
  <2> QED  BY <1>4, <2>6, <2>7, <2>8
<1> QED  BY <1>5, <1>6, <1>7 DEF Inv

(* The three ways a read handler ends, its parser stopped at q: it waits   *)
(* for more; or it answers s, after a handshake, after a command.          *)
Waits(c, q) ==
    ~Over(q) /\ KeepReading(c, q)

AnswersHello(c, q, s) ==
    /\ stm[c] = "AUTH_READ" /\ Over(q) /\ Answering(c, q, s, "AUTH_WRITE")
    /\ q.at = "DONE" /\ Admitted(q) => s = <<Version, AuthOK>>
    /\ authenticated' = [authenticated EXCEPT ![c] = q.at = "DONE" /\ Admitted(q)]
    /\ UNCHANGED <<serverVars, closeAfter, did>>

AnswersCommand(c, q, s) ==
    /\ stm[c] = "CMD_READ" /\ Over(q) /\ Answering(c, q, s, "RESP_WRITE")
    /\ users' \in T!Tables /\ timeout' \in Nat
    /\ closeAfter' \in [Peers -> BOOLEAN] /\ did' \in [Peers -> Seq(Turns)]
    /\ \A d \in Peers : d # c => did'[d] = did[d]
    /\ UNCHANGED authenticated

(* auth_feed() and cmd_feed() lead nowhere else; an answer always fits.    *)
LEMMA HandlerEnds ==
    ASSUME Inv, NEW c \in Peers, NEW STATE q, q \in Parsers,
           stm[c] = "CMD_READ" => CmdKnows(q),
           (stm[c] = "AUTH_READ" /\ AuthRead(c, q)) \/ (stm[c] = "CMD_READ" /\ CmdRead(c, q))
    PROVE  \/ Waits(c, q)
           \/ \E s : Fits(s) /\ s \in Text /\ Fitting(s) = s
                     /\ (AnswersHello(c, q, s) \/ AnswersCommand(c, q, s))
<1>0. users \in T!Tables /\ world \in Worlds /\ timeout \in Nat
  BY DEF Inv, Types
<1>1. CASE ~Over(q)
  BY <1>1 DEF AuthRead, CmdRead, Waits, Over
<1>2. CASE stm[c] = "AUTH_READ" /\ Over(q)
  <2> DEFINE s == <<Version, IF q.at = "ERROR" THEN Unsupported
                             ELSE IF Admitted(q) THEN AuthOK ELSE AuthFail>>
  <2>1. /\ Answering(c, q, s, "AUTH_WRITE")
        /\ authenticated' = [authenticated EXCEPT ![c] = q.at = "DONE" /\ Admitted(q)]
        /\ UNCHANGED <<serverVars, closeAfter, did>>
    BY <1>2 DEF AuthRead
  <2>2. s \in Text /\ Len(s) = 2
    BY DEF Version, Unsupported, AuthOK, AuthFail, Byte, Text
  <2>3. AnswerSize \in Nat /\ 2 <= AnswerSize
    BY SizesAssumption
  <2>4. q.at = "DONE" /\ Admitted(q) => s = <<Version, AuthOK>>
    OBVIOUS
  <2> HIDE DEF s
  <2>5. Fits(s)
    BY <2>2, <2>3 DEF Fits
  <2>6. Fitting(s) = s
    BY <2>2, <2>3, FittingWhole
  <2>7. AnswersHello(c, q, s)
    BY <1>2, <2>1, <2>4 DEF AnswersHello
  <2> QED  BY <2>2, <2>5, <2>6, <2>7
<1>3. CASE stm[c] = "CMD_READ" /\ q.at = "DONE"
  <2> DEFINE s == Answer(q)  turn == [q |-> q, users |-> users, world |-> world]
  <2>1. Execute(c, q)
    BY <1>3 DEF CmdRead, Over
  <2>2. Fits(s)
    BY <1>0, AnswerFits
  <2>3. s \in Text /\ Fitting(s) = s
    BY <2>2, FittingWhole DEF Fits
  <2>4. turn \in Turns
    BY <1>0 DEF Turns
  <2>5. users' \in T!Tables
    <3>1. /\ q.cmd = AddUser => T!Added(users, Account(q)) \in T!Tables
          /\ T!Deleted(users, CString(q.uname)) \in T!Tables
      BY <1>0, <1>3, ExecutedTable
    <3>2. CASE q.cmd = AddUser
      BY <2>1, <3>1, <3>2 DEF Execute, AddUser, DelUser
    <3>3. CASE q.cmd = DelUser
      BY <2>1, <3>1, <3>3 DEF Execute, AddUser, DelUser
    <3>4. CASE q.cmd # AddUser /\ q.cmd # DelUser
      BY <1>0, <2>1, <3>4 DEF Execute
    <3> QED  BY <3>2, <3>3, <3>4
  <2>6. timeout' \in Nat
    BY <1>0, <2>1 DEF Execute, Parsers
  <2>7. closeAfter' \in [Peers -> BOOLEAN]
    BY <2>1 DEF Execute, Inv, Types
  <2> HIDE DEF turn
  <2>8. did' = [did EXCEPT ![c] = Append(@, turn)] /\ did \in [Peers -> Seq(Turns)]
    BY <2>1 DEF Execute, turn, Inv, Types, Turns
  <2>9. did' \in [Peers -> Seq(Turns)] /\ \A d \in Peers : d # c => did'[d] = did[d]
    <3>1. Append(did[c], turn) \in Seq(Turns)
      BY <2>4, <2>8, AppendProperties
    <3> QED  BY <2>8, <3>1
  <2>10. AnswersCommand(c, q, s)
    BY <1>3, <2>1, <2>5, <2>6, <2>7, <2>9 DEF AnswersCommand, Execute, Over
  <2> HIDE DEF s
  <2> QED  BY <2>2, <2>3, <2>10
<1>4. CASE stm[c] = "CMD_READ" /\ q.at = "ERROR"
  <2> DEFINE s == <<BadArgs>>
  <2>1. Answering(c, q, s, "RESP_WRITE") /\ UNCHANGED <<serverVars, authenticated, closeAfter, did>>
    BY <1>4 DEF CmdRead, Over
  <2>2. BadArgs \in Byte
    BY DEF BadArgs, Byte
  <2>3. Fits(s)
    BY <2>2, StatusFits
  <2>4. s \in Text /\ Fitting(s) = s
    BY <2>3, FittingWhole DEF Fits
  <2>5. /\ users' \in T!Tables /\ timeout' \in Nat
        /\ closeAfter' \in [Peers -> BOOLEAN] /\ did' \in [Peers -> Seq(Turns)]
        /\ \A d \in Peers : d # c => did'[d] = did[d]
    BY <2>1 DEF Inv, Types, serverVars, Turns
  <2> HIDE DEF s
  <2>6. AnswersCommand(c, q, s)
    BY <1>4, <2>1, <2>5 DEF AnswersCommand, Over
  <2> QED  BY <2>3, <2>4, <2>6
<1> QED  BY <1>1, <1>2, <1>3, <1>4 DEF Over

(* Both read handlers, however much recv() takes.                          *)
LEMMA ReadKeeps ==
    ASSUME Inv, NEW c \in Peers, NEW n \in 1 .. ReadSize, Read(c, n)
    PROVE  Inv'
<1> DEFINE b == rbuf[c] \o SubSeq(said[c], taken[c] + 1, taken[c] + n)
           r == Parse(stm[c], p[c], b)
           q == r.q
           k == r.used
           rest == SubSeq(b, k + 1, Len(b))
<1>0. /\ got[c] \in Text /\ said[c] \in Text /\ taken[c] \in Nat /\ PeerOK(c) /\ n \in Nat /\ n > 0
      /\ stm[c] \in ReadStates /\ taken[c] + n <= Len(said[c]) /\ Len(said[c]) \in Nat
      /\ ReadSize \in Nat /\ n <= ReadSize /\ answers[c] \in Seq(Text)
  BY LenProperties, SizesAssumption DEF Read, Inv, Types, Text
<1>1. /\ rbuf[c] = <<>> /\ wbuf[c] = <<>> /\ ~Over(p[c]) /\ c \notin failed /\ ~closing
  BY <1>0 DEF PeerOK, Stocked, Sent, Quiet, ReadStates
<1>2. b = SubSeq(said[c], taken[c] + 1, taken[c] + n) /\ b \in Text /\ Len(b) = n
  <2> DEFINE x == SubSeq(said[c], taken[c] + 1, taken[c] + n)
  <2>1. x \in Text /\ Len(x) = n
    <3>1. \A i \in taken[c] + 1 .. taken[c] + n : said[c][i] \in Byte
      BY <1>0, ElementOfSeq DEF Text
    <3>2. /\ x \in Seq(Byte)
          /\ Len(x) = IF taken[c] + 1 <= taken[c] + n
                    THEN (taken[c] + n) - (taken[c] + 1) + 1 ELSE 0
      BY <1>0, <3>1, SubSeqProperties
    <3>3. (IF taken[c] + 1 <= taken[c] + n THEN (taken[c] + n) - (taken[c] + 1) + 1 ELSE 0) = n
      BY <1>0
    <3> QED  BY <3>2, <3>3 DEF Text
  <2> HIDE DEF x
  <2>2. <<>> \o x = x
    BY <2>1, ConcatEmptySeq DEF Text
  <2> QED  BY <1>1, <2>1, <2>2 DEF x
<1>3. PICK a \in Nat : Says(stm[c], said[c], p[c], a, taken[c])
  <2>1. Used(c) = taken[c]
    <3>1. Len(rbuf[c]) = 0 /\ taken[c] - 0 = taken[c]
      BY <1>0, <1>1
    <3> QED  BY <3>1 DEF Used
  <2>2. 0 \in Nat
    OBVIOUS
  <2>3. CASE stm[c] = "AUTH_READ"
    <3>1. Says(stm[c], said[c], p[c], 0, taken[c])
      BY <1>0, <2>1, <2>3 DEF PeerOK, Heard, Says
    <3> QED  BY <2>2, <3>1
  <2>4. CASE stm[c] = "CMD_READ"
    BY <1>0, <2>1, <2>4 DEF PeerOK, Heard, Says, CmdSays
  <2> QED  BY <1>0, <2>3, <2>4 DEF ReadStates
<1>4. /\ k \in 0 .. n /\ Says(stm[c], said[c], q, a, taken[c] + k) /\ (~Over(q) => k = n)
  <2>1. r = Parse(stm[c], p[c], SubSeq(said[c], taken[c] + 1, taken[c] + n))
    BY <1>2
  <2> HIDE DEF r
  <2> QED  BY <1>0, <1>3, <2>1, Parsed
<1>5. rest \in Text /\ Len(rest) = n - k
  <2> HIDE DEF b, k
  <2>1. ASSUME NEW i \in k + 1 .. n PROVE b[i] \in Byte
    <3>1. i \in 1 .. Len(b)
      BY <1>0, <1>2, <1>4, SMTT(30)
    <3> QED  BY <1>2, <3>1, ElementOfSeq DEF Text
  <2>2. /\ SubSeq(b, k + 1, n) \in Seq(Byte)
        /\ Len(SubSeq(b, k + 1, n)) = IF k + 1 <= n THEN n - (k + 1) + 1 ELSE 0
    <3>1. k + 1 \in Int /\ n \in Int
      BY <1>0, <1>4
    <3> QED  BY <2>1, <3>1, SubSeqProperties
  <2>3. (IF k + 1 <= n THEN n - (k + 1) + 1 ELSE 0) = n - k
    BY <1>0, <1>4
  <2> QED  BY <1>2, <2>2, <2>3 DEF Text
<1>6. /\ rbuf' = [rbuf EXCEPT ![c] = rest] /\ taken' = [taken EXCEPT ![c] = @ + n]
      /\ (stm[c] = "AUTH_READ" /\ AuthRead(c, q)) \/ (stm[c] = "CMD_READ" /\ CmdRead(c, q))
      /\ UNCHANGED <<world, closing, peerVars, got, shuttingDown, failed>>
  BY DEF Read
<1> HIDE DEF rest, q, k, r, b
<1>7. q \in Parsers /\ (stm[c] = "CMD_READ" => CmdKnows(q))
  BY <1>4 DEF Says, AuthSays, CmdFrom
<1>8. \/ Waits(c, q)
      \/ \E s : Fits(s) /\ s \in Text /\ Fitting(s) = s
                /\ (AnswersHello(c, q, s) \/ AnswersCommand(c, q, s))
  BY <1>6, <1>7, HandlerEnds
<1>9. /\ rbuf'[c] = rest /\ taken'[c] = taken[c] + n /\ said' = said /\ got' = got
      /\ closing' = closing /\ failed' = failed /\ shuttingDown' = shuttingDown
  BY <1>6 DEF Inv, Types, peerVars
<1>10. Used(c)' = taken[c] + k
  <2>1. (taken[c] + n) - (n - k) = taken[c] + k
    BY <1>0, <1>4
  <2> QED  BY <1>5, <1>9, <2>1 DEF Used
<1>11. /\ taken'[c] <= Len(said'[c]) /\ Len(rbuf'[c]) <= taken'[c] /\ Len(rbuf'[c]) <= ReadSize
       /\ taken'[c] \in Nat
  BY <1>0, <1>4, <1>5, <1>9
<1>12. /\ rbuf' \in [Peers -> Text] /\ taken' \in [Peers -> Nat]
       /\ \A d \in Peers : d # c => rbuf'[d] = rbuf[d] /\ taken'[d] = taken[d]
  BY <1>0, <1>5, <1>6 DEF Inv, Types
<1>13. CASE Waits(c, q)
  <2>0. /\ p' = [p EXCEPT ![c] = q] /\ ~Over(q)
        /\ UNCHANGED <<serverVars, stm, wbuf, authenticated, closeAfter, did, answers>>
    BY <1>13 DEF Waits, KeepReading
  <2>1. Types'
    BY <1>6, <1>7, <1>12, <2>0 DEF Inv, Types, serverVars, peerVars
  <2>2. ASSUME NEW d \in Peers, d # c PROVE PeerOK(d)'
    <3>1. Same(d)
      BY <1>9, <1>12, <2>0, <2>2 DEF Same, Inv, Types
    <3> QED  BY <3>1, SameKeeps DEF Inv
  <2>3. /\ stm' = stm /\ wbuf' = wbuf /\ p'[c] = q /\ authenticated' = authenticated
        /\ did' = did /\ answers' = answers
    BY <2>0 DEF Inv, Types
  <2>4. PeerOK(c)'
    <3>1. Fresh(c)'
      BY <1>0, <2>3 DEF Fresh, ReadStates
    <3>2. rest = <<>>
      <4>1. Len(rest) = 0
        BY <1>0, <1>4, <1>5, <2>0
      <4> QED  BY <1>5, <4>1, EmptySeq DEF Text
    <3>3. Stocked(c)'
      BY <1>0, <1>1, <1>9, <1>11, <2>0, <2>3, <3>2 DEF PeerOK, Stocked, ReadStates, WriteStates
    <3>4. Heard(c)'
      BY <1>0, <1>4, <1>9, <1>10, <2>3 DEF Heard, Says, CmdSays, ReadStates
    <3>5. Sent(c)'
      BY <1>0, <1>9, <2>3 DEF PeerOK, Sent, Answered, Active
    <3>6. Admits(c)'
      BY <1>0, <1>9, <2>3 DEF PeerOK, Admits
    <3>7. Quiet(c)'
      BY <1>1, <1>9 DEF Quiet
    <3> QED  BY <3>1, <3>3, <3>4, <3>5, <3>6, <3>7 DEF PeerOK
  <2> QED  BY <2>1, <2>2, <2>4 DEF Inv
<1>14. ASSUME NEW s, Fits(s), s \in Text, Fitting(s) = s, NEW state \in WriteStates,
              Answering(c, q, s, state), Over(q),
              state = (IF stm[c] = "AUTH_READ" THEN "AUTH_WRITE" ELSE "RESP_WRITE"),
              users' \in T!Tables, timeout' \in Nat, closeAfter' \in [Peers -> BOOLEAN],
              authenticated' \in [Peers -> BOOLEAN], did' \in [Peers -> Seq(Turns)],
              \A d \in Peers : d # c => did'[d] = did[d] /\ authenticated'[d] = authenticated[d],
              Admits(c)'
       PROVE  Inv'
  <2>0. /\ wbuf' = [wbuf EXCEPT ![c] = s] /\ answers' = [answers EXCEPT ![c] = Append(@, s)]
        /\ p' = [p EXCEPT ![c] = q] /\ stm' = [stm EXCEPT ![c] = state]
    BY <1>14 DEF Answering, Goes
  <2>1. Types'
    <3>1. Append(answers[c], s) \in Seq(Text)
      BY <1>0, <1>14, AppendProperties
    <3>2. state \in States
      BY <1>14 DEF States
    <3>3. /\ wbuf' \in [Peers -> Text] /\ answers' \in [Peers -> Seq(Text)]
          /\ p' \in [Peers -> Parsers] /\ stm' \in [Peers -> States]
      BY <1>7, <1>14, <2>0, <3>1, <3>2 DEF Inv, Types
    <3> QED  BY <1>6, <1>12, <1>14, <3>3 DEF Inv, Types, peerVars
  <2>2. ASSUME NEW d \in Peers, d # c PROVE PeerOK(d)'
    <3>1. Same(d)
      BY <1>9, <1>12, <1>14, <2>0, <2>2 DEF Same, Inv, Types
    <3> QED  BY <3>1, SameKeeps DEF Inv
  <2>3. /\ stm'[c] = state /\ wbuf'[c] = s /\ p'[c] = q /\ answers'[c] = Append(answers[c], s)
    BY <2>0 DEF Inv, Types
  <2>4. PeerOK(c)'
    <3>1. Fresh(c)'
      BY <1>14, <2>3 DEF Fresh, WriteStates
    <3>2. Stocked(c)'
      <4>1. s # <<>> /\ Len(s) <= AnswerSize
        BY <1>14 DEF Fits
      <4> QED  BY <1>11, <1>14, <2>3, <4>1 DEF Stocked, ReadStates, WriteStates
    <3>3. Heard(c)'
      BY <1>0, <1>4, <1>9, <1>10, <1>14, <2>3 DEF Heard, Says, CmdSays, ReadStates
    <3>4. Sent(c)'
      <4>1. FlattenSeq(answers[c]) = got[c] \o <<>>
        BY <1>0, <1>1 DEF PeerOK, Sent, Answered
      <4>2. got[c] \o <<>> = got[c]
        BY <1>0, ConcatEmptySeq DEF Text
      <4>3. FlattenSeq(Append(answers[c], s)) = FlattenSeq(answers[c]) \o s
        BY <1>0, <1>14, FlattenAppends DEF Text
      <4>4. Answered(c)' = got'[c] \o wbuf'[c]
        BY <1>9, <2>3, <4>1, <4>2, <4>3 DEF Answered
      <4>5. (c \in Active)'
        BY <1>14, <2>3 DEF Active
      <4> QED  BY <1>1, <1>9, <4>4, <4>5 DEF Sent
    <3>5. Quiet(c)'
      BY <1>1, <1>9 DEF Quiet
    <3> QED  BY <1>14, <3>1, <3>2, <3>3, <3>4, <3>5 DEF PeerOK
  <2> QED  BY <2>1, <2>2, <2>4 DEF Inv
<1>15. ASSUME NEW s, Fits(s), s \in Text, Fitting(s) = s, AnswersHello(c, q, s)
       PROVE  Inv'
  <2>1. /\ stm[c] = "AUTH_READ" /\ Over(q) /\ Answering(c, q, s, "AUTH_WRITE")
        /\ q.at = "DONE" /\ Admitted(q) => s = <<Version, AuthOK>>
        /\ authenticated' = [authenticated EXCEPT ![c] = q.at = "DONE" /\ Admitted(q)]
        /\ UNCHANGED <<serverVars, closeAfter, did>>
    BY <1>15 DEF AnswersHello
  <2>2. /\ users' \in T!Tables /\ timeout' \in Nat /\ closeAfter' \in [Peers -> BOOLEAN]
        /\ did' \in [Peers -> Seq(Turns)] /\ did' = did
    BY <2>1 DEF Inv, Types, serverVars
  <2>3. /\ authenticated' \in [Peers -> BOOLEAN]
        /\ authenticated'[c] = (q.at = "DONE" /\ Admitted(q))
        /\ \A d \in Peers : d # c => authenticated'[d] = authenticated[d]
    BY <2>1 DEF Inv, Types
  <2>4. Admits(c)'
    <3>1. answers[c] = <<>> /\ did[c] = <<>>
      BY <1>0, <2>1 DEF PeerOK, Admits
    <3>2. stm'[c] = "AUTH_WRITE" /\ answers'[c] = Append(<<>>, s)
      BY <2>1, <3>1 DEF Answering, Goes, Inv, Types
    <3>3. Append(<<>>, s) = <<s>>
      OBVIOUS
    <3>4. authenticated'[c] => Credentialed(said[c])
      <4>1. AuthSays(said[c], q, taken[c] + k)
        BY <1>4, <2>1 DEF Says
      <4> QED  BY <1>0, <2>3, <4>1, AdmittedStream
    <3>5. authenticated'[c] => answers'[c] = << <<Version, AuthOK>> >>
      BY <2>1, <2>3, <3>2, <3>3
    <3> QED  BY <1>9, <2>2, <3>1, <3>2, <3>4, <3>5 DEF Admits
  <2>5. "AUTH_WRITE" \in WriteStates
    BY DEF WriteStates
  <2> QED  BY <1>14, <1>15, <2>1, <2>2, <2>3, <2>4, <2>5
<1>16. ASSUME NEW s, Fits(s), s \in Text, Fitting(s) = s, AnswersCommand(c, q, s)
       PROVE  Inv'
  <2>1. /\ stm[c] = "CMD_READ" /\ Over(q) /\ Answering(c, q, s, "RESP_WRITE")
        /\ users' \in T!Tables /\ timeout' \in Nat
        /\ closeAfter' \in [Peers -> BOOLEAN] /\ did' \in [Peers -> Seq(Turns)]
        /\ \A d \in Peers : d # c => did'[d] = did[d]
        /\ authenticated' = authenticated
    BY <1>16 DEF AnswersCommand
  <2>2. authenticated' \in [Peers -> BOOLEAN]
    BY <2>1 DEF Inv, Types
  <2>3. Admits(c)'
    <3>1. /\ authenticated[c] /\ Credentialed(said[c])
          /\ Len(got[c]) >= 2 /\ SubSeq(got[c], 1, 2) = <<Version, AuthOK>>
      BY <1>0, <2>1 DEF PeerOK, Admits
    <3>2. stm'[c] = "RESP_WRITE"
      BY <2>1 DEF Answering, Goes, Inv, Types
    <3> QED  BY <1>9, <2>1, <3>1, <3>2 DEF Admits
  <2>4. "RESP_WRITE" \in WriteStates
    BY DEF WriteStates
  <2> QED  BY <1>14, <1>16, <2>1, <2>2, <2>3, <2>4
<1> QED  BY <1>8, <1>13, <1>15, <1>16

-----------------------------------------------------------------------------
(* The clients *)

(* A length byte and its bytes.                                            *)
LEMMA StringIsText ==
    ASSUME NEW s \in Seq(Byte)
    PROVE  String(s) \in Text
<1> DEFINE n == Len(s) % 256
<1>1. Len(s) \in Nat /\ n \in Nat /\ n <= 255 /\ n <= Len(s)
  BY LenProperties
<1>2. n \in Byte
  BY <1>1, Bytes
<1>3. \A i \in 1 .. n : s[i] \in Byte
  BY <1>1, ElementOfSeq
<1>4. String(s) = <<n>> \o SubSeq(s, 1, n)
  BY DEF String
<1> HIDE DEF n
<1>5. SubSeq(s, 1, n) \in Text /\ <<n>> \in Text
  BY <1>1, <1>2, <1>3, SubSeqProperties, ByteText DEF Text
<1> QED  BY <1>4, <1>5, TextsJoin

(* No argument has a NUL, and each is bytes.                               *)
LEMMA ArgumentsAreText ==
    ASSUME NEW k \in Roles
    PROVE  /\ k.account.name \in Seq(Byte) /\ k.account.pass \in Seq(Byte)
           /\ k.cred.name \in Seq(Byte) /\ k.cred.pass \in Seq(Byte)
<1>1. (1 .. 255) \subseteq Byte
  BY DEF Byte
<1>2. Seq(1 .. 255) \subseteq Seq(Byte)
  BY <1>1, SeqMonotonic
<1>3. k.account.name \in Seq(1 .. 255) /\ k.account.pass \in Seq(1 .. 255)
      /\ k.cred.name \in Seq(1 .. 255) /\ k.cred.pass \in Seq(1 .. 255)
  BY DEF Roles
<1> QED  BY <1>2, <1>3

(* What the client sends are bytes.                                        *)
LEMMA CredentialIsText ==
    ASSUME NEW a, a.name \in Seq(Byte), a.pass \in Seq(Byte)
    PROVE  Credential(a) \in Text
<1> DEFINE h == <<Version>>
<1>1. h \in Text
  BY ByteText DEF Version, Byte
<1> HIDE DEF h
<1>2. String(a.name) \in Text /\ String(a.pass) \in Text
  BY StringIsText
<1>3. h \o String(a.name) \in Text
  BY <1>1, <1>2, TextsJoin
<1>4. (h \o String(a.name)) \o String(a.pass) \in Text
  BY <1>2, <1>3, TextsJoin
<1> QED  BY <1>4 DEF Credential, h

(* So is its command.                                                      *)
LEMMA RequestIsText ==
    ASSUME NEW k \in Roles, k.do \in Asks, Usable(k)
    PROVE  Request(k) \in Text
<1>0. /\ k.account.name \in Seq(Byte) /\ k.account.pass \in Seq(Byte) /\ k.seconds \in Nat
      /\ k.do \in {"add-user", "del-user", "users", "stats", "set-timeout", "log"}
  <2>1. k.seconds \in Nat
    BY DEF Roles
  <2>2. k.do \in {"add-user", "del-user", "users", "stats", "set-timeout", "log"}
    BY DEF Asks, Usable
  <2> QED  BY <2>1, <2>2, ArgumentsAreText
<1>1. String(k.account.name) \in Text /\ String(k.account.pass) \in Text
  BY <1>0, StringIsText
<1>2. BigEndian(k.seconds, 4) \in Text
  BY <1>0, BigEndianBytes
<1>3. /\ <<AddUser>> \in Text /\ <<DelUser>> \in Text /\ <<ListUsers>> \in Text
      /\ <<GetStats>> \in Text /\ <<SetTimeout>> \in Text /\ <<GetLog>> \in Text
  BY ByteText DEF AddUser, DelUser, ListUsers, GetStats, SetTimeout, GetLog, Byte
<1>4. CASE k.do = "add-user"
  <2> DEFINE h == <<AddUser>>
  <2>1. Request(k) = (h \o String(k.account.name)) \o String(k.account.pass)
    BY <1>4 DEF Request
  <2>2. h \in Text
    BY <1>3
  <2> HIDE DEF h
  <2>3. h \o String(k.account.name) \in Text
    BY <1>1, <2>2, TextsJoin
  <2> QED  BY <1>1, <2>1, <2>3, TextsJoin
<1>5. CASE k.do = "del-user"
  <2> DEFINE h == <<DelUser>>
  <2>1. Request(k) = h \o String(k.account.name)
    BY <1>5 DEF Request
  <2>2. h \in Text
    BY <1>3
  <2> HIDE DEF h
  <2> QED  BY <1>1, <2>1, <2>2, TextsJoin
<1>6. CASE k.do = "set-timeout"
  <2> DEFINE h == <<SetTimeout>>
  <2>1. Request(k) = h \o BigEndian(k.seconds, 4)
    BY <1>6 DEF Request
  <2>2. h \in Text
    BY <1>3
  <2> HIDE DEF h
  <2> QED  BY <1>2, <2>1, <2>2, TextsJoin
<1>7. CASE k.do \in {"users", "stats", "log"}
  BY <1>3, <1>7 DEF Request
<1> QED  BY <1>0, <1>4, <1>5, <1>6, <1>7

(* The casts give every peer a role.                                       *)
LEMMA ClientStarts == ClientInit => IInv
<1> SUFFICES ASSUME ClientInit PROVE IInv
  OBVIOUS
<1>1. Inv
  BY InitHolds DEF ClientInit
<1>2. /\ task \in Casts /\ task \in [Peers -> Roles]
      /\ cpc = [c \in Peers |-> IF IsClient(task[c]) THEN "start" ELSE "exit"]
  BY CastsAssumption DEF ClientInit
<1>3. ASSUME NEW c \in Peers, cpc[c] # "exit" PROVE task[c].do \in Asks
  <2>1. IsClient(task[c]) /\ task[c] \in Roles
    BY <1>2, <1>3
  <2> QED  BY <2>1 DEF IsClient, Roles, Asks
<1>4. cpc \in [Peers -> {"start", "auth", "answer", "bye", "exit"}]
  BY <1>2
<1> QED  BY <1>1, <1>2, <1>3, <1>4 DEF IInv, ClientTypes

(* Where a client goes on it was a client, and where it leaves it has no   *)
(* more to say.                                                            *)
LEMMA ClientGoesOn ==
    ASSUME ClientTypes, NEW c \in Peers, NEW to \in {"start", "auth", "answer", "bye", "exit"},
           Steps(c, to), cpc[c] # "exit", UNCHANGED task
    PROVE  ClientTypes'
<1>1. cpc' = [cpc EXCEPT ![c] = to]
  BY DEF Steps
<1>2. cpc' \in [Peers -> {"start", "auth", "answer", "bye", "exit"}]
  BY <1>1 DEF ClientTypes
<1>3. \A d \in Peers : cpc'[d] # "exit" => cpc[d] # "exit"
  BY <1>1 DEF ClientTypes
<1> QED  BY <1>2, <1>3 DEF ClientTypes

(* The clients wait.                                                       *)
LEMMA ClientIdle ==
    ASSUME ClientTypes, UNCHANGED clientVars
    PROVE  ClientTypes'
BY DEF ClientTypes, clientVars

(* Every step of a client.                                                 *)
LEMMA ClientKeeps ==
    ASSUME IInv, NEW c \in Peers, Client(c)
    PROVE  IInv'
<1>0. /\ Inv /\ ClientTypes /\ task[c] \in Roles
      /\ cpc[c] # "exit" => task[c].do \in Asks
  BY CastsAssumption DEF IInv, ClientTypes
<1>1. CASE Dial(c)
  <2>1. ClientTypes'
    BY <1>0, <1>1, ClientGoesOn DEF Dial
  <2>2. Credential(task[c].cred) \in Text
    <3>1. task[c].cred.name \in Seq(Byte) /\ task[c].cred.pass \in Seq(Byte)
      BY <1>0, ArgumentsAreText
    <3> QED  BY <3>1, CredentialIsText
  <2>3. Connect(c, Credential(task[c].cred)) \/ UNCHANGED vars
    BY <1>1 DEF Dial
  <2> QED  BY <1>0, <2>1, <2>2, <2>3, ConnectKeeps, UnchangedKeeps DEF IInv
<1>2. CASE Authenticate(c)
  <2>1. cpc[c] = "auth" /\ UNCHANGED task
    BY <1>2 DEF Authenticate
  <2>2. CASE Usable(task[c]) /\ Sends(c, Request(task[c])) /\ Steps(c, "answer")
    <3>1. Request(task[c]) \in Text
      BY <1>0, <2>1, <2>2, RequestIsText
    <3> QED  BY <1>0, <2>1, <2>2, <3>1, ClientGoesOn, SendsKeeps DEF IInv
  <2>3. CASE Sends(c, <<Close>>) /\ Steps(c, "bye")
    <3>1. <<Close>> \in Text
      BY ByteText DEF Close, Byte
    <3> QED  BY <1>0, <2>1, <2>3, <3>1, ClientGoesOn, SendsKeeps DEF IInv
  <2>4. CASE Leaves(c)
    BY <1>0, <2>1, <2>4, ClientGoesOn, FinishKeeps DEF IInv, Leaves
  <2> QED  BY <1>2, <2>2, <2>3, <2>4 DEF Authenticate
<1>3. CASE ReadAnswer(c)
  <2>1. cpc[c] = "answer" /\ UNCHANGED task /\ Sends(c, <<Close>>) /\ Steps(c, "bye")
    BY <1>3 DEF ReadAnswer
  <2>2. <<Close>> \in Text
    BY ByteText DEF Close, Byte
  <2> QED  BY <1>0, <2>1, <2>2, ClientGoesOn, SendsKeeps DEF IInv
<1>4. CASE ReadBye(c)
  <2>1. cpc[c] = "bye" /\ UNCHANGED task /\ Steps(c, "exit") /\ Finish(c)
    BY <1>4 DEF ReadBye, Leaves
  <2> QED  BY <1>0, <2>1, ClientGoesOn, FinishKeeps DEF IInv
<1>5. CASE HungUp(c)
  <2>1. cpc[c] # "exit" /\ UNCHANGED task /\ Steps(c, "exit") /\ Finish(c)
    BY <1>5 DEF HungUp, Leaves, Short
  <2> QED  BY <1>0, <2>1, ClientGoesOn, FinishKeeps DEF IInv
<1> QED  BY <1>1, <1>2, <1>3, <1>4, <1>5 DEF Client

(* Every step of the server with one peer.                                 *)
LEMMA SessionKeeps ==
    ASSUME Inv, NEW c \in Peers, Session(c)
    PROVE  Inv'
BY AcceptKeeps, ReadEndKeeps, ReadKeeps, WriteKeeps DEF Session

(* Every step of the peers and the server.                                 *)
LEMMA ClientNextKeeps == IInv /\ [ClientNext]_allVars => IInv'
<1> SUFFICES ASSUME IInv, [ClientNext]_allVars PROVE IInv'
  OBVIOUS
<1>0. Inv /\ ClientTypes
  BY DEF IInv
<1>1. CASE BeginShutdown /\ UNCHANGED clientVars
  BY <1>0, <1>1, ShutdownKeeps, ClientIdle DEF IInv
<1>2. CASE UNCHANGED allVars
  <2>1. UNCHANGED vars /\ UNCHANGED clientVars
    BY <1>2 DEF allVars
  <2> QED  BY <1>0, <2>1, UnchangedKeeps, ClientIdle DEF IInv
<1>3. ASSUME NEW c \in Peers, Client(c) PROVE IInv'
  BY <1>3, ClientKeeps
<1>4. ASSUME NEW c \in Peers, Stranger(c) PROVE IInv'
  <2>1. task[c].words \in Text
    BY <1>0, CastsAssumption DEF ClientTypes, Roles, Text
  <2>2. (Connect(c, task[c].words) \/ Finish(c)) /\ UNCHANGED clientVars
    BY <1>4 DEF Stranger
  <2> QED  BY <1>0, <2>1, <2>2, ConnectKeeps, FinishKeeps, ClientIdle DEF IInv
<1>5. ASSUME NEW c \in Peers, Browses(c) PROVE IInv'
  BY <1>0, <1>5, TrafficKeeps, ClientIdle DEF IInv, Browses
<1>6. ASSUME NEW c \in Peers, Server(c) PROVE IInv'
  BY <1>0, <1>6, SessionKeeps, ClientIdle DEF IInv, Server
<1>7. ASSUME NEW c \in Peers, Failure(c) PROVE IInv'
  BY <1>0, <1>7, FailKeeps, ClientIdle DEF IInv, Failure
<1> QED  BY <1>1, <1>2, <1>3, <1>4, <1>5, <1>6, <1>7 DEF ClientNext, ClientsEnded

-----------------------------------------------------------------------------
(* The theorems *)

(* The invariant holds of every run of any peers with the server.          *)
THEOREM SessionsInvariant == ClientSpec => []IInv
<1>1. ClientInit => IInv
  BY ClientStarts
<1>2. IInv /\ [ClientNext]_allVars => IInv'
  BY ClientNextKeeps
<1> QED  BY <1>1, <1>2, PTL DEF ClientSpec

(* The invariant says so of each session.                                  *)
LEMMA InvBuffers == IInv => BuffersAreSound
<1> SUFFICES ASSUME IInv PROVE BuffersAreSound
  OBVIOUS
<1>1. Types /\ \A c \in Peers : PeerOK(c)
  BY DEF IInv, Inv
<1>2. ASSUME NEW c \in Peers
      PROVE  /\ stm[c] \in ReadStates \cup WriteStates \cup {"OUTSIDE", "BACKLOG", "CLOSED"}
             /\ {authenticated[c], closeAfter[c], shuttingDown[c]} \subseteq BOOLEAN
             /\ taken[c] \in 0 .. Len(said[c])
             /\ Len(rbuf[c]) <= ReadSize /\ Len(wbuf[c]) <= AnswerSize
             /\ stm[c] \in ReadStates => rbuf[c] = <<>>
             /\ stm[c] \in WriteStates <=> wbuf[c] # <<>> /\ c \in Active
  <2>1. Stocked(c) /\ said[c] \in Text /\ taken[c] \in Nat /\ Len(said[c]) \in Nat
    BY <1>1, LenProperties DEF PeerOK, Types, Text
  <2>2. /\ stm[c] \in ReadStates \cup WriteStates \cup {"OUTSIDE", "BACKLOG", "CLOSED"}
        /\ {authenticated[c], closeAfter[c], shuttingDown[c]} \subseteq BOOLEAN
    BY <1>1 DEF Types, States
  <2>3. stm[c] \in WriteStates <=> wbuf[c] # <<>> /\ c \in Active
    BY <2>1 DEF Stocked, Active
  <2>4. /\ taken[c] \in 0 .. Len(said[c])
        /\ Len(rbuf[c]) <= ReadSize /\ Len(wbuf[c]) <= AnswerSize
        /\ stm[c] \in ReadStates => rbuf[c] = <<>>
    BY <2>1 DEF Stocked
  <2> QED  BY <2>2, <2>3, <2>4
<1> QED  BY <1>1, <1>2 DEF BuffersAreSound, Types

(* No handler of the monitoring protocol ever meets a full buffer:         *)
(* read_buffer is empty while a session waits for more, every answer fits  *)
(* write_buffer (mng_cmd_read_on_arrival(), exec_command()), and the table *)
(* keeps its type.                                                         *)
THEOREM BuffersStaySound == ClientSpec => []BuffersAreSound
BY SessionsInvariant, InvBuffers, PTL

(* The bytes just used are the message of the parser.                      *)
LEMMA InvExecuted == IInv => ExecutedAsSent
<1> SUFFICES ASSUME IInv, NEW c \in Peers
             PROVE  /\ stm[c] = "AUTH_WRITE" /\ p[c].at = "DONE" =>
                          SubSeq(said[c], 1, Used(c)) = Handshake(p[c])
                    /\ stm[c] = "RESP_WRITE" =>
                          SubSeq(said[c], Used(c) - Len(Encoded(p[c])) + 1, Used(c)) = Encoded(p[c])
  BY DEF ExecutedAsSent
<1>0. Heard(c) /\ Stocked(c) /\ said[c] \in Text /\ Len(said[c]) \in Nat
  BY LenProperties DEF IInv, Inv, PeerOK, Types, Text
<1>1. ASSUME stm[c] = "AUTH_WRITE", p[c].at = "DONE"
      PROVE  SubSeq(said[c], 1, Used(c)) = Handshake(p[c])
  <2>1. /\ p[c] \in Parsers /\ AuthKnows(p[c])
        /\ SubSeq(said[c], 1, Used(c)) = AuthTaken(p[c])
    BY <1>0, <1>1 DEF Heard, AuthSays
  <2> QED  BY <1>1, <2>1, TakenIsEncoded
<1>2. ASSUME stm[c] = "RESP_WRITE"
      PROVE  SubSeq(said[c], Used(c) - Len(Encoded(p[c])) + 1, Used(c)) = Encoded(p[c])
  <2> DEFINE u == Used(c)  m == Encoded(p[c])
  <2>0. PICK a \in Nat : CmdFrom(said[c], p[c], a, u)
    BY <1>0, <1>2 DEF Heard, CmdSays
  <2>1. p[c] \in Parsers /\ CmdKnows(p[c]) /\ u \in Nat /\ u <= Len(said[c])
    BY <1>0, <2>0 DEF CmdFrom
  <2>2. a \in 0 .. u /\ SubSeq(said[c], a + 1, u) = CmdTaken(p[c])
    BY <2>0 DEF CmdFrom
  <2>3. Over(p[c])
    BY <1>0, <1>2 DEF Stocked, WriteStates
  <2>4. SubSeq(said[c], a + 1, u) = m
    BY <2>1, <2>2, <2>3, TakenIsEncoded
  <2> HIDE DEF u, m
  <2>5. Len(SubSeq(said[c], a + 1, u)) = u - a
    <3>1. \A i \in a + 1 .. u : said[c][i] \in Byte
      BY <1>0, <2>1, ElementOfSeq DEF Text
    <3>2. Len(SubSeq(said[c], a + 1, u)) = IF a + 1 <= u THEN u - (a + 1) + 1 ELSE 0
      <4>1. a + 1 \in Int /\ u \in Int
        BY <2>1
      <4> QED  BY <3>1, <4>1, SubSeqProperties
    <3> QED  BY <2>1, <2>2, <3>2
  <2>6. u - Len(m) + 1 = a + 1
    BY <2>1, <2>4, <2>5
  <2> QED  BY <2>4, <2>6 DEF u, m
<1> QED  BY <1>1, <1>2

(* However the stream is split, auth_feed() and cmd_feed() take whole      *)
(* messages: the fields they act on are the ones their peer wrote.         *)
THEOREM CommandsAreRead == ClientSpec => []ExecutedAsSent
BY SessionsInvariant, InvExecuted, PTL

(* Who has commands executed is authenticated.                             *)
LEMMA InvAdmins == IInv => OnlyAdmins
<1> SUFFICES ASSUME IInv, NEW c \in Peers, did[c] # <<>>
             PROVE  LET plen == 3 + said[c][2]
                    IN  /\ SubSeq(got[c], 1, 2) = <<Version, AuthOK>>
                        /\ said[c][1] = Version
                        /\ [name |-> CString(SubSeq(said[c], 3, plen - 1)),
                            pass |-> CString(SubSeq(said[c], plen + 1, plen + said[c][plen]))]
                                \in Admins
  BY DEF OnlyAdmins
<1>1. SubSeq(got[c], 1, 2) = <<Version, AuthOK>> /\ Credentialed(said[c])
  BY DEF IInv, Inv, PeerOK, Admits
<1> QED  BY <1>1 DEF Credentialed

(* No command is executed for a peer that did not begin with the           *)
(* credential of -A and was told that it is let in (authenticated).        *)
THEOREM AdminsOnly == ClientSpec => []OnlyAdmins
BY SessionsInvariant, InvAdmins, PTL

(* What was answered is what was sent and what is to send.                 *)
LEMMA InvAnswers == IInv => AnswersArrive
<1> SUFFICES ASSUME IInv, NEW c \in Peers
             PROVE  CASE c \in Active -> Answered(c) = got[c] \o wbuf[c]
                      [] c \in failed -> IsPrefix(got[c], Answered(c))
                      [] OTHER        -> got[c] = Answered(c)
  BY DEF AnswersArrive
<1>0. Sent(c) /\ got[c] \in Text
  BY DEF IInv, Inv, PeerOK, Types
<1>1. CASE c \in Active
  <2>1. c \notin failed
    BY <1>0, <1>1 DEF Sent, Active, ReadStates, WriteStates
  <2> QED  BY <1>0, <1>1, <2>1 DEF Sent
<1>2. CASE c \notin Active /\ c \in failed
  BY <1>0, <1>2 DEF Sent
<1>3. CASE c \notin Active /\ c \notin failed
  <2>1. Answered(c) = got[c] \o <<>>
    BY <1>0, <1>3 DEF Sent
  <2>2. got[c] \o <<>> = got[c]
    BY <1>0, ConcatEmptySeq DEF Text
  <2> QED  BY <1>3, <2>1, <2>2
<1> QED  BY <1>1, <1>2, <1>3

(* Answers arrive whole and in order however send() splits them; unless a  *)
(* call fails no session is closed before its peer has them all            *)
(* (close_after_write, shutting_down).                                     *)
THEOREM AnswersDoArrive == ClientSpec => []AnswersArrive
BY SessionsInvariant, InvAnswers, PTL

(* Nobody reads any more.                                                  *)
LEMMA InvQuiet == IInv => ShutdownQuiesces
BY DEF IInv, Inv, PeerOK, Quiet, ShutdownQuiesces

(* Once mng_begin_shutdown() has run no session waits for its peer.        *)
THEOREM ShutdownIsQuiet == ClientSpec => []ShutdownQuiesces
BY SessionsInvariant, InvQuiet, PTL

-----------------------------------------------------------------------------
(* What the client reads *)

(* The positions up to one.                                                *)
LEMMA PositionsUpTo ==
    ASSUME NEW m \in Nat, NEW k \in 1 .. m
    PROVE  /\ (1 .. k) \in SUBSET (1 .. m) /\ 1 .. k # {}
           /\ Max(1 .. k) = k /\ (1 .. k) \ {k} = 1 .. (k - 1)
<1>1. k \in Nat /\ 1 <= k /\ k <= m /\ k \in 1 .. k
  OBVIOUS
<1>2. (1 .. k) \in SUBSET (1 .. k) /\ 1 .. k # {} /\ (1 .. k) \in SUBSET (1 .. m)
  BY <1>1
<1>3. Max(1 .. k) \in 1 .. k /\ \A x \in 1 .. k : x <= Max(1 .. k)
  BY <1>1, <1>2, MaxOfSome
<1>4. Max(1 .. k) = k
  BY <1>1, <1>3
<1>5. (1 .. k) \ {k} = 1 .. (k - 1)
  BY <1>1
<1> QED  BY <1>2, <1>4, <1>5

(* f takes the positions of a set from the least up.                       *)
IsFolding(f, X, base, G, m) ==
    /\ f \in [SUBSET (1 .. m) -> X]
    /\ \A t \in SUBSET (1 .. m) :
          f[t] = IF t = {} THEN base ELSE G[<<Max(t), f[t \ {Max(t)}]>>]

(* There is such a function.                                               *)
LEMMA FoldingExists ==
    ASSUME NEW X, NEW base \in X, NEW m \in Nat, NEW G \in [(1 .. m) \X X -> X]
    PROVE  \E f : IsFolding(f, X, base, G, m)
<1> DEFINE S == {k \in Nat : k <= m => \E f : IsFolding(f, X, base, G, k)}
<1>1. 0 \in S
  <2> DEFINE f == [t \in SUBSET (1 .. 0) |-> base]
  <2>1. \A t \in SUBSET (1 .. 0) : t = {}
    OBVIOUS
  <2>2. f \in [SUBSET (1 .. 0) -> X] /\ \A t \in SUBSET (1 .. 0) : f[t] = base
    OBVIOUS
  <2> HIDE DEF f
  <2>3. IsFolding(f, X, base, G, 0)
    BY <2>1, <2>2 DEF IsFolding
  <2> QED  BY <2>3
<1>2. ASSUME NEW k \in S PROVE k + 1 \in S
  <2>0. SUFFICES ASSUME k + 1 <= m PROVE \E f : IsFolding(f, X, base, G, k + 1)
    OBVIOUS
  <2>1. k \in Nat /\ k + 1 \in Nat /\ k <= m
    BY <2>0
  <2>2. PICK f : IsFolding(f, X, base, G, k)
    BY <2>1
  <2> HIDE DEF S
  <2> DEFINE step(t) == IF t = {} THEN base ELSE G[<<Max(t), f[t \ {Max(t)}]>>]
             g == [t \in SUBSET (1 .. k + 1) |-> step(t)]
  <2>3. ASSUME NEW t \in SUBSET (1 .. k + 1), t # {}
        PROVE  /\ Max(t) \in 1 .. m /\ t \ {Max(t)} \in SUBSET (1 .. k)
               /\ t \ {Max(t)} \in SUBSET (1 .. k + 1)
    <3>1. Max(t) \in t /\ \A x \in t : x <= Max(t)
      BY <2>1, <2>3, MaxOfSome
    <3>2. \A x \in t : x \in Nat /\ 1 <= x /\ x <= k + 1
      OBVIOUS
    <3>3. ASSUME NEW x \in t \ {Max(t)} PROVE x \in 1 .. k
      <4>1. x \in Nat /\ 1 <= x /\ x <= Max(t) /\ x # Max(t) /\ Max(t) <= k + 1 /\ Max(t) \in Nat
        BY <3>1, <3>2
      <4> QED  BY <2>1, <4>1
    <3>4. Max(t) \in 1 .. m
      <4>1. Max(t) \in Nat /\ 1 <= Max(t) /\ Max(t) <= k + 1
        BY <3>1, <3>2
      <4> QED  BY <2>0, <2>1, <4>1
    <3> QED  BY <3>3, <3>4
  <2>4. ASSUME NEW t \in SUBSET (1 .. k + 1) PROVE step(t) \in X
    <3>1. CASE t # {}
      <4>1. f[t \ {Max(t)}] \in X /\ Max(t) \in 1 .. m
        BY <2>2, <2>3, <3>1 DEF IsFolding
      <4>2. G[<<Max(t), f[t \ {Max(t)}]>>] \in X
        BY <4>1
      <4> QED  BY <3>1, <4>2
    <3> QED  BY <3>1
  <2>5. \A t \in SUBSET (1 .. k) : t \in SUBSET (1 .. k + 1) /\ f[t] = step(t)
    <3>1. SUBSET (1 .. k) \subseteq SUBSET (1 .. k + 1)
      BY <2>1
    <3> QED  BY <2>2, <3>1 DEF IsFolding
  <2> HIDE DEF step
  <2>6. /\ g \in [SUBSET (1 .. k + 1) -> X]
        /\ \A t \in SUBSET (1 .. k + 1) : g[t] = step(t)
    BY <2>4
  <2> HIDE DEF g
  <2>7. \A t \in SUBSET (1 .. k) : g[t] = f[t]
    BY <2>5, <2>6
  <2>8. ASSUME NEW t \in SUBSET (1 .. k + 1)
        PROVE  g[t] = IF t = {} THEN base ELSE G[<<Max(t), g[t \ {Max(t)}]>>]
    <3>1. t # {} => g[t \ {Max(t)}] = f[t \ {Max(t)}]
      BY <2>3, <2>7
    <3> QED  BY <2>6, <3>1 DEF step
  <2>9. IsFolding(g, X, base, G, k + 1)
    BY <2>6, <2>8 DEF IsFolding
  <2> QED  BY <2>9
<1> HIDE DEF S
<1>3. S = Nat
  <2>1. S \in SUBSET Nat
    BY DEF S
  <2> QED  BY <1>1, <1>2, <2>1, CountingUp
<1> QED  BY <1>3 DEF S

(* f is the function that the community modules choose for Value.          *)
IsValue(f, s, D) ==
    f = [t \in SUBSET D |-> IF t = {} THEN 0 ELSE 256 * f[t \ {Max(t)}] + s[Max(t)]]

(* rd_u16() and the others take the bytes one by one: run[k] is the number *)
(* of the first k.                                                         *)
LEMMA ValueRuns ==
    ASSUME NEW s \in Text, NEW m \in Nat, m = Len(s)
    PROVE  \E run \in [0 .. m -> Nat] :
               /\ run[0] = 0 /\ \A k \in 1 .. m : run[k] = 256 * run[k - 1] + s[k]
               /\ Value(s) = run[m]
<1> DEFINE D == 1 .. m
           F == CHOOSE f : IsValue(f, s, D)
           G == [a \in D \X Nat |-> 256 * a[2] + s[a[1]]]
           run == [k \in 0 .. m |-> F[1 .. k]]
<1>1. DOMAIN s = D /\ \A k \in D : s[k] \in Nat
  BY Bytes, ElementOfSeq, LenProperties DEF Text
<1>2. Value(s) = F[D]
  <2>1. Value(s) = (CHOOSE f : IsValue(f, s, DOMAIN s))[DOMAIN s]
    BY DEF Value, FoldLeft, MapThenFoldSet, IsValue
  <2> QED  BY <1>1, <2>1
<1>3. G \in [D \X Nat -> Nat]
  BY <1>1
<1>4. PICK f : IsFolding(f, Nat, 0, G, m)
  <2> HIDE DEF G
  <2> QED  BY <1>3, FoldingExists
<1>5. \A t \in SUBSET D : t # {} => Max(t) \in D /\ t \ {Max(t)} \in SUBSET D
  <2>1. ASSUME NEW t \in SUBSET D, t # {} PROVE Max(t) \in t
    BY <2>1, MaxOfSome
  <2> QED  BY <2>1
<1>6. IsValue(f, s, D)
  <2>1. ASSUME NEW t \in SUBSET D
        PROVE  f[t] = IF t = {} THEN 0 ELSE 256 * f[t \ {Max(t)}] + s[Max(t)]
    <3>1. CASE t = {}
      BY <1>4, <3>1 DEF IsFolding
    <3>2. CASE t # {}
      <4>1. Max(t) \in D /\ f[t \ {Max(t)}] \in Nat
        BY <1>4, <1>5, <3>2 DEF IsFolding
      <4>2. f[t] = G[<<Max(t), f[t \ {Max(t)}]>>]
        BY <1>4, <3>2 DEF IsFolding
      <4>3. G[<<Max(t), f[t \ {Max(t)}]>>] = 256 * f[t \ {Max(t)}] + s[Max(t)]
        BY <4>1
      <4> QED  BY <3>2, <4>2, <4>3
    <3> QED  BY <3>1, <3>2
  <2>2. f \in [SUBSET D -> Nat]
    BY <1>4 DEF IsFolding
  <2> QED  BY <2>1, <2>2 DEF IsValue
<1>7. IsValue(F, s, D)
  BY <1>6
<1> HIDE DEF F, G
<1>8. \A t \in SUBSET D : F[t] = IF t = {} THEN 0 ELSE 256 * F[t \ {Max(t)}] + s[Max(t)]
  BY <1>7 DEF IsValue
<1>9. F[1 .. 0] = 0
  <2>1. 1 .. 0 = {} /\ (1 .. 0) \in SUBSET D
    OBVIOUS
  <2> QED  BY <1>8, <2>1
<1>10. ASSUME NEW k \in D PROVE F[1 .. k] = 256 * F[1 .. (k - 1)] + s[k]
  <2>1. (1 .. k) \in SUBSET D /\ 1 .. k # {} /\ Max(1 .. k) = k /\ (1 .. k) \ {k} = 1 .. (k - 1)
    BY PositionsUpTo
  <2> HIDE DEF D
  <2> QED  BY <1>8, <2>1, ZenonT(40)
<1> HIDE DEF D
<1> DEFINE S == {k \in Nat : k <= m => F[1 .. k] \in Nat}
<1>11. ASSUME NEW k \in S PROVE k + 1 \in S
  <2>1. SUFFICES ASSUME k + 1 <= m PROVE F[1 .. (k + 1)] \in Nat
    OBVIOUS
  <2>2. k \in Nat /\ k <= m /\ k + 1 \in D /\ k + 1 - 1 = k
    BY <2>1 DEF D
  <2>3. F[1 .. k] \in Nat /\ s[k + 1] \in Nat
    BY <1>1, <2>2
  <2>4. F[1 .. (k + 1)] = 256 * F[1 .. k] + s[k + 1]
    BY <1>10, <2>2
  <2> QED  BY <2>3, <2>4
<1>12. S = Nat
  <2>1. S \in SUBSET Nat /\ 0 \in S
    BY <1>9
  <2> HIDE DEF S
  <2> QED  BY <1>11, <2>1, CountingUp
<1>13. run \in [0 .. m -> Nat]
  <2>1. \A k \in 0 .. m : F[1 .. k] \in Nat
    BY <1>12
  <2> QED  BY <2>1
<1>14. run[0] = 0 /\ run[m] = F[1 .. m]
  BY <1>9
<1>15. ASSUME NEW k \in 1 .. m PROVE run[k] = 256 * run[k - 1] + s[k]
  <2>1. k \in 0 .. m /\ k - 1 \in 0 .. m /\ k \in D
    BY DEF D
  <2> QED  BY <1>10, <2>1
<1> HIDE DEF run
<1> QED  BY <1>2, <1>13, <1>14, <1>15 DEF D

(* A number is read as it was written.                                     *)
LEMMA ValueOfBigEndian ==
    ASSUME NEW n \in Nat, NEW v, FitsIn(v, n)
    PROVE  Value(BigEndian(v, n)) = v
<1> DEFINE s == BigEndian(v, n)
<1>1. v \in Nat /\ Shifted(v, n)[n] = 0
  BY DEF FitsIn
<1>2. PICK sh : IsShifted(sh, v, n)
  BY <1>1, Shifts
<1>3. s \in Text /\ Len(s) = n
  BY <1>1, BigEndianBytes
<1>4. \A i \in 1 .. n : s[i] = sh[n - i] % 256
  BY <1>2 DEF IsShifted
<1> HIDE DEF s
<1>5. PICK run \in [0 .. n -> Nat] :
               /\ run[0] = 0 /\ \A k \in 1 .. n : run[k] = 256 * run[k - 1] + s[k]
               /\ Value(s) = run[n]
  BY <1>3, ValueRuns, ZenonT(40)
<1>6. /\ sh \in [0 .. n -> Nat] /\ sh[0] = v /\ sh[n] = 0
      /\ \A k \in 1 .. n : sh[k] = sh[k - 1] \div 256
  BY <1>1, <1>2 DEF IsShifted
<1> DEFINE S == {k \in Nat : k <= n => run[k] = sh[n - k]}
<1>7. 0 \in S
  <2>1. n - 0 = n
    OBVIOUS
  <2> QED  BY <1>5, <1>6, <2>1
<1>8. ASSUME NEW k \in S PROVE k + 1 \in S
  <2>1. SUFFICES ASSUME k + 1 <= n PROVE run[k + 1] = sh[n - (k + 1)]
    OBVIOUS
  <2>2. /\ k \in Nat /\ k <= n /\ k + 1 \in 1 .. n /\ k + 1 - 1 = k
        /\ n - k \in 1 .. n /\ n - k - 1 = n - (k + 1) /\ n - (k + 1) \in 0 .. n
    BY <2>1
  <2> DEFINE x == sh[n - (k + 1)]
  <2>3. x \in Nat /\ sh[n - k] = x \div 256
    BY <1>6, <2>2
  <2>4. run[k] = x \div 256 /\ s[k + 1] = x % 256
    BY <1>4, <2>2, <2>3
  <2>5. run[k + 1] = 256 * run[k] + s[k + 1]
    BY <1>5, <2>2
  <2> HIDE DEF x
  <2>6. 256 * (x \div 256) + (x % 256) = x
    BY <2>3
  <2> QED  BY <2>4, <2>5, <2>6 DEF x
<1>9. S = Nat
  <2>1. S \in SUBSET Nat
    OBVIOUS
  <2> HIDE DEF S
  <2> QED  BY <1>7, <1>8, <2>1, CountingUp
<1>10. run[n] = sh[0]
  <2>1. n - n = 0
    OBVIOUS
  <2> QED  BY <1>9, <2>1
<1> QED  BY <1>5, <1>6, <1>10 DEF s

(* Small numbers.                                                          *)
LEMMA SmallFits ==
    /\ \A x \in Nat : x <= 255 => FitsIn(x, 1)
    /\ \A x \in Nat : x <= 511 => FitsIn(x, 2)
<1>1. ASSUME NEW x \in Nat, x <= 255 PROVE FitsIn(x, 1)
  <2>1. PICK sh : IsShifted(sh, x, 1)
    BY Shifts
  <2>2. sh[1] = sh[1 - 1] \div 256 /\ sh[0] = x
    BY <2>1 DEF IsShifted
  <2>3. sh[1] = 0
    BY <1>1, <2>2
  <2> QED  BY <2>1, <2>3 DEF IsShifted, FitsIn
<1>2. ASSUME NEW x \in Nat, x <= 511 PROVE FitsIn(x, 2)
  <2>1. PICK sh : IsShifted(sh, x, 2)
    BY Shifts
  <2>2. sh[1] = sh[1 - 1] \div 256 /\ sh[2] = sh[2 - 1] \div 256 /\ sh[0] = x
    BY <2>1 DEF IsShifted
  <2>3. sh[1] = x \div 256 /\ sh[2] = sh[1] \div 256
    BY <2>2
  <2>4. sh[2] = 0
    BY <1>2, <2>3
  <2> QED  BY <2>1, <2>4 DEF IsShifted, FitsIn
<1> QED  BY <1>1, <1>2

(* The bytes of A behind the first a begin with y.                         *)
Piece(A, a, y) ==
    /\ a \in Nat /\ y \in Text /\ a + Len(y) <= Len(A)
    /\ \A i \in 1 .. Len(y) : A[a + i] = y[i]

(* All of A.                                                               *)
LEMMA WholePiece ==
    ASSUME NEW A \in Text
    PROVE  Piece(A, 0, A)
<1>1. Len(A) \in Nat
  BY LenProperties DEF Text
<1> QED  BY <1>1 DEF Piece

(* Both parts of a message are where it is.                                *)
LEMMA PieceSplits ==
    ASSUME NEW A \in Text, NEW a, NEW y \in Text, NEW z \in Text, Piece(A, a, y \o z)
    PROVE  Piece(A, a, y) /\ Piece(A, a + Len(y), z)
<1>1. /\ a \in Nat /\ Len(y) \in Nat /\ Len(z) \in Nat /\ Len(A) \in Nat
      /\ Len(y \o z) = Len(y) + Len(z)
  BY TextsJoin, LenProperties DEF Piece, Text
<1>2. \A i \in 1 .. Len(y) + Len(z) : A[a + i] = (y \o z)[i]
  BY <1>1 DEF Piece
<1>3. a + (Len(y) + Len(z)) <= Len(A)
  BY <1>1 DEF Piece
<1>4. ASSUME NEW i \in 1 .. Len(y) PROVE A[a + i] = y[i]
  <2>1. i \in 1 .. Len(y) + Len(z)
    BY <1>1
  <2> QED  BY <1>2, <2>1, JoinedBytes
<1>5. ASSUME NEW i \in 1 .. Len(z) PROVE A[(a + Len(y)) + i] = z[i]
  <2>1. Len(y) + i \in 1 .. Len(y) + Len(z) /\ a + (Len(y) + i) = (a + Len(y)) + i
    BY <1>1
  <2>2. (y \o z)[Len(y) + i] = z[i]
    BY JoinedBytes
  <2> QED  BY <1>2, <2>1, <2>2
<1>6. a + Len(y) <= Len(A) /\ a + Len(y) \in Nat /\ (a + Len(y)) + Len(z) <= Len(A)
  BY <1>1, <1>3
<1> QED  BY <1>1, <1>4, <1>5, <1>6 DEF Piece

(* What has arrived of A.                                                  *)
LEMMA PieceArrives ==
    ASSUME NEW s \in Text, NEW m \in Text, NEW a, NEW y, Piece(s \o m, a, y),
           a + Len(y) <= Len(s)
    PROVE  SubSeq(s, a + 1, a + Len(y)) = y
<1>1. a \in Nat /\ y \in Text /\ Len(y) \in Nat /\ Len(s) \in Nat
  BY LenProperties DEF Piece, Text
<1>2. ASSUME NEW i \in 1 .. Len(y) PROVE s[a + i] = y[i]
  <2>1. a + i \in 1 .. Len(s)
    BY <1>1
  <2> QED  BY <2>1, JoinedBytes DEF Piece
<1> QED  BY <1>1, <1>2, PartIs

(* Where the strings of a list are: the k-th behind pos[k - 1].            *)
IsPlaced(pos, A, h, ss, w) ==
    /\ pos \in [0 .. Len(ss) -> Nat] /\ pos[0] = h /\ pos[Len(ss)] = h + Len(Sizeds(ss, w))
    /\ \A k \in 1 .. Len(ss) :
          /\ pos[k] = pos[k - 1] + w + Len(ss[k])
          /\ Piece(A, pos[k - 1], BigEndian(Len(ss[k]), w)) /\ Piece(A, pos[k - 1] + w, ss[k])

(* A list that is in A has its strings one behind the other.               *)
LEMMA ListPieces ==
    ASSUME NEW A \in Text, NEW h, NEW ss \in Seq(Text), NEW w \in Nat, Piece(A, h, Sizeds(ss, w))
    PROVE  \E pos : IsPlaced(pos, A, h, ss, w)
<1> DEFINE n == Len(ss)
           zs == [i \in DOMAIN ss |-> Sized(ss[i], w)]
<1>1. n \in Nat /\ h \in Nat /\ DOMAIN ss = 1 .. n /\ \A k \in 1 .. n : ss[k] \in Text
  BY DEF Piece
<1>2. zs \in Seq(Text) /\ Len(zs) = n /\ Sizeds(ss, w) = FlattenSeq(zs)
  BY SizedsBytes DEF Sizeds
<1>3. \A k \in 1 .. n : zs[k] = Sized(ss[k], w)
  BY <1>1
<1> HIDE DEF zs
<1>4. PICK fl : IsJoin(fl, Byte, zs)
  BY <1>2, FlattenJoins DEF Text
<1>5. /\ fl \in [0 .. n -> Text] /\ fl[0] = <<>> /\ fl[n] = Sizeds(ss, w)
      /\ \A k \in 1 .. n : fl[k] = fl[k - 1] \o zs[k]
  BY <1>2, <1>4 DEF IsJoin, Text
<1> HIDE DEF n
<1>6. ASSUME NEW k \in 1 .. n, Piece(A, h, fl[k])
      PROVE  Piece(A, h, fl[k - 1]) /\ Piece(A, h + Len(fl[k - 1]), Sized(ss[k], w))
  <2>1. k - 1 \in 0 .. n
    BY <1>1
  <2>2. fl[k - 1] \in Text /\ Sized(ss[k], w) \in Text /\ fl[k] = fl[k - 1] \o Sized(ss[k], w)
    BY <1>1, <1>3, <1>5, <2>1, SizedBytes
  <2> QED  BY <1>6, <2>2, PieceSplits
<1> DEFINE S == {j \in Nat : j <= n => Piece(A, h, fl[n - j])}
<1>7. 0 \in S
  <2>1. n - 0 = n
    BY <1>1
  <2> QED  BY <1>5, <2>1
<1>8. ASSUME NEW j \in S PROVE j + 1 \in S
  <2>1. SUFFICES ASSUME j + 1 <= n PROVE Piece(A, h, fl[n - (j + 1)])
    OBVIOUS
  <2>2. j \in Nat /\ j <= n /\ n - j \in 1 .. n /\ (n - j) - 1 = n - (j + 1)
    BY <1>1, <2>1
  <2>3. Piece(A, h, fl[n - j])
    BY <2>2
  <2>4. Piece(A, h, fl[(n - j) - 1])
    BY <1>6, <2>2, <2>3
  <2> QED  BY <2>2, <2>4
<1>9. S = Nat
  <2>1. S \in SUBSET Nat
    OBVIOUS
  <2> HIDE DEF S
  <2> QED  BY <1>7, <1>8, <2>1, CountingUp
<1>10. ASSUME NEW k \in 0 .. n PROVE Piece(A, h, fl[k])
  <2>1. n - k \in Nat /\ n - k <= n /\ n - (n - k) = k
    BY <1>1
  <2> QED  BY <1>9, <2>1
<1> HIDE DEF S
<1> DEFINE pos == [k \in 0 .. n |-> h + Len(fl[k])]
<1>11. \A k \in 0 .. n : pos[k] = h + Len(fl[k]) /\ Len(fl[k]) \in Nat
  <2>1. \A k \in 0 .. n : Len(fl[k]) \in Nat
    BY <1>5, LenProperties DEF Text
  <2> QED  BY <2>1
<1>12. pos \in [0 .. n -> Nat]
  BY <1>1, <1>11
<1> HIDE DEF pos
<1>13. pos[0] = h
  <2>1. 0 \in 0 .. n /\ Len(fl[0]) = 0
    BY <1>1, <1>5
  <2> QED  BY <1>1, <1>11, <2>1
<1>14. pos[n] = h + Len(Sizeds(ss, w))
  <2>1. n \in 0 .. n
    BY <1>1
  <2> QED  BY <1>5, <1>11, <2>1
<1>15. ASSUME NEW k \in 1 .. n
       PROVE  /\ pos[k] = pos[k - 1] + w + Len(ss[k])
              /\ Piece(A, pos[k - 1], BigEndian(Len(ss[k]), w))
              /\ Piece(A, pos[k - 1] + w, ss[k])
  <2> DEFINE a == fl[k - 1]  z == ss[k]  b == BigEndian(Len(z), w)
  <2>1. k \in 0 .. n /\ k - 1 \in 0 .. n /\ z \in Text /\ Len(z) \in Nat
    BY <1>1, LenProperties DEF Text
  <2>2. /\ pos[k] = h + Len(fl[k]) /\ pos[k - 1] = h + Len(a) /\ Len(a) \in Nat
        /\ a \in Text /\ fl[k] = a \o Sized(z, w)
    BY <1>3, <1>5, <1>11, <2>1
  <2>3. Piece(A, h + Len(a), Sized(z, w))
    BY <1>6, <1>10, <2>1
  <2>4. b \in Text /\ Len(b) = w /\ Sized(z, w) = b \o z
    BY <2>1, BigEndianBytes DEF Sized
  <2>5. Sized(z, w) \in Text /\ Len(Sized(z, w)) = w + Len(z)
    BY <2>1, SizedBytes
  <2> HIDE DEF a, z, b
  <2>6. Len(fl[k]) = Len(a) + (w + Len(z))
    BY <2>2, <2>5, TextsJoin, ZenonT(40)
  <2>7. Piece(A, h + Len(a), b) /\ Piece(A, (h + Len(a)) + w, z)
    BY <2>1, <2>3, <2>4, PieceSplits
  <2>8. pos[k] = pos[k - 1] + w + Len(z)
    BY <1>1, <2>1, <2>2, <2>6
  <2> QED  BY <2>2, <2>7, <2>8 DEF z, b
<1> QED  BY <1>12, <1>13, <1>14, <1>15 DEF IsPlaced, n

(* One string more, by what was read before.                               *)
Reading(s, w, r) ==
    LET len == Min({511, Value(SubSeq(s, r.used + 1, r.used + w))})
    IN  IF ~r.enough \/ Len(s) < r.used + w THEN More
        ELSE IF Len(s) < r.used + w + len THEN More
        ELSE Enough(r.used + w + len, OK,
                    Append(r.data, SubSeq(s, r.used + w + 1, r.used + w + len)))

(* f is the function that the community modules choose for Strings.        *)
IsStrings(f, s, h, w, D) ==
    f = [t \in SUBSET D |->
            IF t = {} THEN Enough(h, OK, <<>>) ELSE Reading(s, w, f[t \ {Max(t)}])]

(* What was read.                                                          *)
Readings == [enough : BOOLEAN, used : Nat, status : {OK}, data : Seq(Text)]

(* A part of a stream is bytes, and a number is a number.                  *)
LEMMA PartIsText ==
    ASSUME NEW s \in Text, NEW a \in Nat, NEW b \in Nat, b <= Len(s)
    PROVE  SubSeq(s, a + 1, b) \in Text /\ Value(SubSeq(s, a + 1, b)) \in Nat
<1> DEFINE x == SubSeq(s, a + 1, b)
<1>1. Len(s) \in Nat /\ \A i \in a + 1 .. b : i \in 1 .. Len(s)
  BY LenProperties DEF Text
<1>2. \A i \in a + 1 .. b : s[i] \in Byte
  BY <1>1, ElementOfSeq DEF Text
<1>3. x \in Text
  <2>1. a + 1 \in Int /\ b \in Int
    OBVIOUS
  <2> QED  BY <1>2, <2>1, SubSeqProperties DEF Text
<1> HIDE DEF x
<1>4. Len(x) \in Nat
  BY <1>3, LenProperties DEF Text
<1>5. PICK run \in [0 .. Len(x) -> Nat] : Value(x) = run[Len(x)]
  BY <1>3, <1>4, ValueRuns
<1>6. Value(x) \in Nat
  BY <1>4, <1>5
<1> QED  BY <1>3, <1>6 DEF x

(* No more than 511 bytes of a string are read.                            *)
LEMMA MinOfTwo ==
    ASSUME NEW v \in Nat
    PROVE  Min({511, v}) \in Nat /\ (v <= 511 => Min({511, v}) = v)
<1>1. CASE v <= 511
  <2>1. \A y \in {511, v} : v <= y
    BY <1>1
  <2>2. \A x \in {511, v} : (\A y \in {511, v} : x <= y) => x = v
    BY <1>1
  <2>3. Min({511, v}) = v
    BY <2>1, <2>2 DEF Min
  <2> QED  BY <2>3
<1>2. CASE ~(v <= 511)
  <2>1. \A y \in {511, v} : 511 <= y
    BY <1>2
  <2>2. \A x \in {511, v} : (\A y \in {511, v} : x <= y) => x = 511
    BY <1>2
  <2>3. Min({511, v}) = 511
    BY <2>1, <2>2 DEF Min
  <2> QED  BY <1>2, <2>3
<1> QED  BY <1>1, <1>2

(* Reading one more makes a reading.                                       *)
LEMMA ReadingType ==
    ASSUME NEW s \in Text, NEW w \in Nat, NEW r \in Readings
    PROVE  Reading(s, w, r) \in Readings
<1> DEFINE v == Value(SubSeq(s, r.used + 1, r.used + w))
           len == Min({511, v})
           d == SubSeq(s, r.used + w + 1, r.used + w + len)
<1>1. r.used \in Nat /\ r.data \in Seq(Text) /\ Len(s) \in Nat /\ r.used + w \in Nat
  BY LenProperties DEF Readings, Text
<1>2. More \in Readings
  <2>1. <<>> \in Seq(Text)
    OBVIOUS
  <2> QED  BY <2>1 DEF More, Readings
<1>3. ASSUME ~(Len(s) < r.used + w), ~(Len(s) < r.used + w + len)
      PROVE  Enough(r.used + w + len, OK, Append(r.data, d)) \in Readings
  <2>1. v \in Nat
    BY <1>1, <1>3, PartIsText
  <2> HIDE DEF v
  <2>2. len \in Nat
    BY <2>1, MinOfTwo
  <2> HIDE DEF len
  <2>3. r.used + w + len \in Nat /\ r.used + w + len <= Len(s)
    BY <1>1, <1>3, <2>2
  <2>4. d \in Text
    BY <1>1, <2>3, PartIsText
  <2> HIDE DEF d
  <2>5. Append(r.data, d) \in Seq(Text)
    BY <1>1, <2>4, AppendProperties
  <2> QED  BY <2>3, <2>5 DEF Enough, Readings
<1> QED  BY <1>2, <1>3 DEF Reading

(* run[k] is what there is after k strings.                                *)
IsStringsRun(run, s, h, n, w) ==
    /\ run[0] = Enough(h, OK, <<>>)
    /\ \A k \in 1 .. n : run[k] = Reading(s, w, run[k - 1])
    /\ Strings(s, h, n, w) = run[n]

(* The strings are read one by one.                                        *)
LEMMA StringsRun ==
    ASSUME NEW s \in Text, NEW h \in Nat, NEW n \in Nat, NEW w \in Nat
    PROVE  \E run : IsStringsRun(run, s, h, n, w)
<1> DEFINE D == 1 .. n
           F == CHOOSE f : IsStrings(f, s, h, w, D)
           G == [a \in D \X Readings |-> Reading(s, w, a[2])]
           run == [k \in 0 .. n |-> F[1 .. k]]
           base == Enough(h, OK, <<>>)
<1>1. Strings(s, h, n, w) = F[D]
  <2> DEFINE c == [i \in 1 .. n |-> i]
  <2>1. DOMAIN c = D
    OBVIOUS
  <2>2. Strings(s, h, n, w) = (CHOOSE f : IsStrings(f, s, h, w, DOMAIN c))[DOMAIN c]
    BY DEF Strings, FoldLeft, MapThenFoldSet, IsStrings, Reading
  <2> HIDE DEF c
  <2> QED  BY <2>1, <2>2
<1>2. base \in Readings
  <2>1. <<>> \in Seq(Text)
    OBVIOUS
  <2> QED  BY <2>1 DEF Enough, Readings
<1>3. G \in [D \X Readings -> Readings]
  BY ReadingType
<1> HIDE DEF base
<1>4. PICK f : IsFolding(f, Readings, base, G, n)
  <2> HIDE DEF G
  <2> QED  BY <1>2, <1>3, FoldingExists
<1>5. \A t \in SUBSET D : t # {} => Max(t) \in D /\ t \ {Max(t)} \in SUBSET D
  <2>1. ASSUME NEW t \in SUBSET D, t # {} PROVE Max(t) \in t
    BY <2>1, MaxOfSome
  <2> QED  BY <2>1
<1>6. IsStrings(f, s, h, w, D)
  <2>1. ASSUME NEW t \in SUBSET D
        PROVE  f[t] = IF t = {} THEN base ELSE Reading(s, w, f[t \ {Max(t)}])
    <3>1. CASE t = {}
      BY <1>4, <3>1 DEF IsFolding
    <3>2. CASE t # {}
      <4>1. Max(t) \in D /\ f[t \ {Max(t)}] \in Readings
        BY <1>4, <1>5, <3>2 DEF IsFolding
      <4>2. f[t] = G[<<Max(t), f[t \ {Max(t)}]>>]
        BY <1>4, <3>2 DEF IsFolding
      <4>3. G[<<Max(t), f[t \ {Max(t)}]>>] = Reading(s, w, f[t \ {Max(t)}])
        BY <4>1
      <4> QED  BY <3>2, <4>2, <4>3
    <3> QED  BY <3>1, <3>2
  <2>2. f \in [SUBSET D -> Readings]
    BY <1>4 DEF IsFolding
  <2> QED  BY <2>1, <2>2 DEF IsStrings, base
<1>7. IsStrings(F, s, h, w, D)
  BY <1>6
<1> HIDE DEF F, G
<1>8. \A t \in SUBSET D : F[t] = IF t = {} THEN base ELSE Reading(s, w, F[t \ {Max(t)}])
  BY <1>7 DEF IsStrings, base
<1>9. F[1 .. 0] = base
  <2>1. 1 .. 0 = {} /\ (1 .. 0) \in SUBSET D
    OBVIOUS
  <2> QED  BY <1>8, <2>1
<1>10. ASSUME NEW k \in D PROVE F[1 .. k] = Reading(s, w, F[1 .. (k - 1)])
  <2>1. (1 .. k) \in SUBSET D /\ 1 .. k # {} /\ Max(1 .. k) = k /\ (1 .. k) \ {k} = 1 .. (k - 1)
    BY PositionsUpTo
  <2> HIDE DEF D
  <2> QED  BY <1>8, <2>1
<1>11. run[0] = base /\ run[n] = F[1 .. n]
  BY <1>9
<1>12. ASSUME NEW k \in 1 .. n PROVE run[k] = Reading(s, w, run[k - 1])
  <2>1. k \in 0 .. n /\ k - 1 \in 0 .. n /\ k \in D
    OBVIOUS
  <2> HIDE DEF D
  <2> QED  BY <1>10, <2>1
<1> HIDE DEF run
<1>13. IsStringsRun(run, s, h, n, w)
  BY <1>1, <1>11, <1>12 DEF base, IsStringsRun
<1> QED  BY <1>13

(* A list that was written is read, or there is more of it to come.        *)
LEMMA ListIsRead ==
    ASSUME NEW s \in Text, NEW m \in Text, NEW h, NEW ss \in Seq(Text), NEW w \in Nat,
           Piece(s \o m, h, Sizeds(ss, w)), Len(s \o m) = h + Len(Sizeds(ss, w)),
           \A i \in 1 .. Len(ss) : Len(ss[i]) <= 511 /\ FitsIn(Len(ss[i]), w),
           NEW r, r = Strings(s, h, Len(ss), w)
    PROVE  /\ r.enough => r.status = OK /\ r.data = ss
           /\ m = <<>> => r.enough
<1> DEFINE n == Len(ss)  A == s \o m
<1>1. /\ n \in Nat /\ h \in Nat /\ A \in Text /\ Len(s) \in Nat /\ Len(A) \in Nat
      /\ \A k \in 1 .. n : ss[k] \in Text
  BY TextsJoin, LenProperties DEF Piece, Text
<1>2. PICK pos : IsPlaced(pos, A, h, ss, w)
  BY <1>1, ListPieces
<1>a. PICK run : IsStringsRun(run, s, h, n, w)
  BY <1>1, StringsRun
<1>3. /\ run[0] = Enough(h, OK, <<>>)
      /\ \A k \in 1 .. n : run[k] = Reading(s, w, run[k - 1])
      /\ Strings(s, h, n, w) = run[n]
  BY <1>a DEF IsStringsRun
<1> DEFINE Good(k) == \/ run[k] = Enough(pos[k], OK, SubSeq(ss, 1, k))
                      \/ run[k] = More /\ m # <<>>
           S == {k \in Nat : k <= n => Good(k)}
<1>4. 0 \in S
  <2>1. pos[0] = h
    BY <1>2 DEF IsPlaced
  <2>2. SubSeq(ss, 1, 0) = <<>>
    <3>1. SubSeq(ss, 1, 0) \in Seq(Text) /\ Len(SubSeq(ss, 1, 0)) = 0
      BY SubSeqProperties
    <3> QED  BY <3>1, EmptySeq
  <2> QED  BY <1>3, <2>1, <2>2
<1>5. ASSUME NEW k \in S PROVE k + 1 \in S
  <2>1. SUFFICES ASSUME k + 1 <= n PROVE Good(k + 1)
    OBVIOUS
  <2> DEFINE z == ss[k + 1]  b == BigEndian(Len(z), w)  a == pos[k]
  <2>2. /\ k \in Nat /\ k <= n /\ k + 1 \in 1 .. n /\ k + 1 - 1 = k /\ k \in 0 .. n
        /\ k + 1 \in 0 .. n
    BY <1>1, <2>1
  <2>3. Good(k) /\ run[k + 1] = Reading(s, w, run[k])
    BY <1>3, <2>2
  <2>4. CASE run[k] = More /\ m # <<>>
    <3>1. Reading(s, w, run[k]) = More
      BY <2>4 DEF Reading, More
    <3> QED  BY <2>3, <2>4, <3>1
  <2>5. CASE run[k] = Enough(a, OK, SubSeq(ss, 1, k))
    <3>1. /\ a \in Nat /\ pos[k + 1] \in Nat /\ pos[k + 1] = a + w + Len(z)
          /\ Piece(A, a, b) /\ Piece(A, a + w, z)
      <4>1. \A j \in 1 .. n :
               /\ pos[j] = pos[j - 1] + w + Len(ss[j])
               /\ Piece(A, pos[j - 1], BigEndian(Len(ss[j]), w)) /\ Piece(A, pos[j - 1] + w, ss[j])
        BY <1>2 DEF IsPlaced
      <4>2. pos \in [0 .. n -> Nat]
        BY <1>2 DEF IsPlaced
      <4> HIDE DEF A, n
      <4> QED  BY <2>2, <4>1, <4>2, SMTT(30)
    <3>2. z \in Text /\ Len(z) \in Nat /\ Len(z) <= 511 /\ FitsIn(Len(z), w)
      BY <1>1, <2>2, LenProperties DEF Text
    <3>3. b \in Text /\ Len(b) = w /\ Value(b) = Len(z)
      BY <3>2, BigEndianBytes, ValueOfBigEndian
    <3>4. a + w + Len(z) <= Len(A) /\ a + w \in Nat
      BY <3>1 DEF Piece
    <3>5. run[k].enough /\ run[k].used = a /\ run[k].data = SubSeq(ss, 1, k)
      BY <2>5 DEF Enough
    <3> HIDE DEF z, a, b, A
    <3>6. CASE Len(s) < a + w
      <4>1. Reading(s, w, run[k]) = More
        BY <3>5, <3>6 DEF Reading
      <4>2. m # <<>>
        <5>1. SUFFICES ASSUME m = <<>> PROVE FALSE
          OBVIOUS
        <5>2. A = s
          BY <5>1, ConcatEmptySeq DEF Text, A
        <5> QED  BY <1>1, <3>1, <3>2, <3>4, <3>6, <5>2
      <4> QED  BY <2>3, <4>1, <4>2
    <3>7. CASE ~(Len(s) < a + w)
      <4>1. SubSeq(s, a + 1, a + w) = b
        <5>1. a + Len(b) <= Len(s)
          BY <1>1, <3>1, <3>3, <3>7
        <5>2. SubSeq(s, a + 1, a + Len(b)) = b
          BY <3>1, <5>1, PieceArrives DEF A
        <5> QED  BY <3>3, <5>2
      <4>2. Min({511, Value(SubSeq(s, run[k].used + 1, run[k].used + w))}) = Len(z)
        <5>1. Value(SubSeq(s, run[k].used + 1, run[k].used + w)) = Len(z)
          BY <3>3, <3>5, <4>1
        <5>2. Min({511, Len(z)}) = Len(z)
          BY <3>2, MinOfTwo
        <5> QED  BY <5>1, <5>2, ZenonT(40)
      <4>3. CASE Len(s) < a + w + Len(z)
        <5>1. Reading(s, w, run[k]) = More
          BY <3>5, <3>7, <4>2, <4>3 DEF Reading
        <5>2. m # <<>>
          <6>1. SUFFICES ASSUME m = <<>> PROVE FALSE
            OBVIOUS
          <6>2. A = s
            BY <6>1, ConcatEmptySeq DEF Text, A
          <6> QED  BY <1>1, <3>1, <3>2, <3>4, <4>3, <6>2
        <5> QED  BY <2>3, <5>1, <5>2
      <4>4. CASE ~(Len(s) < a + w + Len(z))
        <5>1. SubSeq(s, (a + w) + 1, (a + w) + Len(z)) = z
          <6>1. (a + w) + Len(z) <= Len(s)
            BY <1>1, <3>1, <3>2, <4>4
          <6> QED  BY <3>1, <6>1, PieceArrives DEF A
        <5>2. Reading(s, w, run[k]) = Enough(a + w + Len(z), OK, Append(SubSeq(ss, 1, k), z))
          BY <3>5, <3>7, <4>2, <4>4, <5>1, ZenonT(40) DEF Reading
        <5>3. Append(SubSeq(ss, 1, k), z) = SubSeq(ss, 1, k + 1)
          <6>1. 1 \in 1 .. Len(ss) /\ k + 1 \in 1 .. Len(ss) /\ k + 1 \in 1 .. k + 1
            BY <2>2
          <6>2. SubSeq(ss, 1, k + 1) = SubSeq(ss, 1, (k + 1) - 1) \o <<ss[k + 1]>>
            BY <1>1, <6>1, SubSeqRecursiveSecond
          <6>3. SubSeq(ss, 1, k) \in Seq(Text)
            BY <2>2, SubSeqProperties
          <6> DEFINE x == SubSeq(ss, 1, k)
          <6>4. SubSeq(ss, 1, k + 1) = x \o <<z>>
            BY <2>2, <6>2 DEF z
          <6> HIDE DEF x
          <6>5. Append(x, z) = x \o <<z>>
            BY <3>2, <6>3, AppendIsConcat DEF x
          <6> QED  BY <6>4, <6>5 DEF x
        <5> QED  BY <2>3, <3>1, <5>2, <5>3
      <4> QED  BY <4>3, <4>4
    <3> QED  BY <3>6, <3>7
  <2> QED  BY <2>3, <2>4, <2>5
<1>6. S = Nat
  <2>1. S \in SUBSET Nat
    OBVIOUS
  <2> HIDE DEF S
  <2> QED  BY <1>4, <1>5, <2>1, CountingUp
<1>7. Good(n)
  BY <1>1, <1>6
<1>8. SubSeq(ss, 1, n) = ss
  BY SubSeqFull
<1>9. r = run[n]
  BY <1>3
<1> QED  BY <1>7, <1>8, <1>9 DEF Enough, More

(* One element more of a sequence.                                         *)
LEMMA ToSetAppends ==
    ASSUME NEW X, NEW s \in Seq(X), NEW x \in X
    PROVE  /\ ToSet(s \o <<x>>) = ToSet(s) \cup {x} /\ Len(s \o <<x>>) = Len(s) + 1
           /\ s \o <<x>> \in Seq(X)
<1> DEFINE y == Append(s, x)
<1>0. Len(s) \in Nat /\ DOMAIN s = 1 .. Len(s)
  BY LenProperties
<1>1. /\ y \in Seq(X) /\ Len(y) = Len(s) + 1 /\ DOMAIN y = 1 .. Len(y)
      /\ \A i \in 1 .. Len(s) : y[i] = s[i]
      /\ y[Len(s) + 1] = x
  BY AppendProperties, LenProperties
<1>2. y = s \o <<x>>
  BY AppendIsConcat
<1> HIDE DEF y
<1>3. ASSUME NEW e \in ToSet(y) PROVE e \in ToSet(s) \cup {x}
  <2>1. PICK i \in 1 .. Len(y) : e = y[i]
    BY <1>1 DEF ToSet
  <2>2. i \in 1 .. Len(s) \/ i = Len(s) + 1
    BY <1>0, <1>1
  <2> QED  BY <1>0, <1>1, <2>1, <2>2 DEF ToSet
<1>4. ASSUME NEW i \in 1 .. Len(s) PROVE s[i] \in ToSet(y)
  <2>1. i \in DOMAIN y /\ y[i] = s[i]
    BY <1>0, <1>1
  <2> QED  BY <2>1 DEF ToSet
<1>5. x \in ToSet(y)
  <2>1. Len(s) + 1 \in DOMAIN y
    BY <1>0, <1>1
  <2> QED  BY <1>1, <2>1 DEF ToSet
<1>6. ToSet(y) = ToSet(s) \cup {x}
  <2>1. \A e \in ToSet(s) : e \in ToSet(y)
    BY <1>0, <1>4 DEF ToSet
  <2> QED  BY <1>3, <1>5, <2>1
<1> QED  BY <1>1, <1>2, <1>6

(* socks5_list_users() lists every user once.                              *)
LEMMA ListedUsers ==
    ASSUME NEW t \in T!Tables
    PROVE  /\ ToSet(Listed(t)) = {a.name : a \in T!UsersOf(t)}
           /\ Len(Listed(t)) = Cardinality(T!InUse(t))
<1> DEFINE ns == [i \in T!Slots |-> IF t[i] = NoUser THEN <<>> ELSE <<t[i].name>>]
           n == MaxUsers
           Used_(k) == {i \in 1 .. k : t[i] # NoUser}
<1>1. n \in Nat
  BY UsersAssumption, Bytes
<1>2. ASSUME NEW i \in 1 .. n, t[i] # NoUser PROVE t[i].name \in CStrings
  BY <1>2 DEF T!Tables, T!Accounts, T!Slots
<1>3. ns \in Seq(Seq(CStrings)) /\ Len(ns) = n
  <2>1. \A i \in 1 .. n : (IF t[i] = NoUser THEN <<>> ELSE <<t[i].name>>) \in Seq(CStrings)
    BY <1>2
  <2>2. ns \in [1 .. n -> Seq(CStrings)]
    BY <2>1 DEF T!Slots
  <2> HIDE DEF ns
  <2> QED  BY <1>1, <2>2
<1>4. /\ Listed(t) = FlattenSeq(ns)
      /\ \A i \in 1 .. n : ns[i] = IF t[i] = NoUser THEN <<>> ELSE <<t[i].name>>
  BY DEF Listed, T!Slots
<1> HIDE DEF ns, n
<1>5. PICK fl : IsJoin(fl, CStrings, ns)
  BY <1>3, FlattenJoins
<1>6. /\ fl \in [0 .. n -> Seq(CStrings)] /\ fl[0] = <<>> /\ Listed(t) = fl[n]
      /\ \A k \in 1 .. n : fl[k] = fl[k - 1] \o ns[k]
  BY <1>3, <1>4, <1>5 DEF IsJoin
<1> DEFINE Good(k) == /\ ToSet(fl[k]) = {t[i].name : i \in Used_(k)}
                      /\ IsFiniteSet(Used_(k)) /\ Len(fl[k]) = Cardinality(Used_(k))
           S == {k \in Nat : k <= n => Good(k)}
<1>7. 0 \in S
  <2>1. Used_(0) = {} /\ ToSet(<<>>) = {} /\ Len(<<>>) = 0
    BY DEF ToSet
  <2>2. IsFiniteSet({}) /\ Cardinality({}) = 0
    BY FS_EmptySet
  <2> HIDE DEF Used_
  <2>3. Good(0)
    BY <1>6, <2>1, <2>2
  <2> QED  BY <2>3
<1>8. ASSUME NEW k \in S PROVE k + 1 \in S
  <2>1. SUFFICES ASSUME k + 1 <= n PROVE Good(k + 1)
    OBVIOUS
  <2>2. k \in Nat /\ k + 1 \in 1 .. n /\ k + 1 - 1 = k /\ k \in 0 .. n /\ k <= n
    BY <1>1, <2>1
  <2>3. Good(k) /\ fl[k] \in Seq(CStrings) /\ fl[k + 1] = fl[k] \o ns[k + 1]
    <3> HIDE DEF Good
    <3>1. Good(k)
      BY <2>2
    <3> HIDE DEF S
    <3>2. JoinGoesOn(fl, CStrings, ns, k)
      BY <1>1, <1>3, <1>5, <2>1, <2>2 DEF JoinGoesOn
    <3>3. JoinsOne(fl, CStrings, ns, k)
      BY <3>2, JoinStep
    <3> QED  BY <3>1, <3>3 DEF JoinsOne
  <2> DEFINE U == Used_(k)  V == Used_(k + 1)  x == t[k + 1].name
  <2>4. CASE t[k + 1] = NoUser
    <3>1. V = U
      <4>1. \A i \in 1 .. k + 1 : i \in 1 .. k \/ i = k + 1
        BY <2>2
      <4>2. \A i \in 1 .. k : i \in 1 .. k + 1
        BY <2>2
      <4> QED  BY <2>4, <4>1, <4>2
    <3>2. fl[k + 1] = fl[k]
      <4>1. ns[k + 1] = <<>>
        BY <1>4, <2>2, <2>4
      <4> QED  BY <2>3, <4>1, ConcatEmptySeq
    <3> HIDE DEF Used_
    <3> QED  BY <2>3, <3>1, <3>2
  <2>5. CASE t[k + 1] # NoUser
    <3>1. V = U \cup {k + 1} /\ k + 1 \notin U
      <4>1. \A i \in 1 .. k + 1 : i \in 1 .. k \/ i = k + 1
        BY <2>2
      <4>2. (\A i \in 1 .. k : i \in 1 .. k + 1) /\ k + 1 \notin 1 .. k /\ k + 1 \in 1 .. k + 1
        BY <2>2
      <4> QED  BY <2>5, <4>1, <4>2
    <3>2. fl[k + 1] = fl[k] \o <<x>> /\ x \in CStrings
      BY <1>2, <1>4, <2>2, <2>3, <2>5
    <3> HIDE DEF Used_
    <3>3. ToSet(fl[k + 1]) = ToSet(fl[k]) \cup {x} /\ Len(fl[k + 1]) = Len(fl[k]) + 1
      <4> HIDE DEF x
      <4> QED  BY <2>3, <3>2, ToSetAppends
    <3>4. IsFiniteSet(V) /\ Cardinality(V) = Cardinality(U) + 1
      <4>1. IsFiniteSet(U)
        BY <2>3
      <4> HIDE DEF U, V
      <4> QED  BY <3>1, <4>1, FS_AddElement
    <3>5. {t[i].name : i \in V} = {t[i].name : i \in U} \cup {x}
      BY <3>1
    <3> QED  BY <2>3, <3>3, <3>4, <3>5
  <2> QED  BY <2>4, <2>5
<1>9. S = Nat
  <2>1. S \in SUBSET Nat
    OBVIOUS
  <2> HIDE DEF S
  <2> QED  BY <1>7, <1>8, <2>1, CountingUp
<1>10. Good(n)
  <2> HIDE DEF Good
  <2> QED  BY <1>1, <1>9
<1>11. Used_(n) = T!InUse(t)
  BY DEF T!InUse, T!Slots, n
<1>12. {t[i].name : i \in T!InUse(t)} = {a.name : a \in T!UsersOf(t)}
  BY DEF T!UsersOf
<1> HIDE DEF Used_
<1> QED  BY <1>6, <1>10, <1>11, <1>12

(* A name is at most 255 bytes.                                            *)
LEMMA ListedTexts ==
    ASSUME NEW t \in T!Tables
    PROVE  /\ Listed(t) \in Seq(Text) /\ FitsIn(Len(Listed(t)), 1)
           /\ \A i \in 1 .. Len(Listed(t)) : Len(Listed(t)[i]) <= 511 /\ FitsIn(Len(Listed(t)[i]), 1)
<1> DEFINE ns == Listed(t)
<1>1. ns \in Seq(CStrings) /\ Len(ns) <= MaxUsers /\ MaxUsers \in Nat /\ MaxUsers <= 255
  BY ListedNames, UsersAssumption, Bytes
<1> HIDE DEF ns
<1>2. ns \in Seq(Text) /\ Len(ns) \in Nat
  BY <1>1, CStringsAreText, SeqMonotonic, LenProperties
<1>3. ASSUME NEW i \in 1 .. Len(ns) PROVE Len(ns[i]) <= 511 /\ FitsIn(Len(ns[i]), 1)
  <2>1. ns[i] \in CStrings
    BY <1>1, ElementOfSeq
  <2>2. Len(ns[i]) \in Nat /\ Len(ns[i]) <= 255
    BY <2>1, CStringsAreText, LenProperties DEF Text
  <2> QED  BY <2>2, SmallFits
<1>4. FitsIn(Len(ns), 1)
  BY <1>1, <1>2, SmallFits
<1> QED  BY <1>2, <1>3, <1>4 DEF ns

-----------------------------------------------------------------------------
(* The message that was meant *)

(* What of a string the client sends: its length is sent in a byte.        *)
Cut(s) == SubSeq(s, 1, Len(s) % 256)

(* A string as it is sent.                                                 *)
LEMMA StringIsSized ==
    ASSUME NEW s \in Text
    PROVE  /\ Cut(s) \in Text /\ Len(Cut(s)) <= 255 /\ String(s) = Sized(Cut(s), 1)
           /\ Len(s) <= 255 => Cut(s) = s
<1> DEFINE n == Len(s) % 256  x == SubSeq(s, 1, n)
<1>1. Len(s) \in Nat /\ n \in Nat /\ n <= 255 /\ n <= Len(s)
  BY LenProperties DEF Text
<1>2. Len(s) <= 255 => n = Len(s)
  BY <1>1
<1>3. n \in Byte
  BY <1>1, Bytes
<1>4. \A i \in 1 .. n : s[i] \in Byte
  BY <1>1, ElementOfSeq DEF Text
<1>5. String(s) = <<n>> \o x /\ Cut(s) = x
  BY DEF String, Cut
<1> HIDE DEF n
<1>6. x \in Text /\ Len(x) = n
  <2>1. n - 1 + 1 = n /\ (IF 1 <= n THEN n - 1 + 1 ELSE 0) = n
    BY <1>1
  <2>2. x \in Seq(Byte) /\ Len(x) = IF 1 <= n THEN n - 1 + 1 ELSE 0
    BY <1>1, <1>4, SubSeqProperties
  <2> QED  BY <2>1, <2>2 DEF Text
<1>7. Len(s) <= 255 => x = s
  BY <1>2, SubSeqFull DEF Text
<1> HIDE DEF x
<1>8. Sized(x, 1) = <<n>> \o x
  BY <1>3, <1>6, OneByteOf DEF Sized
<1> QED  BY <1>1, <1>5, <1>6, <1>7, <1>8

(* Where a message is there is one of that length.                         *)
LEMMA PiecesAgree ==
    ASSUME NEW A, NEW a, NEW x, NEW y, Piece(A, a, x), Piece(A, a, y), Len(x) = Len(y)
    PROVE  x = y
<1>1. x \in Text /\ y \in Text /\ \A i \in 1 .. Len(x) : x[i] = y[i]
  BY DEF Piece
<1> QED  BY <1>1, SeqEqual DEF Text

(* A string says how long it is.                                           *)
LEMMA SizedAgree ==
    ASSUME NEW A \in Text, NEW a, NEW x \in Text, NEW y \in Text, Len(x) <= 255, Len(y) <= 255,
           Piece(A, a, Sized(x, 1)), Piece(A, a, Sized(y, 1))
    PROVE  x = y
<1>1. Len(x) \in Byte /\ Len(y) \in Byte
  BY Bytes, LenProperties DEF Text
<1> DEFINE lx == <<Len(x)>>  ly == <<Len(y)>>
<1>2. /\ lx \in Text /\ Len(lx) = 1 /\ lx[1] = Len(x)
      /\ ly \in Text /\ Len(ly) = 1 /\ ly[1] = Len(y)
  BY <1>1, ByteText
<1>3. Sized(x, 1) = lx \o x /\ Sized(y, 1) = ly \o y
  BY <1>1, OneByteOf DEF Sized
<1> HIDE DEF lx, ly
<1>4. Piece(A, a, lx) /\ Piece(A, a + 1, x)
  <2>1. Piece(A, a, lx \o x)
    BY <1>3
  <2>2. Piece(A, a, lx) /\ Piece(A, a + Len(lx), x)
    BY <1>2, <2>1, PieceSplits
  <2> QED  BY <1>2, <2>2
<1>5. Piece(A, a, ly) /\ Piece(A, a + 1, y)
  <2>1. Piece(A, a, ly \o y)
    BY <1>3
  <2>2. Piece(A, a, ly) /\ Piece(A, a + Len(ly), y)
    BY <1>2, <2>1, PieceSplits
  <2> QED  BY <1>2, <2>2
<1>6. lx = ly
  BY <1>2, <1>4, <1>5, PiecesAgree
<1>7. Len(x) = Len(y)
  BY <1>2, <1>6
<1> QED  BY <1>4, <1>5, <1>7, PiecesAgree

(* A message of a byte and a string.                                       *)
LEMMA OneStringAgree ==
    ASSUME NEW A \in Text, NEW a, NEW g \in Byte, NEW h \in Byte,
           NEW x \in Text, NEW y \in Text, Len(x) <= 255, Len(y) <= 255,
           NEW u \in Text, NEW v \in Text,
           Piece(A, a, (<<g>> \o Sized(x, 1)) \o u), Piece(A, a, (<<h>> \o Sized(y, 1)) \o v)
    PROVE  x = y /\ Piece(A, a + 1 + Len(Sized(x, 1)), u) /\ Piece(A, a + 1 + Len(Sized(x, 1)), v)
<1> DEFINE bg == <<g>>  bh == <<h>>  sx == Sized(x, 1)  sy == Sized(y, 1)
<1>1. bg \in Text /\ Len(bg) = 1 /\ bh \in Text /\ Len(bh) = 1
  BY ByteText
<1>2. sx \in Text /\ sy \in Text /\ Len(sx) \in Nat /\ a \in Nat
  BY SizedBytes, LenProperties DEF Text, Piece
<1> HIDE DEF bg, bh, sx, sy
<1>3. bg \o sx \in Text /\ bh \o sy \in Text /\ Len(bg \o sx) = 1 + Len(sx) /\ Len(bh \o sy) = 1 + Len(sy)
  <2>1. bg \o sx \in Text /\ Len(bg \o sx) = Len(bg) + Len(sx)
    BY <1>1, <1>2, TextsJoin
  <2>2. bh \o sy \in Text /\ Len(bh \o sy) = Len(bh) + Len(sy)
    BY <1>1, <1>2, TextsJoin
  <2> QED  BY <1>1, <2>1, <2>2
<1>4. Piece(A, a, (bg \o sx) \o u) /\ Piece(A, a, (bh \o sy) \o v)
  BY DEF bg, bh, sx, sy
<1>5. Piece(A, a, bg \o sx) /\ Piece(A, a + (1 + Len(sx)), u)
  BY <1>3, <1>4, PieceSplits
<1>6. Piece(A, a, bh \o sy) /\ Piece(A, a + (1 + Len(sy)), v)
  BY <1>3, <1>4, PieceSplits
<1>7. Piece(A, a + 1, sx)
  BY <1>1, <1>2, <1>5, PieceSplits
<1>8. Piece(A, a + 1, sy)
  BY <1>1, <1>2, <1>6, PieceSplits
<1>9. x = y
  BY <1>7, <1>8, SizedAgree DEF sx, sy
<1>10. a + (1 + Len(sx)) = a + 1 + Len(sx) /\ Len(sx) = Len(sy)
  BY <1>2, <1>9 DEF sx, sy
<1> QED  BY <1>5, <1>6, <1>9, <1>10 DEF sx

(* The handshake that was parsed is the credential that was sent.          *)
LEMMA HandshakeAgrees ==
    ASSUME NEW A \in Text, NEW q \in Parsers, AuthKnows(q), q.at = "DONE",
           NEW a, a.name \in Text, a.pass \in Text,
           Piece(A, 0, Handshake(q)), Piece(A, 0, Credential(a))
    PROVE  Handshake(q) = Credential(a)
<1> DEFINE x == Cut(a.name)  y == Cut(a.pass)
<1>1. /\ x \in Text /\ Len(x) <= 255 /\ y \in Text /\ Len(y) <= 255
      /\ String(a.name) = Sized(x, 1) /\ String(a.pass) = Sized(y, 1)
  BY StringIsSized
<1>2. /\ q.uname \in Text /\ q.passwd \in Text
      /\ Len(q.uname) <= 255 /\ Len(q.passwd) <= 255
  <2>1. q.uname \in Text /\ q.passwd \in Text
    BY DEF Parsers
  <2>2. Len(q.uname) + 0 <= 255 /\ Len(q.passwd) + 0 <= 255
    BY DEF AuthKnows, Counts255
  <2> QED  BY <2>1, <2>2, LenProperties DEF Text
<1>3. Credential(a) = (<<Version>> \o Sized(x, 1)) \o Sized(y, 1)
  BY <1>1 DEF Credential
<1>4. Handshake(q) = (<<Version>> \o Sized(q.uname, 1)) \o Sized(q.passwd, 1)
  BY DEF Handshake
<1> HIDE DEF x, y
<1>5. Version \in Byte
  BY DEF Version, Byte
<1>6. Sized(y, 1) \in Text /\ Sized(q.passwd, 1) \in Text
  BY <1>1, <1>2, SizedBytes
<1>7. /\ Piece(A, 0, (<<Version>> \o Sized(x, 1)) \o Sized(y, 1))
      /\ Piece(A, 0, (<<Version>> \o Sized(q.uname, 1)) \o Sized(q.passwd, 1))
  BY <1>3, <1>4
<1> HIDE DEF Version
<1> DEFINE b == 0 + 1 + Len(Sized(x, 1))
<1>8. x = q.uname /\ Piece(A, b, Sized(y, 1)) /\ Piece(A, b, Sized(q.passwd, 1))
  <2> DEFINE u == Sized(y, 1)  v == Sized(q.passwd, 1)  z == q.uname
  <2>1. u \in Text /\ v \in Text /\ z \in Text /\ Len(z) <= 255
    BY <1>2, <1>6
  <2>2. Piece(A, 0, (<<Version>> \o Sized(x, 1)) \o u) /\ Piece(A, 0, (<<Version>> \o Sized(z, 1)) \o v)
    BY <1>7
  <2> HIDE DEF u, v, z
  <2>3. x = z /\ Piece(A, b, u) /\ Piece(A, b, v)
    BY <1>1, <1>5, <2>1, <2>2, OneStringAgree
  <2> QED  BY <2>3 DEF u, v, z
<1> HIDE DEF b
<1>9. y = q.passwd
  BY <1>1, <1>2, <1>8, SizedAgree
<1> QED  BY <1>3, <1>4, <1>8, <1>9

(* A message and its first byte.                                           *)
Begins(m, h) == m \in Text /\ Len(m) >= 1 /\ m[1] = h

(* What follows the first byte leaves it.                                  *)
LEMMA HeadStays ==
    ASSUME NEW m, NEW h, Begins(m, h), NEW t \in Text
    PROVE  Begins(m \o t, h)
<1>1. m \o t \in Text /\ Len(m \o t) = Len(m) + Len(t) /\ Len(m) \in Nat /\ Len(t) \in Nat
  BY TextsJoin DEF Begins
<1>2. 1 \in 1 .. Len(m)
  BY <1>1 DEF Begins
<1>3. (m \o t)[1] = m[1]
  BY <1>2, JoinedBytes DEF Begins
<1> QED  BY <1>1, <1>3 DEF Begins

(* A byte is a message.                                                    *)
LEMMA ByteBegins ==
    ASSUME NEW h \in Byte
    PROVE  Begins(<<h>>, h)
BY ByteText DEF Begins

(* Two messages at one place begin with one byte.                          *)
LEMMA HeadsAgree ==
    ASSUME NEW A, NEW a, NEW x, NEW y, NEW g, NEW h, Begins(x, g), Begins(y, h),
           Piece(A, a, x), Piece(A, a, y)
    PROVE  g = h
<1>1. 1 \in 1 .. Len(x) /\ 1 \in 1 .. Len(y)
  BY LenProperties DEF Begins, Text
<1> QED  BY <1>1 DEF Begins, Piece

(* The byte of each command.                                               *)
Code(k) ==
    CASE k.do = "add-user"    -> AddUser
      [] k.do = "del-user"    -> DelUser
      [] k.do = "users"       -> ListUsers
      [] k.do = "stats"       -> GetStats
      [] k.do = "set-timeout" -> SetTimeout
      [] k.do = "log"         -> GetLog

(* What a client that has a command line asks for.                         *)
Commands == {"add-user", "del-user", "users", "stats", "set-timeout", "log"}

(* The codes are bytes, and each is another.                               *)
LEMMA CodesDiffer ==
    ASSUME NEW k, k.do \in Commands
    PROVE  /\ Code(k) \in Byte /\ Code(k) \in Known
           /\ Code(k) = AddUser <=> k.do = "add-user"
           /\ Code(k) = DelUser <=> k.do = "del-user"
           /\ Code(k) = SetTimeout <=> k.do = "set-timeout"
           /\ Code(k) = ListUsers <=> k.do = "users"
           /\ Code(k) = GetStats <=> k.do = "stats"
           /\ Code(k) = GetLog <=> k.do = "log"
           /\ Code(k) # Close
BY DEF Code, Commands, Byte, Known, AddUser, DelUser, ListUsers, GetStats, SetTimeout, GetLog, Close

(* What the client sends begins with its command.                          *)
LEMMA RequestBegins ==
    ASSUME NEW k \in Roles, k.do \in Commands
    PROVE  Begins(Request(k), Code(k))
<1>0. /\ k.account.name \in Seq(Byte) /\ k.account.pass \in Seq(Byte) /\ k.seconds \in Nat
      /\ Code(k) \in Byte
  <2>1. k.seconds \in Nat
    BY DEF Roles
  <2> QED  BY <2>1, ArgumentsAreText, CodesDiffer
<1>1. String(k.account.name) \in Text /\ String(k.account.pass) \in Text
  BY <1>0, StringIsText
<1>2. BigEndian(k.seconds, 4) \in Text
  BY <1>0, BigEndianBytes
<1> DEFINE b == <<Code(k)>>
<1>3. Begins(b, Code(k))
  BY <1>0, ByteBegins
<1>4. CASE k.do = "add-user"
  <2>1. Request(k) = (b \o String(k.account.name)) \o String(k.account.pass)
    BY <1>4 DEF Request, Code
  <2> HIDE DEF b
  <2>2. Begins(b \o String(k.account.name), Code(k))
    BY <1>1, <1>3, HeadStays
  <2> QED  BY <1>1, <2>1, <2>2, HeadStays
<1>5. CASE k.do = "del-user"
  <2>1. Request(k) = b \o String(k.account.name)
    BY <1>5 DEF Request, Code
  <2> HIDE DEF b
  <2> QED  BY <1>1, <1>3, <2>1, HeadStays
<1>6. CASE k.do = "set-timeout"
  <2>1. Request(k) = b \o BigEndian(k.seconds, 4)
    BY <1>6 DEF Request, Code
  <2> HIDE DEF b
  <2> QED  BY <1>2, <1>3, <2>1, HeadStays
<1>7. CASE k.do \in {"users", "stats", "log"}
  <2>1. Request(k) = b
    BY <1>7 DEF Request, Code
  <2> QED  BY <1>3, <2>1
<1> QED  BY <1>4, <1>5, <1>6, <1>7 DEF Commands

(* So does what is parsed.                                                 *)
LEMMA EncodedBegins ==
    ASSUME NEW q \in Parsers
    PROVE  Begins(Encoded(q), q.cmd)
<1>0. q.uname \in Text /\ q.passwd \in Text /\ q.timeout \in Nat /\ q.cmd \in Byte
  BY DEF Parsers
<1>1. Sized(q.uname, 1) \in Text /\ Sized(q.passwd, 1) \in Text /\ BigEndian(q.timeout, 4) \in Text
  BY <1>0, SizedBytes, BigEndianBytes
<1> DEFINE b == <<q.cmd>>
<1>2. Begins(b, q.cmd)
  BY <1>0, ByteBegins
<1>3. \/ Encoded(q) = (b \o Sized(q.uname, 1)) \o Sized(q.passwd, 1)
      \/ Encoded(q) = b \o Sized(q.uname, 1)
      \/ Encoded(q) = b \o BigEndian(q.timeout, 4)
      \/ Encoded(q) = b
  BY DEF Encoded
<1> HIDE DEF b
<1>4. Begins(b \o Sized(q.uname, 1), q.cmd) /\ Begins(b \o BigEndian(q.timeout, 4), q.cmd)
  BY <1>1, <1>2, HeadStays
<1>5. Begins((b \o Sized(q.uname, 1)) \o Sized(q.passwd, 1), q.cmd)
  BY <1>1, <1>4, HeadStays
<1> QED  BY <1>2, <1>3, <1>4, <1>5

(* q is the command k, with its arguments.                                 *)
IsFor(k, q) ==
    /\ Encoded(q) = Request(k) /\ q.cmd = Code(k)
    /\ k.do \in {"add-user", "del-user"} => q.uname = Cut(k.account.name)
    /\ k.do = "add-user" => q.passwd = Cut(k.account.pass)
    /\ k.do = "set-timeout" => q.timeout = k.seconds

(* The command that was parsed is the one that was sent: each says where   *)
(* it ends.                                                                *)
LEMMA CommandAgrees ==
    ASSUME NEW A \in Text, NEW a, NEW q \in Parsers, CmdKnows(q), TimeKnows(q), Over(q),
           NEW k \in Roles, k.do \in Commands, FitsIn(k.seconds, 4),
           Piece(A, a, Encoded(q)), Piece(A, a, Request(k))
    PROVE  q.at = "DONE" /\ IsFor(k, q)
<1>1. q.cmd = Code(k)
  BY RequestBegins, EncodedBegins, HeadsAgree
<1>2. q.at = "DONE"
  <2>1. q.cmd \in Known
    BY <1>1, CodesDiffer
  <2> QED  BY <2>1 DEF CmdKnows, Over, Known
<1> DEFINE x == Cut(k.account.name)  y == Cut(k.account.pass)
<1>3. /\ k.account.name \in Text /\ k.account.pass \in Text
      /\ q.uname \in Text /\ q.passwd \in Text /\ q.cmd \in Byte /\ q.timeout \in Nat
      /\ k.seconds \in Nat
  <2>1. k.seconds \in Nat
    BY DEF FitsIn
  <2> QED  BY <2>1, ArgumentsAreText DEF Parsers, Text
<1>4. /\ x \in Text /\ Len(x) <= 255 /\ y \in Text /\ Len(y) <= 255
      /\ String(k.account.name) = Sized(x, 1) /\ String(k.account.pass) = Sized(y, 1)
  BY <1>3, StringIsSized
<1> HIDE DEF x, y
<1> DEFINE b == <<q.cmd>>
<1>5. CASE k.do = "add-user"
  <2>1. q.cmd = AddUser
    BY <1>1, <1>5, CodesDiffer
  <2>2. Len(q.uname) <= 255 /\ Len(q.passwd) <= 255
    <3>1. Len(q.uname) + 0 <= 255 /\ Len(q.passwd) + q.left <= 255 /\ q.left = 0
      BY <1>2, <2>1 DEF CmdKnows, Counts255
    <3> QED  BY <1>3, <3>1, LenProperties DEF Text
  <2> DEFINE u == Sized(y, 1)  v == Sized(q.passwd, 1)  z == q.uname  f == 1 + Len(Sized(x, 1))
  <2>3. Request(k) = (b \o Sized(x, 1)) \o u
    BY <1>4, <1>5, <2>1 DEF Request
  <2>4. Encoded(q) = (b \o Sized(z, 1)) \o v
    BY <2>1 DEF Encoded, AddUser, DelUser, SetTimeout
  <2>5. u \in Text /\ v \in Text /\ z \in Text /\ Len(z) <= 255
    BY <1>3, <1>4, <2>2, SizedBytes
  <2>6. Piece(A, a, (b \o Sized(x, 1)) \o u) /\ Piece(A, a, (b \o Sized(z, 1)) \o v)
    BY <2>3, <2>4
  <2> HIDE DEF u, v, z
  <2>7. x = z /\ Piece(A, a + 1 + Len(Sized(x, 1)), u) /\ Piece(A, a + 1 + Len(Sized(x, 1)), v)
    BY <1>3, <1>4, <2>5, <2>6, OneStringAgree
  <2>8. y = q.passwd
    BY <1>3, <1>4, <2>2, <2>7, SizedAgree DEF u, v
  <2>9. Encoded(q) = Request(k) /\ q.uname = x
    BY <2>3, <2>4, <2>7, <2>8 DEF u, v, z
  <2> QED  BY <1>1, <1>2, <1>5, <2>8, <2>9 DEF IsFor, x, y
<1>6. CASE k.do = "del-user"
  <2>1. q.cmd = DelUser /\ AddUser # DelUser
    BY <1>1, <1>6, CodesDiffer DEF AddUser, DelUser
  <2>2. Len(q.uname) <= 255
    <3>1. Len(q.uname) + q.left <= 255 /\ q.left = 0
      BY <1>2, <2>1 DEF CmdKnows, Counts255
    <3> QED  BY <1>3, <3>1, LenProperties DEF Text
  <2> DEFINE z == q.uname  sx == Sized(x, 1)  sz == Sized(z, 1)
  <2>3. Request(k) = b \o sx
    BY <1>4, <1>6, <2>1 DEF Request
  <2>4. Encoded(q) = b \o sz
    BY <2>1 DEF Encoded, AddUser, DelUser, SetTimeout
  <2>5. sx \in Text /\ sz \in Text /\ b \in Text /\ Len(b) = 1
    BY <1>3, <1>4, SizedBytes, ByteText
  <2>6. Piece(A, a, b \o sx) /\ Piece(A, a, b \o sz)
    BY <2>3, <2>4
  <2> HIDE DEF b, sx, sz
  <2>7. Piece(A, a + Len(b), sx) /\ Piece(A, a + Len(b), sz)
    BY <2>5, <2>6, PieceSplits
  <2>8. x = z
    BY <1>3, <1>4, <2>2, <2>7, SizedAgree DEF sx, sz
  <2>9. Encoded(q) = Request(k) /\ q.uname = x
    BY <2>3, <2>4, <2>8 DEF sx, sz
  <2> QED  BY <1>1, <1>2, <1>6, <2>9 DEF IsFor, x
<1>7. CASE k.do = "set-timeout"
  <2>1. q.cmd = SetTimeout /\ AddUser # SetTimeout /\ DelUser # SetTimeout
    BY <1>1, <1>7, CodesDiffer DEF AddUser, DelUser, SetTimeout
  <2>2. FitsIn(q.timeout, 4)
    BY <1>2, <2>1 DEF TimeKnows
  <2> DEFINE sx == BigEndian(k.seconds, 4)  sz == BigEndian(q.timeout, 4)
  <2>3. Request(k) = b \o sx
    BY <1>7, <2>1 DEF Request
  <2>4. Encoded(q) = b \o sz
    BY <2>1 DEF Encoded
  <2>5. sx \in Text /\ sz \in Text /\ b \in Text /\ Len(sx) = 4 /\ Len(sz) = 4
    BY <1>3, BigEndianBytes, ByteText
  <2>6. Piece(A, a, b \o sx) /\ Piece(A, a, b \o sz)
    BY <2>3, <2>4
  <2>a. Value(sx) = k.seconds /\ Value(sz) = q.timeout
    BY <2>2, ValueOfBigEndian
  <2> HIDE DEF b, sx, sz
  <2>7. Piece(A, a + Len(b), sx) /\ Piece(A, a + Len(b), sz)
    BY <2>5, <2>6, PieceSplits
  <2>8. sx = sz
    BY <2>5, <2>7, PiecesAgree
  <2>9. Encoded(q) = Request(k) /\ q.timeout = k.seconds
    BY <2>3, <2>4, <2>8, <2>a
  <2> QED  BY <1>1, <1>2, <1>7, <2>9 DEF IsFor
<1>8. CASE k.do \in {"users", "stats", "log"}
  <2>1. q.cmd = Code(k) /\ Code(k) \notin {AddUser, DelUser, SetTimeout}
    BY <1>1, <1>8, CodesDiffer
  <2>2. Encoded(q) = b
    BY <2>1 DEF Encoded
  <2>3. Request(k) = b
    BY <1>1, <1>8 DEF Request, Code
  <2> QED  BY <1>1, <1>2, <1>8, <2>2, <2>3 DEF IsFor
<1> QED  BY <1>5, <1>6, <1>7, <1>8 DEF Commands

-----------------------------------------------------------------------------
(* The answer that is read *)

(* Answer, of the table and the counters of its moment.                    *)
AnswerFor(q, t, w) ==
    CASE q.cmd = AddUser   -> <<AddStatus(t, Account(q))>>
      [] q.cmd = DelUser   -> <<DelStatus(t, CString(q.uname))>>
      [] q.cmd = ListUsers -> <<OK>> \o BigEndian(Len(Listed(t)), 1) \o Sizeds(Listed(t), 1)
      [] q.cmd = GetStats  -> Stats(w)
      [] q.cmd = GetLog    -> Log(w)
      [] OTHER             -> <<OK>>

(* What is written for a command is its answer at that moment.             *)
LEMMA AnswerAtOnce ==
    ASSUME NEW STATE q
    PROVE  Answer(q) = AnswerFor(q, users, world)
BY DEF Answer, AnswerFor, Stats, Log

(* The client waits for an answer, whatever it asked for.                  *)
LEMMA NothingIsRead ==
    ASSUME NEW k, k.do \in Commands
    PROVE  ~AnswerRead(k, <<>>).enough
<1>1. ~More.enough /\ Len(<<>>) < 29
  BY DEF More
<1>2. AnswerRead(k, <<>>) = More
  <2>1. ListRead(<<>>, 2, 1) = More /\ ListRead(<<>>, 3, 2) = More
    BY DEF ListRead
  <2> QED  BY <1>1, <2>1 DEF AnswerRead
<1> QED  BY <1>1, <1>2

(* A status is one byte.                                                   *)
LEMMA StatusRead ==
    ASSUME NEW k, k.do \in {"add-user", "del-user", "set-timeout"}, NEW s \in Text, NEW m \in Text,
           NEW b \in Byte, s \o m = <<b>>
    PROVE  /\ AnswerRead(k, s).enough => AnswerRead(k, s).status = b
           /\ m = <<>> => AnswerRead(k, s).enough
<1>1. AnswerRead(k, s) = IF s = <<>> THEN More ELSE Enough(1, s[1], <<>>)
  BY DEF AnswerRead
<1>2. ASSUME s # <<>> PROVE s[1] = b
  <2>1. Len(s) \in Nat /\ Len(s) # 0
    BY <1>2, LenProperties, EmptySeq DEF Text
  <2>2. 1 \in 1 .. Len(s)
    BY <2>1
  <2>3. (s \o m)[1] = s[1]
    BY <2>2, JoinedBytes
  <2> QED  BY <2>3
<1>3. ASSUME m = <<>> PROVE s # <<>>
  <2>1. s \o <<>> = s
    BY ConcatEmptySeq DEF Text
  <2>2. s = <<b>> /\ <<b>> # <<>>
    BY <1>3, <2>1
  <2> QED  BY <2>2
<1> QED  BY <1>1, <1>2, <1>3 DEF More, Enough

(* A status, a count of g bytes and as many strings, behind the first h    *)
(* bytes, each with w bytes of length.                                     *)
IsListAnswer(A, ss, g, h, w) ==
    /\ ss \in Seq(Text) /\ g \in Nat /\ h = g + 1 /\ w \in Nat
    /\ A = (<<OK>> \o BigEndian(Len(ss), g)) \o Sizeds(ss, w) /\ FitsIn(Len(ss), g)
    /\ \A i \in 1 .. Len(ss) : Len(ss[i]) <= 511 /\ FitsIn(Len(ss[i]), w)

(* What is read of it, while m is still to come, is the list.              *)
ListReads(r, ss, m) ==
    /\ r.enough => r.status = OK /\ r.data = ss
    /\ m = <<>> => r.enough

(* A list is read as it was written.                                       *)
LEMMA ListAnswer ==
    ASSUME NEW s \in Text, NEW m \in Text, NEW ss, NEW g, NEW h, NEW w,
           IsListAnswer(s \o m, ss, g, h, w)
    PROVE  ListReads(ListRead(s, h, w), ss, m)
<1>a. /\ ss \in Seq(Text) /\ g \in Nat /\ h = g + 1 /\ w \in Nat
      /\ s \o m = (<<OK>> \o BigEndian(Len(ss), g)) \o Sizeds(ss, w) /\ FitsIn(Len(ss), g)
      /\ \A i \in 1 .. Len(ss) : Len(ss[i]) <= 511 /\ FitsIn(Len(ss[i]), w)
  BY DEF IsListAnswer
<1> SUFFICES ASSUME NEW r, r = ListRead(s, h, w)
             PROVE
             /\ r.enough => r.status = OK /\ r.data = ss
             /\ m = <<>> => r.enough
  BY DEF ListReads
<1> DEFINE A == s \o m  y == <<OK>>  b == BigEndian(Len(ss), g)  z == Sizeds(ss, w)
<1>0. Len(ss) \in Nat /\ OK \in Byte /\ Len(s) \in Nat
  BY <1>a, LenProperties DEF OK, Byte, Text
<1>1. y \in Text /\ Len(y) = 1 /\ y[1] = OK
  BY <1>0, ByteText
<1>2. b \in Text /\ Len(b) = g /\ z \in Text
  BY <1>a, <1>0, BigEndianBytes, SizedsBytes
<1>3. Value(b) = Len(ss)
  BY <1>a, ValueOfBigEndian
<1>4. A \in Text /\ A = (y \o b) \o z
  BY <1>a, TextsJoin
<1>5. Len(A) = (1 + g) + Len(z) /\ Len(z) \in Nat
  <2> HIDE DEF y, b, z, A
  <2>1. y \o b \in Text /\ Len(y \o b) = Len(y) + Len(b)
    BY <1>1, <1>2, TextsJoin
  <2>2. Len((y \o b) \o z) = Len(y \o b) + Len(z) /\ Len(z) \in Nat
    BY <1>2, <2>1, TextsJoin
  <2> QED  BY <1>1, <1>2, <1>4, <2>1, <2>2
<1> HIDE DEF y, b, z
<1>6. Piece(A, 0, y \o b) /\ Piece(A, h, z)
  <2>1. y \o b \in Text /\ Len(y \o b) = Len(y) + Len(b)
    BY <1>1, <1>2, TextsJoin
  <2>2. Piece(A, 0, (y \o b) \o z)
    BY <1>4, WholePiece
  <2> HIDE DEF A
  <2>3. Piece(A, 0, y \o b) /\ Piece(A, 0 + Len(y \o b), z)
    BY <1>2, <1>4, <2>1, <2>2, PieceSplits
  <2>4. 0 + Len(y \o b) = h
    BY <1>a, <1>1, <1>2, <2>1
  <2> QED  BY <2>3, <2>4
<1>7. Piece(A, 0, y) /\ Piece(A, 1, b)
  <2> HIDE DEF A
  <2>1. Piece(A, 0, y) /\ Piece(A, 0 + Len(y), b)
    BY <1>1, <1>2, <1>4, <1>6, PieceSplits
  <2>2. 0 + Len(y) = 1
    BY <1>1
  <2> QED  BY <2>1, <2>2
<1>8. ASSUME s # <<>> PROVE s[1] = OK
  <2>1. Len(s) # 0
    BY <1>8, EmptySeq DEF Text
  <2>2. 1 \in 1 .. Len(s) /\ 1 \in 1 .. Len(y) /\ 0 + 1 = 1
    BY <1>0, <1>1, <2>1
  <2>3. A[1] = s[1]
    BY <2>2, JoinedBytes
  <2>4. A[0 + 1] = y[1]
    BY <1>7, <2>2 DEF Piece
  <2> QED  BY <1>1, <2>2, <2>3, <2>4
<1>9. CASE s = <<>> \/ Len(s) < h
  <2>1. r = More
    <3>1. s # <<>> => s[1] = OK
      BY <1>8
    <3> QED  BY <1>9, <3>1 DEF ListRead
  <2>2. m # <<>>
    <3>1. SUFFICES ASSUME m = <<>> PROVE FALSE
      OBVIOUS
    <3>2. A = s
      BY <3>1, ConcatEmptySeq DEF Text
    <3>3. Len(s) < h
      <4>1. CASE s = <<>>
        <5>1. Len(s) = 0 /\ 0 < h
          BY <1>a, <4>1
        <5> QED  BY <5>1
      <4> QED  BY <1>9, <4>1
    <3> HIDE DEF A
    <3> QED  BY <1>a, <1>0, <1>5, <3>2, <3>3
  <2> QED  BY <2>1, <2>2 DEF More
<1>10. CASE s # <<>> /\ ~(Len(s) < h)
  <2>1. SubSeq(s, 2, h) = b
    <3>1. 1 + Len(b) <= Len(s) /\ 1 + Len(b) = h
      BY <1>a, <1>0, <1>2, <1>10
    <3>2. SubSeq(s, 1 + 1, 1 + Len(b)) = b
      BY <1>7, <3>1, PieceArrives
    <3>3. 1 + 1 = 2
      OBVIOUS
    <3> QED  BY <3>1, <3>2, <3>3
  <2>2. r = Strings(s, h, Len(ss), w)
    <3>1. s[1] = OK
      BY <1>8, <1>10
    <3> QED  BY <1>3, <1>10, <2>1, <3>1 DEF ListRead
  <2>3. Piece(s \o m, h, Sizeds(ss, w)) /\ Len(s \o m) = h + Len(Sizeds(ss, w))
    <3>1. (1 + g) + Len(z) = h + Len(z)
      BY <1>a, <1>5
    <3> QED  BY <1>5, <1>6, <3>1 DEF z
  <2>4. r = Strings(s, h, Len(ss), w) /\ Piece(s \o m, h, Sizeds(ss, w)) /\ Len(s \o m) = h + Len(Sizeds(ss, w))
    BY <2>2, <2>3
  <2>5. \A i \in 1 .. Len(ss) : Len(ss[i]) <= 511 /\ FitsIn(Len(ss[i]), w)
    BY <1>a
  <2>6. ss \in Seq(Text)
    BY <1>a
  <2>7. w \in Nat
    BY <1>a
  <2> HIDE DEF A
  <2> QED  BY ONLY <2>4, <2>5, <2>6, <2>7, s \in Text, m \in Text, ListIsRead
<1> QED  BY <1>9, <1>10

(* A number behind what was read.                                          *)
NumberAt(A, a, v, n) == Piece(A, a, BigEndian(v, n)) /\ FitsIn(v, n)

(* It is read when it has arrived.                                         *)
LEMMA NumberIsRead ==
    ASSUME NEW s \in Text, NEW m \in Text, NEW a \in Nat, NEW v, NEW n \in Nat,
           NumberAt(s \o m, a, v, n), a + n <= Len(s)
    PROVE  Value(SubSeq(s, a + 1, a + n)) = v
<1> DEFINE b == BigEndian(v, n)
<1>1. v \in Nat /\ Piece(s \o m, a, b) /\ Value(b) = v
  BY ValueOfBigEndian DEF NumberAt, FitsIn
<1>2. Len(b) = n
  BY <1>1, BigEndianBytes
<1> HIDE DEF b
<1>3. SubSeq(s, a + 1, a + Len(b)) = b
  BY <1>1, <1>2, PieceArrives
<1> QED  BY <1>1, <1>2, <1>3

(* The four numbers of the counters.                                       *)
LEMMA StatsRead ==
    ASSUME NEW k, k.do = "stats", NEW s \in Text, NEW m \in Text, NEW w \in Worlds,
           s \o m = Stats(w)
    PROVE  /\ AnswerRead(k, s).enough =>
                 AnswerRead(k, s).data = <<w.hist, w.curr, w.sent, w.recv>>
           /\ m = <<>> => AnswerRead(k, s).enough
<1>0. /\ FitsIn(w.hist, 8) /\ FitsIn(w.curr, 4) /\ FitsIn(w.sent, 8) /\ FitsIn(w.recv, 8)
  BY WorldsAssumption
<1>1. AnswerRead(k, s) = IF Len(s) < 29 THEN More ELSE Enough(29, s[1], Numbers(s))
  BY DEF AnswerRead
<1> DEFINE A == s \o m  y == <<OK>>
           b == BigEndian(w.hist, 8)  c == BigEndian(w.curr, 4)
           d == BigEndian(w.sent, 8)  e == BigEndian(w.recv, 8)
<1>2. Has(y, 1) /\ Has(b, 8) /\ Has(c, 4) /\ Has(d, 8) /\ Has(e, 8)
  <2>1. w.hist \in Nat /\ w.curr \in Nat /\ w.sent \in Nat /\ w.recv \in Nat
    BY <1>0 DEF FitsIn
  <2>2. OK \in Byte
    BY DEF OK, Byte
  <2>3. Has(y, 1)
    BY <2>2, ByteText DEF Has
  <2>4. Has(b, 8) /\ Has(d, 8)
    BY <2>1, BigEndianBytes DEF Has
  <2>5. Has(c, 4) /\ Has(e, 8)
    BY <2>1, BigEndianBytes DEF Has
  <2> QED  BY <2>3, <2>4, <2>5
<1>3. A = (((y \o b) \o c) \o d) \o e /\ A \in Text
  BY TextsJoin DEF Stats
<1> HIDE DEF y, b, c, d, e
<1>4. /\ Has(y \o b, 9) /\ Has((y \o b) \o c, 13) /\ Has(((y \o b) \o c) \o d, 21)
      /\ Has((((y \o b) \o c) \o d) \o e, 29)
  <2>1. Has(y \o b, 1 + 8)
    BY <1>2, HasJoins
  <2>2. Has((y \o b) \o c, (1 + 8) + 4)
    BY <1>2, <2>1, HasJoins
  <2>3. Has(((y \o b) \o c) \o d, ((1 + 8) + 4) + 8)
    BY <1>2, <2>2, HasJoins
  <2>4. Has((((y \o b) \o c) \o d) \o e, (((1 + 8) + 4) + 8) + 8)
    BY <1>2, <2>3, HasJoins
  <2> QED  BY <2>1, <2>2, <2>3, <2>4
<1>5. Piece(A, 0, (((y \o b) \o c) \o d) \o e)
  BY <1>3, WholePiece
<1>6. Len(A) = 29
  BY <1>3, <1>4 DEF Has
<1> HIDE DEF A
<1>7. Piece(A, 0, ((y \o b) \o c) \o d) /\ Piece(A, 21, e)
  <2> DEFINE x == ((y \o b) \o c) \o d
  <2>1. x \in Text /\ Len(x) = 21 /\ e \in Text /\ Piece(A, 0, x \o e)
    BY <1>2, <1>4, <1>5 DEF Has
  <2> HIDE DEF x
  <2>2. Piece(A, 0, x) /\ Piece(A, 0 + Len(x), e)
    BY <1>3, <2>1, PieceSplits
  <2> QED  BY <2>1, <2>2 DEF x
<1>8. Piece(A, 0, (y \o b) \o c) /\ Piece(A, 13, d)
  <2> DEFINE x == (y \o b) \o c
  <2>1. x \in Text /\ Len(x) = 13 /\ d \in Text /\ Piece(A, 0, x \o d)
    BY <1>2, <1>4, <1>7 DEF Has
  <2> HIDE DEF x
  <2>2. Piece(A, 0, x) /\ Piece(A, 0 + Len(x), d)
    BY <1>3, <2>1, PieceSplits
  <2> QED  BY <2>1, <2>2 DEF x
<1>9. Piece(A, 0, y \o b) /\ Piece(A, 9, c)
  <2> DEFINE x == y \o b
  <2>1. x \in Text /\ Len(x) = 9 /\ c \in Text /\ Piece(A, 0, x \o c)
    BY <1>2, <1>4, <1>8 DEF Has
  <2> HIDE DEF x
  <2>2. Piece(A, 0, x) /\ Piece(A, 0 + Len(x), c)
    BY <1>3, <2>1, PieceSplits
  <2> QED  BY <2>1, <2>2 DEF x
<1>10. Piece(A, 1, b)
  <2>1. y \in Text /\ Len(y) = 1 /\ b \in Text
    BY <1>2 DEF Has
  <2>2. Piece(A, 0 + Len(y), b)
    BY <1>3, <1>9, <2>1, PieceSplits
  <2> QED  BY <2>1, <2>2
<1>11. /\ NumberAt(A, 1, w.hist, 8) /\ NumberAt(A, 9, w.curr, 4)
       /\ NumberAt(A, 13, w.sent, 8) /\ NumberAt(A, 21, w.recv, 8)
  BY <1>0, <1>7, <1>8, <1>9, <1>10 DEF NumberAt, b, c, d, e
<1>12. ASSUME ~(Len(s) < 29) PROVE Numbers(s) = <<w.hist, w.curr, w.sent, w.recv>>
  <2>0. Len(s) \in Nat /\ 29 <= Len(s)
    BY <1>12, LenProperties DEF Text
  <2>1. Value(SubSeq(s, 2, 9)) = w.hist
    <3>1. NumberAt(s \o m, 1, w.hist, 8) /\ 1 + 8 <= Len(s)
      BY <1>11, <2>0 DEF A
    <3>2. Value(SubSeq(s, 1 + 1, 1 + 8)) = w.hist
      BY <3>1, NumberIsRead
    <3>3. 1 + 1 = 2 /\ 1 + 8 = 9
      OBVIOUS
    <3> QED  BY <3>2, <3>3
  <2>2. Value(SubSeq(s, 10, 13)) = w.curr
    <3>1. NumberAt(s \o m, 9, w.curr, 4) /\ 9 + 4 <= Len(s)
      BY <1>11, <2>0 DEF A
    <3>2. Value(SubSeq(s, 9 + 1, 9 + 4)) = w.curr
      BY <3>1, NumberIsRead
    <3>3. 9 + 1 = 10 /\ 9 + 4 = 13
      OBVIOUS
    <3> QED  BY <3>2, <3>3
  <2>3. Value(SubSeq(s, 14, 21)) = w.sent
    <3>1. NumberAt(s \o m, 13, w.sent, 8) /\ 13 + 8 <= Len(s)
      BY <1>11, <2>0 DEF A
    <3>2. Value(SubSeq(s, 13 + 1, 13 + 8)) = w.sent
      BY <3>1, NumberIsRead
    <3>3. 13 + 1 = 14 /\ 13 + 8 = 21
      OBVIOUS
    <3> QED  BY <3>2, <3>3
  <2>4. Value(SubSeq(s, 22, 29)) = w.recv
    <3>1. NumberAt(s \o m, 21, w.recv, 8) /\ 21 + 8 <= Len(s)
      BY <1>11, <2>0 DEF A
    <3>2. Value(SubSeq(s, 21 + 1, 21 + 8)) = w.recv
      BY <3>1, NumberIsRead
    <3>3. 21 + 1 = 22 /\ 21 + 8 = 29
      OBVIOUS
    <3> QED  BY <3>2, <3>3
  <2> QED  BY <2>1, <2>2, <2>3, <2>4 DEF Numbers
<1>13. ASSUME m = <<>> PROVE ~(Len(s) < 29)
  <2>1. A = s
    BY <1>13, ConcatEmptySeq DEF A, Text
  <2>2. Len(s) = 29
    BY <1>6, <2>1
  <2> QED  BY <2>2
<1> QED  BY <1>1, <1>12, <1>13 DEF More, Enough

(* An argument without a NUL is a whole C string.                          *)
LEMMA ArgumentWhole ==
    ASSUME NEW s \in Seq(1 .. 255)
    PROVE  CString(s) = s
<1>1. \A i \in DOMAIN s : s[i] # 0
  <2>1. ASSUME NEW i \in DOMAIN s PROVE s[i] # 0
    <3>1. DOMAIN s = 1 .. Len(s)
      OBVIOUS
    <3>2. s[i] \in 1 .. 255
      BY <3>1, ElementOfSeq
    <3>3. \A x \in 1 .. 255 : x # 0
      OBVIOUS
    <3> QED  BY <3>2, <3>3
  <2> QED  BY <2>1
<1>2. {i \in DOMAIN s : s[i] = 0} = {}
  BY <1>1
<1> QED  BY <1>2 DEF CString

(* The name of the command line, where it is sent whole.                   *)
NameSent(k) == k.do \in {"add-user", "del-user"} => Len(k.account.name) <= 255

(* Then it is the name that exec_command() looks for.                      *)
LEMMA NameArrives ==
    ASSUME NEW k \in Roles, k.do \in {"add-user", "del-user"}, NameSent(k), NEW q, IsFor(k, q)
    PROVE  CString(q.uname) = k.account.name
<1>1. k.account.name \in Seq(1 .. 255) /\ k.account.name \in Text /\ Len(k.account.name) <= 255
  BY ArgumentsAreText DEF Roles, NameSent, Text
<1>2. q.uname = k.account.name
  BY <1>1, StringIsSized DEF IsFor
<1> QED  BY <1>1, <1>2, ArgumentWhole

(* The answer to each command.                                             *)
LEMMA AnswerForms ==
    ASSUME NEW q, NEW t, NEW w
    PROVE  /\ q.cmd = AddUser    => AnswerFor(q, t, w) = <<AddStatus(t, Account(q))>>
           /\ q.cmd = DelUser    => AnswerFor(q, t, w) = <<DelStatus(t, CString(q.uname))>>
           /\ q.cmd = SetTimeout => AnswerFor(q, t, w) = <<OK>>
           /\ q.cmd = ListUsers  =>
                 AnswerFor(q, t, w) = (<<OK>> \o BigEndian(Len(Listed(t)), 1)) \o Sizeds(Listed(t), 1)
           /\ q.cmd = GetStats   => AnswerFor(q, t, w) = Stats(w)
           /\ q.cmd = GetLog     => AnswerFor(q, t, w) = Log(w)
<1>1. /\ q.cmd = AddUser    => AnswerFor(q, t, w) = <<AddStatus(t, Account(q))>>
      /\ q.cmd = DelUser    => AnswerFor(q, t, w) = <<DelStatus(t, CString(q.uname))>>
      /\ q.cmd = SetTimeout => AnswerFor(q, t, w) = <<OK>>
  BY DEF AnswerFor, AddUser, DelUser, ListUsers, GetStats, SetTimeout, GetLog
<1>2. q.cmd = ListUsers =>
         AnswerFor(q, t, w) = (<<OK>> \o BigEndian(Len(Listed(t)), 1)) \o Sizeds(Listed(t), 1)
  BY DEF AnswerFor, AddUser, DelUser, ListUsers, GetStats, SetTimeout, GetLog
<1>3. /\ q.cmd = GetStats   => AnswerFor(q, t, w) = Stats(w)
      /\ q.cmd = GetLog     => AnswerFor(q, t, w) = Log(w)
  BY DEF AnswerFor, AddUser, DelUser, ListUsers, GetStats, SetTimeout, GetLog
<1> QED  BY <1>1, <1>2, <1>3

(* What the client prints is what was done, and a whole answer is enough.  *)
LEMMA AnswerIsTrue ==
    ASSUME NEW k \in Roles, k.do \in Commands, NameSent(k), NEW d \in Turns, IsFor(k, d.q),
           NEW s \in Text, NEW m \in Text, s \o m = AnswerFor(d.q, d.users, d.world),
           NEW r, r = AnswerRead(k, s)
    PROVE  /\ r.enough => TrueOf(k, Told(r.status, r.data), d)
           /\ m = <<>> => r.enough
<1> DEFINE q == d.q  t == d.users  w == d.world  told == Told(r.status, r.data)
<1>1. q \in Parsers /\ t \in T!Tables /\ w \in Worlds
  BY DEF Turns
<1>2. Encoded(q) = Request(k) /\ q.cmd = Code(k)
  BY DEF IsFor
<1>3. told.status = r.status /\ told.data = r.data
  BY DEF Told
<1>4. s \o m = AnswerFor(q, t, w)
  OBVIOUS
<1>5. CASE k.do = "add-user"
  <2>1. q.cmd = AddUser
    BY <1>2, <1>5, CodesDiffer
  <2> DEFINE b == AddStatus(t, Account(q))
  <2>2. s \o m = <<b>>
    BY <1>4, <2>1, AnswerForms
  <2>3. Account(q).name = k.account.name
    BY <1>5, NameArrives DEF Account
  <2>4. b = IF T!Named(t, k.account.name) # {} THEN NotFound
            ELSE IF T!InUse(t) = T!Slots THEN Full ELSE OK
    BY <2>3 DEF AddStatus
  <2>5. b \in Byte
    BY <2>4 DEF Byte, NotFound, Full, OK
  <2>6. AddOutcome(t, k.account, b)
    BY <2>4 DEF AddOutcome, NotFound, Full, OK
  <2> HIDE DEF b
  <2>7. (r.enough => r.status = b) /\ (m = <<>> => r.enough)
    BY <1>5, <2>2, <2>5, StatusRead
  <2> HIDE DEF told, q, t
  <2>8. r.enough => AddOutcome(t, k.account, told.status)
    BY <1>3, <2>6, <2>7
  <2> QED  BY <1>2, <1>5, <2>7, <2>8 DEF TrueOf, told, q, t
<1>6. CASE k.do = "del-user"
  <2>1. q.cmd = DelUser
    BY <1>2, <1>6, CodesDiffer
  <2> DEFINE b == DelStatus(t, CString(q.uname))
  <2>2. s \o m = <<b>>
    BY <1>4, <2>1, AnswerForms
  <2>3. CString(q.uname) = k.account.name
    BY <1>6, NameArrives
  <2>4. b = IF T!Named(t, k.account.name) = {} THEN NotFound ELSE OK
    BY <2>3 DEF DelStatus
  <2>5. b \in Byte /\ (b = OK <=> T!Named(t, k.account.name) # {})
    BY <2>4 DEF Byte, NotFound, OK
  <2> HIDE DEF b
  <2>7. (r.enough => r.status = b) /\ (m = <<>> => r.enough)
    BY <1>6, <2>2, <2>5, StatusRead
  <2> HIDE DEF told, q, t
  <2>8. r.enough => (told.status = OK <=> T!Named(t, k.account.name) # {})
    BY <1>3, <2>5, <2>7
  <2> QED  BY <1>2, <1>6, <2>7, <2>8 DEF TrueOf, told, q, t
<1>7. CASE k.do = "set-timeout"
  <2>1. q.cmd = SetTimeout /\ q.timeout = k.seconds
    BY <1>2, <1>7, CodesDiffer DEF IsFor
  <2> DEFINE b == OK
  <2>2. s \o m = <<b>> /\ b \in Byte
    BY <1>4, <2>1, AnswerForms DEF OK, Byte
  <2> HIDE DEF b
  <2>3. (r.enough => r.status = b) /\ (m = <<>> => r.enough)
    BY <1>7, <2>2, StatusRead
  <2> HIDE DEF told, q, t
  <2> QED  BY <1>2, <1>7, <2>1, <2>3 DEF TrueOf, told, q, t
<1>8. CASE k.do = "users"
  <2>1. q.cmd = ListUsers
    BY <1>2, <1>8, CodesDiffer
  <2> DEFINE ss == Listed(t)
  <2>2. s \o m = (<<OK>> \o BigEndian(Len(ss), 1)) \o Sizeds(ss, 1)
    BY <1>4, <2>1, AnswerForms
  <2>3. /\ ss \in Seq(Text) /\ FitsIn(Len(ss), 1)
        /\ \A i \in 1 .. Len(ss) : Len(ss[i]) <= 511 /\ FitsIn(Len(ss[i]), 1)
    BY <1>1, ListedTexts
  <2>4. r = ListRead(s, 2, 1) /\ 2 = 1 + 1 /\ 1 \in Nat
    BY <1>8 DEF AnswerRead
  <2> HIDE DEF ss
  <2>5. (r.enough => r.status = OK /\ r.data = ss) /\ (m = <<>> => r.enough)
    <3>1. IsListAnswer(s \o m, ss, 1, 2, 1)
      BY <2>2, <2>3, <2>4 DEF IsListAnswer
    <3>2. ListReads(ListRead(s, 2, 1), ss, m)
      BY <3>1, ListAnswer
    <3> QED  BY <2>4, <3>2 DEF ListReads
  <2>6. ToSet(ss) = {a.name : a \in T!UsersOf(t)} /\ Len(ss) = Cardinality(T!InUse(t))
    BY <1>1, ListedUsers DEF ss
  <2> HIDE DEF told, q, t
  <2>7. r.enough => /\ ToSet(told.data) = {a.name : a \in T!UsersOf(t)}
                    /\ Len(told.data) = Cardinality(T!InUse(t))
    BY <1>3, <2>5, <2>6
  <2> QED  BY <1>2, <1>8, <2>5, <2>7 DEF TrueOf, told, q, t
<1>9. CASE k.do = "stats"
  <2>1. q.cmd = GetStats
    BY <1>2, <1>9, CodesDiffer
  <2>2. s \o m = Stats(w)
    BY <1>4, <2>1, AnswerForms
  <2>3. (r.enough => r.data = <<w.hist, w.curr, w.sent, w.recv>>) /\ (m = <<>> => r.enough)
    BY <1>1, <1>9, <2>2, StatsRead
  <2> HIDE DEF told, q, t, w
  <2>4. r.enough => told.data = <<w.hist, w.curr, w.sent, w.recv>>
    BY <1>3, <2>3
  <2> QED  BY <1>2, <1>9, <2>3, <2>4 DEF TrueOf, told, q, t, w
<1>10. CASE k.do = "log"
  <2>1. q.cmd = GetLog
    BY <1>2, <1>10, CodesDiffer
  <2> DEFINE ss == w.log
  <2>2. s \o m = (<<OK>> \o BigEndian(Len(ss), 2)) \o Sizeds(ss, 2)
    BY <1>4, <2>1, AnswerForms DEF Log
  <2>3. /\ ss \in Seq(Text) /\ FitsIn(Len(ss), 2)
        /\ \A i \in 1 .. Len(ss) : Len(ss[i]) <= 511 /\ FitsIn(Len(ss[i]), 2)
    <3>1. ss \in Seq(Text) /\ FitsIn(Len(ss), 2) /\ \A i \in DOMAIN ss : Len(ss[i]) <= 511
      BY <1>1, WorldsAssumption DEF Text
    <3> HIDE DEF ss
    <3>2. ASSUME NEW i \in 1 .. Len(ss) PROVE Len(ss[i]) <= 511 /\ FitsIn(Len(ss[i]), 2)
      <4>1. ss[i] \in Text /\ Len(ss[i]) <= 511
        BY <3>1
      <4>2. Len(ss[i]) \in Nat
        BY <4>1, LenProperties DEF Text
      <4> QED  BY <4>1, <4>2, SmallFits
    <3> QED  BY <3>1, <3>2
  <2>4. r = ListRead(s, 3, 2) /\ 3 = 2 + 1 /\ 2 \in Nat
    BY <1>10 DEF AnswerRead
  <2> HIDE DEF ss
  <2>5. (r.enough => r.status = OK /\ r.data = ss) /\ (m = <<>> => r.enough)
    <3>1. IsListAnswer(s \o m, ss, 2, 3, 2)
      BY <2>2, <2>3, <2>4 DEF IsListAnswer
    <3>2. ListReads(ListRead(s, 3, 2), ss, m)
      BY <3>1, ListAnswer
    <3> QED  BY <2>4, <3>2 DEF ListReads
  <2> HIDE DEF told, q, t, w
  <2>6. r.enough => told.data = w.log
    BY <1>3, <2>5 DEF ss
  <2> QED  BY <1>2, <1>10, <2>5, <2>6 DEF TrueOf, told, q, t, w
<1> QED  BY <1>5, <1>6, <1>7, <1>8, <1>9, <1>10 DEF Commands

-----------------------------------------------------------------------------
(* What a client and its session know of each other *)

(* What do_handshake() goes on with.                                       *)
LetIn == <<Version, AuthOK>>

(* The session will never execute a command: it is over, it will never     *)
(* begin, or its peer was not let in.                                      *)
Refused(c) ==
    /\ did[c] = <<>>
    /\ \/ stm[c] = "CLOSED"
       \/ stm[c] = "OUTSIDE" /\ closing
       \/ Len(got[c]) >= 2 /\ SubSeq(got[c], 1, 2) # LetIn

(* Before tcp_connect().                                                   *)
Waiting(c) ==
    cpc[c] = "start" => stm[c] = "OUTSIDE" /\ report[c] = NoReport /\ seen[c] = 0

(* During do_handshake(): whoever is let in has used the credential and    *)
(* nothing else.                                                           *)
Greeting(c) ==
    cpc[c] = "auth" =>
        /\ report[c] = NoReport /\ seen[c] = 0 /\ did[c] = <<>>
        /\ said[c] = Credential(task[c].cred)
        /\ stm[c] \notin {"OUTSIDE", "RESP_WRITE"}
        /\ answers[c] = <<>> \/ \E b \in Byte : answers[c] = << <<Version, b>> >>
        /\ stm[c] = "AUTH_WRITE" /\ authenticated[c] => taken[c] = Len(said[c])
        /\ stm[c] = "CMD_READ" => taken[c] = Len(said[c]) /\ p[c] = Zeroed("CMD")

(* The command is on its way, from behind the credential.                  *)
Unserved(c) ==
    /\ did[c] = <<>> /\ answers[c] = <<LetIn>> /\ stm[c] \in {"CMD_READ", "CLOSED"}
    /\ stm[c] = "CMD_READ" =>
          CmdFrom(said[c], p[c], Len(Credential(task[c].cred)), taken[c])

(* It was executed, as d tells, and nothing was sent behind it.            *)
ServedBy(c, d) ==
    /\ d \in Turns /\ did[c] = <<d>> /\ IsFor(task[c], d.q)
    /\ answers[c] = <<LetIn, AnswerFor(d.q, d.users, d.world)>>
    /\ stm[c] \in {"CMD_READ", "RESP_WRITE", "CLOSED"}
    /\ stm[c] # "CLOSED" => taken[c] = Len(said[c])

(* Some turn of the server was for it.                                     *)
Served(c) == \E d : ServedBy(c, d)

(* While the client waits for its answer.                                  *)
Asking(c) ==
    cpc[c] = "answer" =>
        /\ report[c] = NoReport /\ seen[c] = 2 /\ task[c].do \in Commands
        /\ said[c] = Credential(task[c].cred) \o Request(task[c])
        /\ Unserved(c) \/ Served(c)

(* The client has printed something.                                       *)
Reported(c) ==
    /\ report[c].told => did[c] # <<>> /\ TrueOf(task[c], report[c], did[c][1])
    /\ report[c] = GaveUp /\ Usable(task[c]) /\ c \notin failed => Refused(c)

(* What is true of every client, wherever it is.                           *)
ClientOK(c) == Waiting(c) /\ Greeting(c) /\ Asking(c) /\ Reported(c)

(* The invariant of the clients.                                           *)
Clients == DOMAIN seen = Peers /\ DOMAIN report = Peers /\ \A c \in Peers : ClientOK(c)

(* The client of a command line is one of the roles.                       *)
LEMMA RolesAre ==
    ASSUME ClientTypes, NEW c \in Peers
    PROVE  /\ task[c] \in Roles /\ FitsIn(task[c].seconds, 4)
           /\ cpc[c] # "exit" /\ Usable(task[c]) => task[c].do \in Commands
<1>1. task \in Casts /\ task \in [Peers -> Roles] /\ FitsIn(task[c].seconds, 4)
  BY CastsAssumption DEF ClientTypes
<1>2. cpc[c] # "exit" => task[c].do \in Asks
  BY DEF ClientTypes
<1> QED  BY <1>1, <1>2 DEF Usable, Asks, Commands

(* What a client did not report it did not give up either.                 *)
LEMMA NothingPrinted ==
    /\ ~NoReport.told /\ NoReport # GaveUp /\ ~GaveUp.told
    /\ \A st, data : Told(st, data).told /\ Told(st, data) # GaveUp
BY DEF NoReport, GaveUp, Told, OK, BadArgs

(* Before anybody connects.                                                *)
LEMMA ClientsStart == ClientInit => Clients
<1> SUFFICES ASSUME ClientInit PROVE Clients
  OBVIOUS
<1>1. /\ seen = [c \in Peers |-> 0] /\ report = [c \in Peers |-> NoReport]
      /\ cpc = [c \in Peers |-> IF IsClient(task[c]) THEN "start" ELSE "exit"]
      /\ stm = [c \in Peers |-> "OUTSIDE"]
  BY DEF ClientInit, Init
<1>2. ASSUME NEW c \in Peers PROVE ClientOK(c)
  <2>1. seen[c] = 0 /\ report[c] = NoReport /\ cpc[c] \in {"start", "exit"} /\ stm[c] = "OUTSIDE"
    BY <1>1
  <2>2. Reported(c)
    BY <2>1, NothingPrinted DEF Reported
  <2> QED  BY <2>1, <2>2 DEF ClientOK, Waiting, Greeting, Asking
<1> QED  BY <1>1, <1>2 DEF Clients

(* A step that takes nothing of the peer's stream and sends it nothing:    *)
(* its session is accepted or ends at most.                                *)
Steady(d) ==
    /\ said'[d] = said[d] /\ got'[d] = got[d] /\ taken'[d] = taken[d] /\ p'[d] = p[d]
    /\ authenticated'[d] = authenticated[d] /\ did'[d] = did[d] /\ answers'[d] = answers[d]
    /\ task'[d] = task[d] /\ cpc'[d] = cpc[d] /\ seen'[d] = seen[d] /\ report'[d] = report[d]
    /\ \/ stm'[d] = stm[d]
       \/ stm[d] # "OUTSIDE" /\ stm'[d] = "CLOSED"
       \/ stm[d] = "BACKLOG" /\ stm'[d] = "AUTH_READ"
    /\ closing => closing'
    /\ d \in failed => d \in failed'

(* Then the client and its session go on as they are.                      *)
LEMMA SteadyKeeps ==
    ASSUME NEW d, ClientOK(d), Steady(d)
    PROVE  ClientOK(d)'
<1>1. Waiting(d)'
  BY DEF ClientOK, Waiting, Steady
<1>2. Greeting(d)'
  BY DEF ClientOK, Greeting, Steady
<1>3. Unserved(d) => Unserved(d)'
  BY DEF Unserved, Steady
<1>4. Served(d) => Served(d)'
  <2>1. ASSUME NEW e, ServedBy(d, e) PROVE ServedBy(d, e)'
    BY <2>1 DEF ServedBy, Steady
  <2> QED  BY <2>1 DEF Served
<1>5. Asking(d)'
  BY <1>3, <1>4 DEF ClientOK, Asking, Steady
<1>6. Refused(d) => Refused(d)'
  BY DEF Refused, Steady
<1>7. Reported(d)'
  BY <1>6 DEF ClientOK, Reported, Steady
<1> QED  BY <1>1, <1>2, <1>5, <1>7 DEF ClientOK

(* Where every session is steady, so are the clients.                      *)
LEMMA AllSteady ==
    ASSUME Clients, UNCHANGED <<seen, report>>, \A d \in Peers : Steady(d)
    PROVE  Clients'
<1>1. ASSUME NEW d \in Peers PROVE ClientOK(d)'
  BY SteadyKeeps DEF Clients
<1> QED  BY <1>1 DEF Clients

(* What neither sends nor takes bytes.                                     *)
LEMMA QuietSteps ==
    ASSUME Inv, Clients, UNCHANGED clientVars, NEW c \in Peers,
           \/ BeginShutdown \/ Traffic \/ UNCHANGED vars
           \/ Accept(c) \/ ReadEnd(c) \/ Fail(c) \/ Finish(c)
    PROVE  Clients'
<1>0. UNCHANGED <<task, cpc, seen, report>> /\ stm \in [Peers -> States]
  BY DEF clientVars, Inv, Types
<1>1. CASE BeginShutdown
  <2>1. ASSUME NEW d \in Peers PROVE Steady(d)
    <3>1. stm'[d] = stm[d] \/ (stm[d] # "OUTSIDE" /\ stm'[d] = "CLOSED")
      BY <1>1 DEF BeginShutdown
    <3> QED  BY <1>0, <1>1, <3>1 DEF BeginShutdown, Steady, peerVars
  <2> QED  BY <1>0, <2>1, AllSteady
<1>2. CASE Traffic \/ UNCHANGED vars
  <2>1. ASSUME NEW d \in Peers PROVE Steady(d)
    BY <1>0, <1>2 DEF Traffic, Steady, peerVars, sessionVars, vars
  <2> QED  BY <1>0, <2>1, AllSteady
<1>3. CASE Accept(c)
  <2>1. ASSUME NEW d \in Peers PROVE Steady(d)
    <3>1. \/ stm'[d] = stm[d]
          \/ stm[d] = "BACKLOG" /\ stm'[d] \in {"AUTH_READ", "CLOSED"}
      BY <1>0, <1>3 DEF Accept, Goes
    <3> QED  BY <1>0, <1>3, <3>1 DEF Accept, Steady, peerVars
  <2> QED  BY <1>0, <2>1, AllSteady
<1>4. CASE ReadEnd(c)
  <2>1. ASSUME NEW d \in Peers PROVE Steady(d)
    <3>1. stm'[d] = stm[d] \/ (stm[d] # "OUTSIDE" /\ stm'[d] = "CLOSED")
      BY <1>0, <1>4 DEF ReadEnd, CloseSession, Goes, ReadStates
    <3> QED  BY <1>0, <1>4, <3>1 DEF ReadEnd, CloseSession, Steady, peerVars
  <2> QED  BY <1>0, <2>1, AllSteady
<1>5. CASE Fail(c)
  <2>1. ASSUME NEW d \in Peers PROVE Steady(d)
    <3>1. stm'[d] = stm[d] \/ (stm[d] # "OUTSIDE" /\ stm'[d] = "CLOSED")
      BY <1>0, <1>5 DEF Fail, CloseSession, Goes, Active, ReadStates, WriteStates
    <3> QED  BY <1>0, <1>5, <3>1 DEF Fail, CloseSession, Steady, peerVars
  <2> QED  BY <1>0, <2>1, AllSteady
<1>6. CASE Finish(c)
  <2>1. ASSUME NEW d \in Peers PROVE Steady(d)
    BY <1>0, <1>6 DEF Finish, Steady, sessionVars
  <2> QED  BY <1>0, <2>1, AllSteady
<1> QED  BY <1>1, <1>2, <1>3, <1>4, <1>5, <1>6

(* What a client says or does leaves the others as they are.               *)
Elsewhere(c) ==
    \A d \in Peers : d # c =>
        /\ said'[d] = said[d] /\ stm'[d] = stm[d]
        /\ task'[d] = task[d] /\ cpc'[d] = cpc[d] /\ seen'[d] = seen[d] /\ report'[d] = report[d]

(* The other clients keep what is true of them.                            *)
OthersKeep(c) == \A d \in Peers : d # c => ClientOK(d)'

(* They do when nothing of theirs changes.                                 *)
LEMMA ElsewhereSteady ==
    ASSUME Clients, NEW c \in Peers, Elsewhere(c),
           UNCHANGED <<got, taken, p, authenticated, did, answers, failed, closing>>
    PROVE  OthersKeep(c)
<1>1. ASSUME NEW d \in Peers, d # c PROVE ClientOK(d)'
  <2>1. Steady(d)
    BY <1>1 DEF Steady, Elsewhere
  <2> QED  BY <2>1, SteadyKeeps DEF Clients
<1> QED  BY <1>1 DEF OthersKeep

(* A peer that is not the client connects: nothing was printed for it.     *)
LEMMA StrangerConnects ==
    ASSUME IInv, Clients, NEW c \in Peers, NEW m, task[c].do = "speak", Connect(c, m),
           UNCHANGED clientVars
    PROVE  Clients'
<1>0. /\ UNCHANGED <<task, cpc, seen, report>> /\ stm \in [Peers -> States] /\ PeerOK(c)
      /\ said \in [Peers -> Text]
  BY DEF clientVars, IInv, Inv, Types
<1>1. cpc[c] = "exit"
  BY DEF IInv, ClientTypes, Asks
<1>2. stm[c] = "OUTSIDE" /\ ~closing /\ UNCHANGED <<did, got, taken, p, authenticated, answers, failed, closing>>
  BY DEF Connect
<1>3. got[c] = <<>> /\ did[c] = <<>>
  BY <1>0, <1>2 DEF PeerOK, Fresh
<1>4. ~Refused(c)
  <2>1. ~(Len(got[c]) >= 2)
    BY <1>3
  <2> QED  BY <1>2, <2>1 DEF Refused
<1>5. ~report[c].told /\ ~(report[c] = GaveUp /\ Usable(task[c]) /\ c \notin failed)
  BY <1>3, <1>4 DEF Clients, ClientOK, Reported
<1>6. ClientOK(c)'
  BY <1>0, <1>1, <1>2, <1>5 DEF ClientOK, Waiting, Greeting, Asking, Reported
<1>7. OthersKeep(c)
  <2>1. Elsewhere(c)
    BY <1>0 DEF Elsewhere, Connect, Goes
  <2> QED  BY <1>2, <2>1, ElsewhereSteady
<1> QED  BY <1>0, <1>6, <1>7 DEF Clients, OthersKeep

(* What follows the same beginning.                                        *)
LEMMA TailsAgree ==
    ASSUME NEW x \in Text, NEW y \in Text, NEW u \in Text, NEW v \in Text,
           x \o u = y \o v, Len(x) = Len(y)
    PROVE  u = v
<1>1. /\ Len(x) \in Nat /\ Len(u) \in Nat /\ Len(v) \in Nat
      /\ Len(x \o u) = Len(x) + Len(u)
  BY TextsJoin, LenProperties DEF Text
<1>2. Len(y \o v) = Len(y) + Len(v)
  BY TextsJoin
<1>3. Len(u) = Len(v)
  BY <1>1, <1>2
<1>4. ASSUME NEW i \in 1 .. Len(u) PROVE u[i] = v[i]
  <2>1. (x \o u)[Len(x) + i] = u[i]
    BY JoinedBytes
  <2>2. (y \o v)[Len(y) + i] = v[i]
    BY <1>3, JoinedBytes
  <2> QED  BY <2>1, <2>2
<1> QED  BY <1>3, <1>4, SeqEqual DEF Text

(* What a text that begins another lacks of it.                            *)
LEMMA PrefixGoesOn ==
    ASSUME NEW s \in Text, NEW t \in Text, IsPrefix(s, t)
    PROVE  \E m \in Text : s \o m = t
<1>1. /\ Len(s) \in Nat /\ Len(t) \in Nat /\ Len(s) <= Len(t)
      /\ SubSeq(s, 1, Len(s)) = SubSeq(t, 1, Len(s))
  BY LenProperties DEF IsPrefix, Text
<1>2. SubSeq(s, 1, Len(s)) = s
  BY SubSeqFull DEF Text
<1>3. CASE Len(s) = 0
  <2>1. s = <<>>
    BY <1>3, EmptySeq DEF Text
  <2>2. <<>> \o t = t
    BY ConcatEmptySeq DEF Text
  <2> QED  BY <2>1, <2>2
<1>4. CASE Len(s) # 0
  <2>1. Len(s) \in 1 .. Len(t)
    BY <1>1, <1>4
  <2> DEFINE n == Len(s)
  <2>2. n \in 1 .. Len(t)
    BY <2>1
  <2> HIDE DEF n
  <2>3. SubSeq(t, n + 1, Len(t)) \in Text /\ SubSeq(t, 1, n) \o SubSeq(t, n + 1, Len(t)) = t
    BY <2>2, SendSplits
  <2> QED  BY <1>1, <1>2, <2>3 DEF n
<1> QED  BY <1>3, <1>4

(* A second element.                                                       *)
LEMMA OneMoreElement ==
    ASSUME NEW a, NEW b
    PROVE  Append(<<a>>, b) = <<a, b>>
<1> DEFINE X == {a, b}  x == <<a>>  y == <<a, b>>  z == Append(x, b)
<1>1. x \in Seq(X)
  OBVIOUS
<1>2. Len(x) = 1 /\ x[1] = a /\ b \in X
  OBVIOUS
<1>3. y \in Seq(X) /\ Len(y) = 2 /\ y[1] = a /\ y[2] = b
  OBVIOUS
<1> HIDE DEF x, y, X
<1>4. z \in Seq(X) /\ Len(z) = Len(x) + 1
  BY <1>1, <1>2, AppendProperties
<1>5. z[Len(x) + 1] = b
  BY <1>1, <1>2, AppendProperties
<1>6. \A i \in 1 .. Len(x) : z[i] = x[i]
  BY <1>1, <1>2, AppendProperties
<1> HIDE DEF z
<1>7. Len(z) = 2 /\ z[1] = a /\ z[2] = b
  <2>1. 1 \in 1 .. Len(x) /\ 1 + 1 = 2
    BY <1>2
  <2> QED  BY <1>2, <1>4, <1>5, <1>6, <2>1
<1>8. \A i \in 1 .. Len(z) : z[i] = y[i]
  BY <1>3, <1>7
<1>9. z = y
  BY <1>3, <1>4, <1>7, <1>8, SeqEqual
<1> QED  BY <1>9 DEF x, y, z

(* A handshake has an answer of two bytes, a command one behind it.        *)
LEMMA TwoAnswers ==
    ASSUME NEW s \in Text, NEW t \in Text
    PROVE  FlattenSeq(<<s, t>>) = s \o t
<1>1. <<s>> \in Seq(Text)
  OBVIOUS
<1>2. FlattenSeq(Append(<<s>>, t)) = FlattenSeq(<<s>>) \o t
  BY <1>1, FlattenAppends DEF Text
<1>3. Append(<<s>>, t) = <<s, t>>
  BY OneMoreElement
<1> QED  BY <1>2, <1>3, OneAnswer

(* The answer to a handshake has two bytes.                                *)
LEMMA GreetingBytes ==
    ASSUME NEW b \in Byte
    PROVE  <<Version, b>> \in Text /\ Len(<<Version, b>>) = 2
BY DEF Version, Byte, Text

(* So has the one that lets in.                                            *)
LEMMA LetInBytes == LetIn \in Text /\ Len(LetIn) = 2
<1>1. AuthOK \in Byte
  BY DEF AuthOK, Byte
<1> QED  BY <1>1, GreetingBytes DEF LetIn

(* Whatever the peer has, the answers go on with some m: with nothing      *)
(* where the session is over and no call failed.                           *)
LEMMA AnswersGoOn ==
    ASSUME Inv, NEW c \in Peers
    PROVE  \E m \in Text :
              /\ Answered(c) = got[c] \o m
              /\ c \notin failed => m = wbuf[c]
              /\ c \notin failed /\ stm[c] = "CLOSED" => m = <<>>
<1>1. got[c] \in Text /\ wbuf[c] \in Text /\ Sent(c) /\ answers[c] \in Seq(Text)
  BY DEF Inv, Types, PeerOK
<1>2. Answered(c) \in Text
  BY <1>1, FlattenIsSeq DEF Answered, Text
<1>3. CASE c \in failed
  BY <1>1, <1>2, <1>3, PrefixGoesOn DEF Sent
<1>4. CASE c \notin failed
  <2>1. Answered(c) = got[c] \o wbuf[c]
    BY <1>1, <1>4 DEF Sent
  <2>2. stm[c] = "CLOSED" => wbuf[c] = <<>>
    BY <1>1, <1>4 DEF Sent, Active, ReadStates, WriteStates
  <2> QED  BY <1>1, <1>4, <2>1, <2>2
<1> QED  BY <1>3, <1>4

(* do_handshake() has its answer: the session has no more to send.         *)
LEMMA Greeted ==
    ASSUME Inv, NEW c \in Peers, Greeting(c), cpc[c] = "auth", Len(got[c]) >= 2
    PROVE  stm[c] \in {"CMD_READ", "CLOSED"} /\ answers[c] = <<got[c]>> /\ Len(got[c]) = 2
<1>0. /\ got[c] \in Text /\ stm[c] \in States /\ PeerOK(c) /\ Len(got[c]) \in Nat
      /\ wbuf[c] \in Text
  BY LenProperties DEF Inv, Types, Text
<1>1. PICK m \in Text : /\ Answered(c) = got[c] \o m
                        /\ c \notin failed => m = wbuf[c]
  BY AnswersGoOn
<1>2. Len(got[c] \o m) = Len(got[c]) + Len(m) /\ Len(m) \in Nat
  BY <1>0, <1>1, TextsJoin, LenProperties DEF Text
<1>3. answers[c] # <<>>
  <2>1. SUFFICES ASSUME answers[c] = <<>> PROVE FALSE
    OBVIOUS
  <2>2. got[c] \o m = <<>>
    BY <1>1, <2>1, FlattenNothing DEF Answered
  <2>3. Len(got[c] \o m) = 0
    BY <2>2
  <2> QED  BY <1>0, <1>2, <2>3
<1>4. PICK b \in Byte : answers[c] = << <<Version, b>> >>
  BY <1>3 DEF Greeting
<1> DEFINE w == <<Version, b>>
<1>5. w \in Text /\ Len(w) = 2 /\ answers[c] = <<w>>
  BY <1>4, GreetingBytes
<1> HIDE DEF w
<1>6. got[c] \o m = w
  BY <1>1, <1>5, OneAnswer DEF Answered
<1>7. Len(m) = 0 /\ Len(got[c]) = 2
  <2>1. Len(got[c]) + Len(m) = 2
    BY <1>2, <1>5, <1>6
  <2>2. Len(got[c]) \in Nat /\ Len(m) \in Nat /\ Len(got[c]) >= 2
    BY <1>0, <1>2
  <2> DEFINE g == Len(got[c])  k == Len(m)
  <2> HIDE DEF g, k
  <2>3. g + k = 2 /\ g \in Nat /\ k \in Nat /\ g >= 2
    BY <2>1, <2>2 DEF g, k
  <2>4. g = 2 /\ k = 0
    BY ONLY <2>3
  <2> QED  BY <2>4 DEF g, k
<1>8. m = <<>>
  BY <1>1, <1>7, EmptySeq DEF Text
<1>9. got[c] = w
  BY <1>0, <1>6, <1>8, ConcatEmptySeq DEF Text
<1>10. stm[c] \notin {"BACKLOG", "AUTH_READ", "AUTH_WRITE"}
  <2>1. stm[c] # "BACKLOG" /\ stm[c] # "AUTH_READ"
    BY <1>0, <1>3 DEF PeerOK, Fresh, Admits
  <2>2. stm[c] # "AUTH_WRITE"
    BY <1>0, <1>1, <1>8 DEF PeerOK, Stocked, Sent, WriteStates
  <2> QED  BY <2>1, <2>2
<1>11. stm[c] \notin {"OUTSIDE", "RESP_WRITE"}
  BY DEF Greeting
<1> QED  BY <1>0, <1>5, <1>7, <1>9, <1>10, <1>11 DEF States, ReadStates, WriteStates

(* read_all() has nothing more before the command is executed.             *)
LEMMA NothingArrived ==
    ASSUME Inv, NEW c \in Peers, Unserved(c), seen[c] = 2
    PROVE  Arrived(c) = <<>>
<1>0. got[c] \in Text /\ Len(got[c]) \in Nat
  BY LenProperties DEF Inv, Types, Text
<1>1. PICK m \in Text : Answered(c) = got[c] \o m
  BY AnswersGoOn
<1>2. Len(got[c] \o m) = Len(got[c]) + Len(m) /\ Len(m) \in Nat
  BY <1>0, <1>1, TextsJoin, LenProperties DEF Text
<1>3. got[c] \o m = LetIn
  BY <1>1, LetInBytes, OneAnswer DEF Answered, Unserved
<1>4. Len(got[c]) <= 2
  <2>1. Len(got[c]) + Len(m) = 2
    BY <1>2, <1>3, LetInBytes
  <2> QED  BY <1>0, <1>2, <2>1
<1> DEFINE x == SubSeq(got[c], 2 + 1, Len(got[c]))
<1>5. \A i \in 2 + 1 .. Len(got[c]) : got[c][i] \in Byte
  BY <1>0, ElementOfSeq DEF Text
<1>6. x \in Seq(Byte) /\ Len(x) = IF 2 + 1 <= Len(got[c]) THEN Len(got[c]) - (2 + 1) + 1 ELSE 0
  BY <1>0, <1>5, SubSeqProperties
<1>7. Len(x) = 0
  BY <1>0, <1>4, <1>6
<1>8. x = <<>>
  BY <1>6, <1>7, EmptySeq
<1> QED  BY <1>8 DEF Arrived

(* What has arrived of the answer, and what has not.                       *)
LEMMA AnswerArrives ==
    ASSUME Inv, NEW c \in Peers, NEW d, ServedBy(c, d), seen[c] = 2
    PROVE  /\ Arrived(c) \in Text
           /\ \E m \in Text :
                 /\ Arrived(c) \o m = AnswerFor(d.q, d.users, d.world)
                 /\ c \notin failed /\ stm[c] = "CLOSED" => m = <<>>
<1> DEFINE A == AnswerFor(d.q, d.users, d.world)  s == Arrived(c)  h == SubSeq(got[c], 1, 2)
<1>0. /\ got[c] \in Text /\ Len(got[c]) \in Nat /\ PeerOK(c) /\ answers[c] \in Seq(Text)
      /\ did[c] # <<>> /\ answers[c] = <<LetIn, A>>
  <2>1. got[c] \in Text /\ Len(got[c]) \in Nat /\ PeerOK(c) /\ answers[c] \in Seq(Text)
    BY LenProperties DEF Inv, Types, Text
  <2>2. did[c] = <<d>> /\ answers[c] = <<LetIn, A>>
    BY DEF ServedBy
  <2>3. <<d>> # <<>>
    OBVIOUS
  <2> QED  BY <2>1, <2>2, <2>3
<1>1. Len(got[c]) >= 2
  BY <1>0 DEF PeerOK, Admits
<1>2. h \in Text /\ Len(h) = 2 /\ s \in Text /\ h \o s = got[c]
  <2>1. 2 \in 1 .. Len(got[c])
    BY <1>0, <1>1
  <2>2. /\ SubSeq(got[c], 1, 2) \in Text /\ Len(SubSeq(got[c], 1, 2)) = 2
        /\ SubSeq(got[c], 2 + 1, Len(got[c])) \in Text
        /\ SubSeq(got[c], 1, 2) \o SubSeq(got[c], 2 + 1, Len(got[c])) = got[c]
    BY <1>0, <2>1, SendSplits
  <2> QED  BY <2>2 DEF Arrived
<1>3. A \in Text
  <2>1. answers[c][2] \in Text
    <3>1. 2 \in 1 .. Len(answers[c])
      BY <1>0
    <3> QED  BY <1>0, <3>1, ElementOfSeq
  <2> QED  BY <1>0, <2>1
<1> HIDE DEF A, s, h
<1>4. PICK m \in Text : /\ Answered(c) = got[c] \o m
                        /\ c \notin failed /\ stm[c] = "CLOSED" => m = <<>>
  BY AnswersGoOn
<1>5. Answered(c) = LetIn \o A
  BY <1>0, <1>3, LetInBytes, TwoAnswers DEF Answered
<1>6. h \o (s \o m) = LetIn \o A
  <2>1. (h \o s) \o m = LetIn \o A
    BY <1>2, <1>4, <1>5
  <2>2. (h \o s) \o m = h \o (s \o m)
    BY <1>2, <1>4, TextsAssociate
  <2> QED  BY <2>1, <2>2
<1>7. s \o m \in Text
  BY <1>2, <1>4, TextsJoin
<1>8. s \o m = A
  BY <1>2, <1>3, <1>6, <1>7, LetInBytes, TailsAgree
<1> QED  BY <1>2, <1>4, <1>8 DEF A, s

(* No argument of a command line names more than the client can send.      *)
ShortNames == \A cast \in Casts : \A c \in Peers : NameSent(cast[c])

(* What the client has sent is bytes.                                      *)
LEMMA SentText ==
    ASSUME ClientTypes, NEW c \in Peers
    PROVE  /\ Credential(task[c].cred) \in Text /\ Len(Credential(task[c].cred)) \in Nat
           /\ task[c].do \in Commands => Request(task[c]) \in Text
<1>1. task[c] \in Roles
  BY RolesAre
<1>2. task[c].cred.name \in Seq(Byte) /\ task[c].cred.pass \in Seq(Byte)
  BY <1>1, ArgumentsAreText
<1>3. Credential(task[c].cred) \in Text
  BY <1>2, CredentialIsText
<1>4. task[c].do \in Commands => Request(task[c]) \in Text
  BY <1>1, RequestIsText DEF Commands, Asks, Usable
<1> QED  BY <1>3, <1>4, LenProperties DEF Text

(* tcp_connect().                                                          *)
LEMMA DialKeeps ==
    ASSUME IInv, Clients, NEW c \in Peers, Dial(c)
    PROVE  Clients'
<1>0. /\ stm \in [Peers -> States] /\ PeerOK(c) /\ said \in [Peers -> Text] /\ ClientOK(c)
      /\ cpc \in [Peers -> {"start", "auth", "answer", "bye", "exit"}]
      /\ DOMAIN seen = Peers /\ DOMAIN report = Peers
  BY DEF IInv, Inv, Types, ClientTypes, Clients
<1>1. cpc[c] = "start" /\ task' = task /\ seen' = seen
  BY DEF Dial
<1>2. stm[c] = "OUTSIDE" /\ report[c] = NoReport /\ seen[c] = 0
  BY <1>0, <1>1 DEF ClientOK, Waiting
<1>3. did[c] = <<>> /\ answers[c] = <<>>
  BY <1>0, <1>2 DEF PeerOK, Fresh
<1>4. UNCHANGED <<got, taken, p, authenticated, did, answers, failed, closing>>
  BY DEF Dial, Connect, vars, sessionVars
<1>5. CASE Connect(c, Credential(task[c].cred)) /\ Steps(c, "auth") /\ UNCHANGED report
  <2>1. /\ cpc'[c] = "auth" /\ report' = report /\ stm'[c] = "BACKLOG"
        /\ said'[c] = Credential(task[c].cred)
    BY <1>0, <1>5 DEF Connect, Goes, Steps
  <2>2. Reported(c)'
    BY <1>2, <2>1, NothingPrinted DEF Reported
  <2>3. Greeting(c)'
    BY <1>1, <1>2, <1>3, <1>4, <2>1 DEF Greeting
  <2>4. ClientOK(c)'
    BY <2>1, <2>2, <2>3 DEF ClientOK, Waiting, Asking
  <2>5. OthersKeep(c)
    <3>1. Elsewhere(c)
      BY <1>0, <1>1, <1>5 DEF Elsewhere, Connect, Goes, Steps
    <3> QED  BY <1>4, <3>1, ElsewhereSteady
  <2> QED  BY <1>0, <1>1, <2>1, <2>4, <2>5 DEF Clients, OthersKeep
<1>6. CASE closing /\ Steps(c, "exit") /\ Reports(c, GaveUp) /\ UNCHANGED vars
  <2>1. /\ cpc'[c] = "exit" /\ report'[c] = GaveUp /\ stm' = stm /\ said' = said
        /\ DOMAIN report' = Peers
    BY <1>0, <1>6 DEF vars, sessionVars, peerVars, Steps, Reports
  <2>2. Refused(c)'
    BY <1>2, <1>3, <1>4, <1>6, <2>1 DEF Refused
  <2>3. Reported(c)'
    BY <2>1, <2>2, NothingPrinted DEF Reported
  <2>4. ClientOK(c)'
    BY <2>1, <2>3 DEF ClientOK, Waiting, Greeting, Asking
  <2>5. OthersKeep(c)
    <3>1. Elsewhere(c)
      BY <1>0, <1>1, <1>6, <2>1 DEF Elsewhere, Steps, Reports
    <3> QED  BY <1>4, <3>1, ElsewhereSteady
  <2> QED  BY <1>0, <1>1, <2>1, <2>4, <2>5 DEF Clients, OthersKeep
<1> QED  BY <1>5, <1>6 DEF Dial

(* While nothing was read, all that came has arrived.                      *)
LEMMA AllArrived ==
    ASSUME Inv, NEW c \in Peers, seen[c] = 0
    PROVE  Arrived(c) = got[c]
<1>1. got[c] \in Text
  BY DEF Inv, Types
<1>2. SubSeq(got[c], 1, Len(got[c])) = got[c]
  BY <1>1, SubSeqFull DEF Text
<1>3. seen[c] + 1 = 1
  OBVIOUS
<1> QED  BY <1>2, <1>3 DEF Arrived

(* A client that says something changes its stream, not its session.       *)
LEMMA SaysMore ==
    ASSUME Inv, NEW c \in Peers, NEW m, Sends(c, m)
    PROVE  /\ said'[c] = said[c] \o m /\ \A d \in Peers : d # c => said'[d] = said[d]
           /\ UNCHANGED <<got, taken, p, stm, authenticated, did, answers, failed, closing, wbuf>>
<1>1. said \in [Peers -> Text]
  BY DEF Inv, Types
<1> QED  BY <1>1 DEF Sends, sessionVars, serverVars

(* The client goes on: what it wrote down of itself.                       *)
LEMMA StepsOn ==
    ASSUME ClientTypes, DOMAIN seen = Peers, DOMAIN report = Peers, NEW c \in Peers,
           NEW to, Steps(c, to)
    PROVE  /\ cpc'[c] = to /\ \A d \in Peers : d # c => cpc'[d] = cpc[d]
           /\ \A n : Reads(c, n) => /\ seen'[c] = seen[c] + n /\ DOMAIN seen' = Peers
                                    /\ \A d \in Peers : d # c => seen'[d] = seen[d]
           /\ \A r : Reports(c, r) => /\ report'[c] = r /\ DOMAIN report' = Peers
                                      /\ \A d \in Peers : d # c => report'[d] = report[d]
<1>1. cpc \in [Peers -> {"start", "auth", "answer", "bye", "exit"}]
  BY DEF ClientTypes
<1>2. cpc'[c] = to /\ \A d \in Peers : d # c => cpc'[d] = cpc[d]
  BY <1>1 DEF Steps
<1>3. ASSUME NEW n, Reads(c, n)
      PROVE  /\ seen'[c] = seen[c] + n /\ DOMAIN seen' = Peers
             /\ \A d \in Peers : d # c => seen'[d] = seen[d]
  BY <1>3 DEF Reads
<1>4. ASSUME NEW r, Reports(c, r)
      PROVE  /\ report'[c] = r /\ DOMAIN report' = Peers
             /\ \A d \in Peers : d # c => report'[d] = report[d]
  BY <1>4 DEF Reports
<1> QED  BY <1>2, <1>3, <1>4

(* do_handshake() ends, and the command follows it.                        *)
LEMMA AuthenticateKeeps ==
    ASSUME IInv, Clients, NEW c \in Peers, Authenticate(c)
    PROVE  Clients'
<1> DEFINE cred == Credential(task[c].cred)
<1>0. /\ Inv /\ ClientTypes /\ ClientOK(c) /\ DOMAIN seen = Peers /\ DOMAIN report = Peers
      /\ got[c] \in Text /\ taken[c] \in Nat
  BY DEF IInv, Inv, Types, Clients
<1>1. cpc[c] = "auth" /\ task' = task /\ Reads(c, 2) /\ Len(Arrived(c)) >= 2
  BY DEF Authenticate
<1>2. /\ Greeting(c) /\ report[c] = NoReport /\ seen[c] = 0 /\ did[c] = <<>> /\ said[c] = cred
  BY <1>0, <1>1 DEF ClientOK, Greeting
<1>3. Arrived(c) = got[c]
  BY <1>0, <1>2, AllArrived
<1>4. stm[c] \in {"CMD_READ", "CLOSED"} /\ answers[c] = <<got[c]>> /\ Len(got[c]) = 2
  BY <1>0, <1>1, <1>2, <1>3, Greeted
<1>5. SubSeq(got[c], 1, 2) = got[c]
  BY <1>0, <1>4, SubSeqFull DEF Text
<1>6. cred \in Text /\ Len(cred) \in Nat
  BY <1>0, SentText
<1> HIDE DEF cred
<1>7. CASE got[c] = LetIn /\ Usable(task[c]) /\ Sends(c, Request(task[c])) /\ Steps(c, "answer") /\ UNCHANGED report
  <2>0. task[c].do \in Commands /\ Request(task[c]) \in Text
    BY <1>0, <1>1, <1>7, RolesAre, SentText
  <2>1. /\ cpc'[c] = "answer" /\ seen'[c] = seen[c] + 2 /\ report' = report /\ DOMAIN seen' = Peers
        /\ \A d \in Peers : d # c => cpc'[d] = cpc[d] /\ seen'[d] = seen[d]
    BY <1>0, <1>1, <1>7, StepsOn
  <2>2. /\ said'[c] = said[c] \o Request(task[c]) /\ \A d \in Peers : d # c => said'[d] = said[d]
        /\ UNCHANGED <<got, taken, p, stm, authenticated, did, answers, failed, closing, wbuf>>
    BY <1>0, <1>7, SaysMore
  <2>3. seen'[c] = 2
    BY <1>2, <2>1
  <2>4. said'[c] = cred \o Request(task[c])
    BY <1>2, <2>2
  <2>5. Unserved(c)'
    <3>1. stm[c] = "CMD_READ" => CmdFrom(said'[c], p[c], Len(cred), taken[c])
      <4>1. SUFFICES ASSUME stm[c] = "CMD_READ" PROVE CmdFrom(said'[c], p[c], Len(cred), taken[c])
        OBVIOUS
      <4>2. taken[c] = Len(cred) /\ p[c] = Zeroed("CMD")
        BY <1>1, <1>2, <4>1 DEF Greeting
      <4>3. cred \o Request(task[c]) \in Text /\ Len(cred \o Request(task[c])) = Len(cred) + Len(Request(task[c]))
            /\ Len(Request(task[c])) \in Nat
        BY <1>6, <2>0, TextsJoin, LenProperties DEF Text
      <4>4. Len(cred) \in 0 .. Len(cred \o Request(task[c]))
        BY <1>6, <4>3
      <4>5. CmdFrom(cred \o Request(task[c]), Zeroed("CMD"), Len(cred), Len(cred))
        BY <4>3, <4>4, NothingSaid
      <4> QED  BY <2>4, <4>2, <4>5
    <3>2. /\ did'[c] = <<>> /\ answers'[c] = <<LetIn>> /\ stm'[c] = stm[c] /\ p'[c] = p[c]
          /\ taken'[c] = taken[c] /\ task' = task /\ stm[c] \in {"CMD_READ", "CLOSED"}
      BY <1>1, <1>2, <1>4, <1>7, <2>2
    <3> QED  BY <3>1, <3>2 DEF Unserved, cred
  <2>6. Asking(c)'
    BY <1>1, <1>2, <2>0, <2>1, <2>3, <2>4, <2>5 DEF Asking, cred
  <2>7. Reported(c)'
    BY <1>2, <2>1, NothingPrinted DEF Reported
  <2>8. ClientOK(c)'
    BY <2>1, <2>6, <2>7 DEF ClientOK, Waiting, Greeting
  <2>9. OthersKeep(c)
    <3>1. Elsewhere(c)
      BY <1>1, <2>1, <2>2 DEF Elsewhere
    <3> QED  BY <2>2, <3>1, ElsewhereSteady
  <2> QED  BY <1>0, <2>1, <2>8, <2>9 DEF Clients, OthersKeep
<1>8. ASSUME Steps(c, "bye") \/ Steps(c, "exit"), Reports(c, GaveUp),
             ~Usable(task[c]) \/ got[c] # LetIn, \A d \in Peers : d # c => said'[d] = said[d],
             UNCHANGED <<got, taken, p, stm, authenticated, did, answers, failed, closing>>
      PROVE  Clients'
  <2>1. /\ cpc'[c] \in {"bye", "exit"} /\ seen'[c] = seen[c] + 2 /\ DOMAIN seen' = Peers
        /\ report'[c] = GaveUp /\ DOMAIN report' = Peers
        /\ \A d \in Peers : d # c => cpc'[d] = cpc[d] /\ seen'[d] = seen[d] /\ report'[d] = report[d]
    BY <1>0, <1>1, <1>8, StepsOn
  <2>2. Usable(task[c]) => Refused(c)'
    <3>1. got'[c] = got[c] /\ did'[c] = <<>> /\ Len(got[c]) >= 2
      BY <1>2, <1>4, <1>8
    <3>2. Usable(task[c]) => SubSeq(got[c], 1, 2) # LetIn
      BY <1>5, <1>8
    <3> QED  BY <3>1, <3>2 DEF Refused
  <2>3. Reported(c)'
    BY <1>1, <2>1, <2>2, NothingPrinted DEF Reported
  <2>4. ClientOK(c)'
    BY <2>1, <2>3 DEF ClientOK, Waiting, Greeting, Asking
  <2>5. OthersKeep(c)
    <3>1. Elsewhere(c)
      BY <1>1, <1>8, <2>1 DEF Elsewhere
    <3> QED  BY <1>8, <3>1, ElsewhereSteady
  <2> QED  BY <2>1, <2>4, <2>5 DEF Clients, OthersKeep
<1>9. CASE ~Usable(task[c]) /\ Sends(c, <<Close>>) /\ Steps(c, "bye") /\ Reports(c, GaveUp)
  BY <1>0, <1>8, <1>9, SaysMore
<1>10. CASE got[c] # LetIn /\ Leaves(c) /\ Reports(c, GaveUp)
  <2>1. Steps(c, "exit") /\ UNCHANGED <<said, sessionVars, closing>>
    BY <1>10 DEF Leaves, Finish
  <2> QED  BY <1>8, <1>10, <2>1 DEF sessionVars
<1> QED  BY <1>3, <1>5, <1>7, <1>9, <1>10 DEF Authenticate, LetIn

(* What was printed for a client stays true while nobody else is served    *)
(* for it.                                                                 *)
LEMMA PrintedStays ==
    ASSUME NEW c \in Peers, ClientOK(c), cpc'[c] \in {"bye", "exit"}, Reported(c)'
    PROVE  ClientOK(c)'
BY DEF ClientOK, Waiting, Greeting, Asking

(* The command that was executed is the one the client waits for.          *)
LEMMA AnswerKeeps ==
    ASSUME ShortNames, IInv, Clients, NEW c \in Peers, ReadAnswer(c)
    PROVE  Clients'
<1> DEFINE r == AnswerRead(task[c], Arrived(c))
<1>0. /\ Inv /\ ClientTypes /\ ClientOK(c) /\ DOMAIN seen = Peers /\ DOMAIN report = Peers
  BY DEF IInv, Clients
<1>1. /\ cpc[c] = "answer" /\ task' = task /\ r.enough /\ Reads(c, r.used) /\ Steps(c, "bye")
      /\ Reports(c, Told(r.status, r.data)) /\ Sends(c, <<Close>>)
  BY DEF ReadAnswer
<1>2. Asking(c) /\ seen[c] = 2 /\ task[c].do \in Commands /\ (Unserved(c) \/ Served(c))
  BY <1>0, <1>1 DEF ClientOK, Asking
<1>3. ~Unserved(c)
  <2>1. SUFFICES ASSUME Unserved(c) PROVE FALSE
    OBVIOUS
  <2>2. Arrived(c) = <<>>
    BY <1>0, <1>2, <2>1, NothingArrived
  <2>3. ~AnswerRead(task[c], <<>>).enough
    BY <1>2, NothingIsRead
  <2> QED  BY <1>1, <2>2, <2>3
<1>4. PICK d : ServedBy(c, d)
  BY <1>2, <1>3 DEF Served
<1>5. TrueOf(task[c], Told(r.status, r.data), d)
  <2>1. /\ task[c] \in Roles /\ NameSent(task[c])
    BY <1>0, RolesAre DEF ShortNames, ClientTypes
  <2>2. d \in Turns /\ IsFor(task[c], d.q)
    BY <1>4 DEF ServedBy
  <2>3. PICK m \in Text : Arrived(c) \o m = AnswerFor(d.q, d.users, d.world)
    BY <1>0, <1>2, <1>4, AnswerArrives
  <2>4. Arrived(c) \in Text
    BY <1>0, <1>2, <1>4, AnswerArrives
  <2>5. r = AnswerRead(task[c], Arrived(c))
    OBVIOUS
  <2> HIDE DEF r
  <2>6. r.enough => TrueOf(task[c], Told(r.status, r.data), d)
    BY <1>2, <2>1, <2>2, <2>3, <2>4, <2>5, AnswerIsTrue
  <2> QED  BY <1>1, <2>6
<1> HIDE DEF r
<1> DEFINE t == Told(r.status, r.data)
<1>6. t.told /\ t # GaveUp
  BY NothingPrinted
<1> HIDE DEF t
<1>7. /\ cpc'[c] = "bye" /\ report'[c] = t /\ DOMAIN seen' = Peers /\ DOMAIN report' = Peers
      /\ \A e \in Peers : e # c => cpc'[e] = cpc[e] /\ seen'[e] = seen[e] /\ report'[e] = report[e]
  BY <1>0, <1>1, StepsOn DEF t
<1>8. /\ \A e \in Peers : e # c => said'[e] = said[e]
      /\ UNCHANGED <<got, taken, p, stm, authenticated, did, answers, failed, closing>>
  BY <1>0, <1>1, SaysMore
<1>9. Reported(c)'
  <2>1. did[c] = <<d>>
    BY <1>4 DEF ServedBy
  <2>2. did'[c] = <<d>> /\ <<d>> # <<>> /\ <<d>>[1] = d /\ task'[c] = task[c]
    BY <1>1, <1>8, <2>1
  <2>3. TrueOf(task[c], t, d)
    BY <1>5 DEF t
  <2> QED  BY <1>6, <1>7, <2>2, <2>3 DEF Reported
<1>10. OthersKeep(c)
  <2>1. Elsewhere(c)
    BY <1>1, <1>7, <1>8 DEF Elsewhere
  <2> QED  BY <1>8, <2>1, ElsewhereSteady
<1> QED  BY <1>0, <1>7, <1>9, <1>10, PrintedStays DEF Clients, OthersKeep

(* close(fd) changes no session.                                           *)
LEMMA LeavesQuietly ==
    ASSUME NEW c \in Peers, Leaves(c)
    PROVE  /\ Steps(c, "exit") /\ UNCHANGED said
           /\ UNCHANGED <<got, taken, p, stm, authenticated, did, answers, failed, closing>>
BY DEF Leaves, Finish, sessionVars

(* send_close() is answered.                                               *)
LEMMA ByeKeeps ==
    ASSUME IInv, Clients, NEW c \in Peers, ReadBye(c)
    PROVE  Clients'
<1>0. /\ ClientTypes /\ ClientOK(c) /\ DOMAIN seen = Peers /\ DOMAIN report = Peers
  BY DEF IInv, Clients
<1>1. task' = task /\ report' = report /\ Reads(c, 1) /\ Leaves(c)
  BY DEF ReadBye
<1>2. /\ Steps(c, "exit") /\ said' = said
      /\ UNCHANGED <<got, taken, p, stm, authenticated, did, answers, failed, closing>>
  BY <1>1, LeavesQuietly
<1>3. /\ cpc'[c] = "exit" /\ DOMAIN seen' = Peers
      /\ \A e \in Peers : e # c => cpc'[e] = cpc[e] /\ seen'[e] = seen[e]
  BY <1>0, <1>1, <1>2, StepsOn
<1>4. Refused(c) => Refused(c)'
  BY <1>2 DEF Refused
<1>5. Reported(c)'
  BY <1>0, <1>1, <1>2, <1>4 DEF ClientOK, Reported
<1>6. OthersKeep(c)
  <2>1. Elsewhere(c)
    BY <1>1, <1>2, <1>3 DEF Elsewhere
  <2> QED  BY <1>2, <2>1, ElsewhereSteady
<1> QED  BY <1>0, <1>1, <1>3, <1>5, <1>6, PrintedStays DEF Clients, OthersKeep

(* The server closed: what it had executed for the client was answered     *)
(* whole, unless a call failed.                                            *)
LEMMA HungUpKeeps ==
    ASSUME ShortNames, IInv, Clients, NEW c \in Peers, HungUp(c)
    PROVE  Clients'
<1>0. /\ Inv /\ ClientTypes /\ ClientOK(c) /\ DOMAIN seen = Peers /\ DOMAIN report = Peers
  BY DEF IInv, Clients
<1>1. /\ task' = task /\ seen' = seen /\ stm[c] = "CLOSED" /\ Short(c) /\ Leaves(c)
      /\ Reports(c, IF cpc[c] = "bye" THEN report[c] ELSE GaveUp)
  BY DEF HungUp, AtEnd
<1>2. /\ Steps(c, "exit") /\ said' = said
      /\ UNCHANGED <<got, taken, p, stm, authenticated, did, answers, failed, closing>>
  BY <1>1, LeavesQuietly
<1>3. /\ cpc'[c] = "exit" /\ DOMAIN report' = Peers
      /\ report'[c] = (IF cpc[c] = "bye" THEN report[c] ELSE GaveUp)
      /\ \A e \in Peers : e # c => cpc'[e] = cpc[e] /\ report'[e] = report[e]
  BY <1>0, <1>1, <1>2, StepsOn
<1>4. Refused(c) => Refused(c)'
  BY <1>2 DEF Refused
<1>5. cpc[c] \in {"auth", "answer", "bye"}
  BY <1>1 DEF Short
<1>6. cpc[c] \in {"auth", "answer"} /\ c \notin failed => Refused(c)
  <2>1. CASE cpc[c] = "auth"
    BY <1>0, <1>1, <2>1 DEF ClientOK, Greeting, Refused
  <2>2. CASE cpc[c] = "answer" /\ c \notin failed
    <3>1. seen[c] = 2 /\ task[c].do \in Commands /\ (Unserved(c) \/ Served(c))
      BY <1>0, <2>2 DEF ClientOK, Asking
    <3>2. ~Served(c)
      <4>1. SUFFICES ASSUME NEW d, ServedBy(c, d) PROVE FALSE
        BY DEF Served
      <4>2. task[c] \in Roles /\ NameSent(task[c])
        BY <1>0, RolesAre DEF ShortNames, ClientTypes
      <4>3. d \in Turns /\ IsFor(task[c], d.q)
        BY <4>1 DEF ServedBy
      <4>4. PICK m \in Text :
               /\ Arrived(c) \o m = AnswerFor(d.q, d.users, d.world)
               /\ c \notin failed /\ stm[c] = "CLOSED" => m = <<>>
        BY <1>0, <3>1, <4>1, AnswerArrives
      <4>5. Arrived(c) \in Text
        BY <1>0, <3>1, <4>1, AnswerArrives
      <4> DEFINE r == AnswerRead(task[c], Arrived(c))
      <4>6. r = AnswerRead(task[c], Arrived(c))
        OBVIOUS
      <4>7. ~r.enough
        BY <1>1, <2>2 DEF Short
      <4> HIDE DEF r
      <4>8. m = <<>> => r.enough
        BY <3>1, <4>2, <4>3, <4>4, <4>5, <4>6, AnswerIsTrue
      <4> QED  BY <1>1, <2>2, <4>4, <4>7, <4>8
    <3>3. did[c] = <<>>
      BY <3>1, <3>2 DEF Unserved
    <3> QED  BY <1>1, <3>3 DEF Refused
  <2> QED  BY <2>1, <2>2
<1>7. Reported(c)'
  <2>1. CASE cpc[c] = "bye"
    <3>1. report'[c] = report[c]
      BY <1>3, <2>1
    <3> QED  BY <1>0, <1>1, <1>2, <1>4, <3>1 DEF ClientOK, Reported
  <2>2. CASE cpc[c] \in {"auth", "answer"}
    <3>1. report'[c] = GaveUp
      BY <1>3, <2>2
    <3> QED  BY <1>2, <1>4, <1>6, <2>2, <3>1, NothingPrinted DEF Reported
  <2> QED  BY <1>5, <2>1, <2>2
<1>8. OthersKeep(c)
  <2>1. Elsewhere(c)
    BY <1>1, <1>2, <1>3 DEF Elsewhere
  <2> QED  BY <1>2, <2>1, ElsewhereSteady
<1> QED  BY <1>0, <1>1, <1>3, <1>7, <1>8, PrintedStays DEF Clients, OthersKeep

(* An answer goes out; what the peer was told first stays what it was.     *)
LEMMA SendingKeeps ==
    ASSUME Inv, Clients, UNCHANGED clientVars, NEW c \in Peers, NEW n, Write(c, n)
    PROVE  Clients'
<1> DEFINE a == SubSeq(wbuf[c], 1, n)
<1>0. /\ got[c] \in Text /\ wbuf[c] \in Text /\ ClientOK(c) /\ n \in 1 .. Len(wbuf[c])
      /\ UNCHANGED <<task, cpc, seen, report>>
  BY DEF Inv, Types, Clients, Write, clientVars
<1>1. a \in Text
  BY <1>0, SendSplits
<1>2. /\ stm[c] \in {"AUTH_WRITE", "RESP_WRITE"} /\ got' = [got EXCEPT ![c] = @ \o a]
      /\ UNCHANGED <<said, taken, authenticated, did, answers, failed, closing>>
  BY DEF Write, WriteStates, peerVars
<1>3. \/ /\ stm' = [stm EXCEPT ![c] = "CMD_READ"] /\ p' = [p EXCEPT ![c] = Zeroed("CMD")]
         /\ stm[c] = "AUTH_WRITE" => authenticated[c]
      \/ stm' = [stm EXCEPT ![c] = "CLOSED"] /\ p' = p
      \/ stm' = stm /\ p' = p
  <2>1. \/ Following(c) = "CMD_READ" /\ (stm[c] = "AUTH_WRITE" => authenticated[c])
        \/ Following(c) = "CLOSED"
    BY DEF Following
  <2> QED  BY <2>1 DEF Write, Goes, Arrive
<1> HIDE DEF a
<1>4. got'[c] = got[c] \o a /\ \A d \in Peers : d # c => got'[d] = got[d]
  BY <1>2 DEF Inv, Types
<1>5. \/ stm'[c] = "CMD_READ" /\ p'[c] = Zeroed("CMD") /\ (stm[c] = "AUTH_WRITE" => authenticated[c])
      \/ stm'[c] = "CLOSED" /\ p'[c] = p[c]
      \/ stm'[c] = stm[c] /\ p'[c] = p[c]
  BY <1>3 DEF Inv, Types
<1>6. \A d \in Peers : d # c => stm'[d] = stm[d] /\ p'[d] = p[d]
  BY <1>3 DEF Inv, Types
<1>7. ASSUME NEW d \in Peers, d # c PROVE ClientOK(d)'
  <2>1. Steady(d)
    BY <1>0, <1>2, <1>4, <1>6, <1>7 DEF Steady
  <2> QED  BY <2>1, SteadyKeeps DEF Clients
<1>8. ClientOK(c)'
  <2>1. Waiting(c)'
    BY <1>0, <1>2 DEF ClientOK, Waiting
  <2>2. Greeting(c)'
    BY <1>0, <1>2, <1>5 DEF ClientOK, Greeting
  <2>3. Asking(c)'
    <3>1. ~Unserved(c)
      BY <1>2 DEF Unserved
    <3>2. ASSUME NEW d, ServedBy(c, d) PROVE ServedBy(c, d)'
      BY <1>0, <1>2, <1>5, <3>2 DEF ServedBy
    <3>3. Served(c) => Served(c)'
      BY <3>2 DEF Served
    <3> QED  BY <1>0, <1>2, <3>1, <3>3 DEF ClientOK, Asking
  <2>4. Refused(c) => Refused(c)'
    <3>1. SUFFICES ASSUME Refused(c) PROVE Refused(c)'
      OBVIOUS
    <3>2. did[c] = <<>> /\ Len(got[c]) >= 2 /\ SubSeq(got[c], 1, 2) # LetIn
      BY <1>2, <3>1 DEF Refused
    <3>3. Len(got[c] \o a) >= 2 /\ SubSeq(got[c] \o a, 1, 2) = SubSeq(got[c], 1, 2)
      BY <1>0, <1>1, <3>2, LetInStays
    <3> QED  BY <1>2, <1>4, <3>2, <3>3 DEF Refused
  <2>5. Reported(c)'
    BY <1>0, <1>2, <2>4 DEF ClientOK, Reported
  <2> QED  BY <2>1, <2>2, <2>3, <2>5 DEF ClientOK
<1> QED  BY <1>0, <1>7, <1>8 DEF Clients

(* A part of a stream is there in one piece.                               *)
LEMMA PartIsPiece ==
    ASSUME NEW s \in Text, NEW a \in Nat, NEW u \in Nat, a <= u, u <= Len(s),
           NEW m, SubSeq(s, a + 1, u) = m
    PROVE  Piece(s, a, m) /\ m \in Text /\ Len(m) = u - a
<1> DEFINE x == SubSeq(s, a + 1, u)
<1>1. Len(s) \in Nat
  BY LenProperties DEF Text
<1>2. \A i \in a + 1 .. u : s[i] \in Byte
  BY <1>1, ElementOfSeq DEF Text
<1>3. (IF a + 1 <= u THEN u - (a + 1) + 1 ELSE 0) = u - a /\ u - (a + 1) + 1 = u - a
  OBVIOUS
<1>4. /\ x \in Seq(Byte) /\ Len(x) = u - a
      /\ \A i \in 1 .. (u - a) : x[i] = s[(a + 1) + i - 1]
  BY <1>2, <1>3, SubSeqProperties
<1>5. \A i \in 1 .. (u - a) : (a + 1) + i - 1 = a + i
  OBVIOUS
<1>6. \A i \in 1 .. Len(x) : s[a + i] = x[i]
  BY <1>4, <1>5
<1>7. a + Len(x) <= Len(s)
  BY <1>1, <1>4
<1> HIDE DEF x
<1>8. Piece(s, a, x)
  BY <1>4, <1>6, <1>7 DEF Piece, Text
<1> QED  BY <1>4, <1>8 DEF x, Text

(* recv() took n bytes, of which the handler used k: its parser, which     *)
(* began behind the first a of the stream, is at q.                        *)
ReadTo(c, n, a, q, k) ==
    /\ q \in Parsers /\ k \in 0 .. n /\ (~Over(q) => k = n)
    /\ Says(stm[c], said[c], q, a, taken[c] + k)
    /\ taken'[c] = taken[c] + n /\ UNCHANGED <<said, got, closing, failed, world>>
    /\ (stm[c] = "AUTH_READ" /\ AuthRead(c, q)) \/ (stm[c] = "CMD_READ" /\ CmdRead(c, q))

(* Every Read is such a step.                                              *)
LEMMA ReadGoes ==
    ASSUME Inv, NEW c \in Peers, NEW n \in 1 .. ReadSize, Read(c, n),
           NEW a \in Nat, Says(stm[c], said[c], p[c], a, taken[c])
    PROVE  \E q, k : ReadTo(c, n, a, q, k)
<1> DEFINE x == SubSeq(said[c], taken[c] + 1, taken[c] + n)
           b == rbuf[c] \o x
           r == Parse(stm[c], p[c], b)
<1>0. /\ said[c] \in Text /\ taken[c] \in Nat /\ PeerOK(c) /\ n \in Nat
      /\ stm[c] \in ReadStates /\ taken[c] + n <= Len(said[c]) /\ Len(said[c]) \in Nat
  BY LenProperties, SizesAssumption DEF Read, Inv, Types, Text
<1>1. rbuf[c] = <<>>
  BY <1>0 DEF PeerOK, Stocked
<1>2. x \in Text
  <2>1. taken[c] <= taken[c] + n /\ taken[c] + n \in Nat
    BY <1>0
  <2> QED  BY <1>0, <2>1, PartIsPiece
<1>3. /\ taken' = [taken EXCEPT ![c] = @ + n]
      /\ (stm[c] = "AUTH_READ" /\ AuthRead(c, r.q)) \/ (stm[c] = "CMD_READ" /\ CmdRead(c, r.q))
      /\ UNCHANGED <<said, got, closing, failed, world>>
  BY DEF Read, peerVars
<1> HIDE DEF x
<1>4. b = x
  BY <1>1, <1>2, ConcatEmptySeq DEF Text
<1>5. r = Parse(stm[c], p[c], SubSeq(said[c], taken[c] + 1, taken[c] + n))
  BY <1>4 DEF x
<1> HIDE DEF b, r
<1>6. /\ r.used \in 0 .. n /\ Says(stm[c], said[c], r.q, a, taken[c] + r.used)
      /\ ~Over(r.q) => r.used = n
  BY <1>0, <1>5, Parsed
<1>7. r.q \in Parsers
  BY <1>6 DEF Says, AuthSays, CmdFrom
<1>8. taken'[c] = taken[c] + n
  BY <1>3 DEF Inv, Types
<1>9. ReadTo(c, n, a, r.q, r.used)
  BY <1>3, <1>6, <1>7, <1>8 DEF ReadTo
<1> QED  BY <1>9

(* A read handler leaves the other sessions alone.                         *)
LEMMA ReadElsewhere ==
    ASSUME Inv, NEW c \in Peers, NEW n, Read(c, n), NEW d \in Peers, d # c
    PROVE  /\ said'[d] = said[d] /\ got'[d] = got[d] /\ taken'[d] = taken[d] /\ p'[d] = p[d]
           /\ authenticated'[d] = authenticated[d] /\ did'[d] = did[d]
           /\ answers'[d] = answers[d] /\ stm'[d] = stm[d] /\ closing' = closing
           /\ failed' = failed
<1>1. said' = said /\ got' = got /\ closing' = closing /\ failed' = failed /\ taken'[d] = taken[d]
  BY DEF Read, Inv, Types, peerVars
<1>2. PICK q : AuthRead(c, q) \/ CmdRead(c, q)
  BY DEF Read
<1>3. \/ KeepReading(c, q)
      \/ \E s, state : Answering(c, q, s, state)
  BY <1>2 DEF AuthRead, CmdRead, Execute
<1>4. stm'[d] = stm[d] /\ p'[d] = p[d] /\ answers'[d] = answers[d]
  BY <1>3 DEF KeepReading, Answering, Goes, Inv, Types
<1>5. authenticated'[d] = authenticated[d] /\ did'[d] = did[d]
  BY <1>2 DEF AuthRead, CmdRead, Execute, KeepReading, Inv, Types
<1> QED  BY <1>1, <1>4, <1>5

(* The handshake of a client is over when its credential is.               *)
LEMMA HelloTaken ==
    ASSUME NEW s \in Text, NEW q, NEW u, AuthSays(s, q, u), q.at = "DONE", NEW k \in Roles,
           s = Credential(k.cred)
    PROVE  u = Len(s)
<1>1. /\ q \in Parsers /\ AuthKnows(q) /\ u \in Nat /\ u <= Len(s) /\ Len(s) \in Nat
      /\ SubSeq(s, 1, u) = AuthTaken(q)
  BY LenProperties DEF AuthSays, Text
<1>2. AuthTaken(q) = Handshake(q)
  BY <1>1, TakenIsEncoded
<1>3. Piece(s, 0, Handshake(q)) /\ Len(Handshake(q)) = u
  <2>1. SubSeq(s, 0 + 1, u) = Handshake(q) /\ 0 <= u /\ 0 \in Nat
    BY <1>1, <1>2
  <2>2. Piece(s, 0, Handshake(q)) /\ Len(Handshake(q)) = u - 0
    BY <1>1, <2>1, PartIsPiece
  <2> QED  BY <1>1, <2>2
<1>4. Piece(s, 0, Credential(k.cred))
  BY WholePiece
<1>5. k.cred.name \in Text /\ k.cred.pass \in Text
  BY ArgumentsAreText DEF Text
<1>6. Handshake(q) = Credential(k.cred)
  BY <1>1, <1>3, <1>4, <1>5, HandshakeAgrees
<1> QED  BY <1>3, <1>6

(* The command of a client is over when its request is, and it is that     *)
(* command.                                                                *)
LEMMA RequestTaken ==
    ASSUME NEW x \in Text, NEW k \in Roles, k.do \in Commands, FitsIn(k.seconds, 4),
           NEW s \in Text, s = x \o Request(k), NEW q, NEW u, CmdFrom(s, q, Len(x), u), Over(q)
    PROVE  q.at = "DONE" /\ IsFor(k, q) /\ u = Len(s)
<1>0. Request(k) \in Text
  BY RequestIsText DEF Commands, Asks, Usable
<1>1. /\ Len(x) \in Nat /\ Len(s) \in Nat /\ Len(Request(k)) \in Nat
      /\ Len(s) = Len(x) + Len(Request(k))
  BY <1>0, TextsJoin, LenProperties DEF Text
<1>2. /\ q \in Parsers /\ CmdKnows(q) /\ TimeKnows(q) /\ u \in Nat /\ u <= Len(s)
      /\ Len(x) <= u /\ SubSeq(s, Len(x) + 1, u) = CmdTaken(q)
  BY <1>1 DEF CmdFrom
<1>3. CmdTaken(q) = Encoded(q)
  BY <1>2, TakenIsEncoded
<1>4. Piece(s, Len(x), Encoded(q)) /\ Len(Encoded(q)) = u - Len(x)
  <2> DEFINE a == Len(x)  m == Encoded(q)
  <2>1. a \in Nat /\ a <= u
    BY <1>1, <1>2
  <2>2. u \in Nat /\ u <= Len(s)
    BY <1>2
  <2>3. SubSeq(s, a + 1, u) = m
    BY <1>2, <1>3
  <2> HIDE DEF a, m
  <2>4. Piece(s, a, m) /\ Len(m) = u - a
    BY <2>1, <2>2, <2>3, PartIsPiece
  <2> QED  BY <2>4 DEF a, m
<1>5. Piece(s, Len(x), Request(k))
  <2>1. Piece(s, 0, x \o Request(k))
    BY WholePiece
  <2>2. Piece(s, 0 + Len(x), Request(k))
    BY <1>0, <2>1, PieceSplits
  <2>3. 0 + Len(x) = Len(x)
    BY <1>1
  <2> QED  BY <2>2, <2>3
<1>6. q.at = "DONE" /\ IsFor(k, q)
  BY <1>2, <1>4, <1>5, CommandAgrees
<1>7. Encoded(q) = Request(k)
  BY <1>6 DEF IsFor
<1> QED  BY <1>1, <1>2, <1>4, <1>6, <1>7

(* auth_feed(): the client, if it is one, has said its credential only.    *)
LEMMA HelloKeeps ==
    ASSUME IInv, Clients, UNCHANGED clientVars, NEW c \in Peers, NEW n \in 1 .. ReadSize,
           Read(c, n), stm[c] = "AUTH_READ"
    PROVE  ClientOK(c)'
<1>0. /\ Inv /\ ClientTypes /\ ClientOK(c) /\ PeerOK(c) /\ UNCHANGED <<task, cpc, seen, report>>
      /\ said[c] \in Text /\ taken[c] \in Nat /\ Len(said[c]) \in Nat /\ n \in Nat
      /\ taken[c] + n <= Len(said[c]) /\ rbuf[c] \in Text
  <2>1. /\ Inv /\ ClientTypes /\ ClientOK(c) /\ PeerOK(c) /\ UNCHANGED <<task, cpc, seen, report>>
    BY DEF IInv, Inv, Clients, clientVars
  <2>2. said[c] \in Text /\ taken[c] \in Nat /\ rbuf[c] \in Text
    BY <2>1 DEF Inv, Types
  <2>3. Len(said[c]) \in Nat /\ n \in Nat
    BY <2>2, LenProperties, SizesAssumption DEF Text
  <2>4. taken[c] + n <= Len(said[c])
    BY DEF Read
  <2> QED  BY <2>1, <2>2, <2>3, <2>4
<1>1. answers[c] = <<>> /\ did[c] = <<>>
  BY <1>0 DEF PeerOK, Admits
<1>2. AuthSays(said[c], p[c], taken[c])
  <2>1. rbuf[c] = <<>>
    BY <1>0 DEF PeerOK, Stocked, ReadStates
  <2>2. Used(c) = taken[c]
    <3>1. Len(rbuf[c]) = 0 /\ taken[c] - 0 = taken[c]
      BY <1>0, <2>1
    <3> QED  BY <3>1 DEF Used
  <2> QED  BY <1>0, <2>2 DEF PeerOK, Heard
<1>3. PICK q, k : ReadTo(c, n, 0, q, k)
  <2>1. Says(stm[c], said[c], p[c], 0, taken[c]) /\ 0 \in Nat
    BY <1>2 DEF Says
  <2> QED  BY <1>0, <2>1, ReadGoes
<1>4. /\ k \in 0 .. n /\ AuthSays(said[c], q, taken[c] + k) /\ AuthRead(c, q)
      /\ taken'[c] = taken[c] + n /\ UNCHANGED <<said, got, closing, failed>>
  BY <1>3 DEF ReadTo, Says
<1>5. did' = did
  BY <1>4 DEF AuthRead, KeepReading
<1>6. \/ stm'[c] = "AUTH_READ" /\ answers'[c] = <<>>
      \/ /\ stm'[c] = "AUTH_WRITE" /\ \E b \in Byte : answers'[c] = << <<Version, b>> >>
         /\ authenticated'[c] => q.at = "DONE"
  <2>1. CASE KeepReading(c, q)
    BY <1>1, <2>1 DEF KeepReading
  <2>2. CASE ~KeepReading(c, q)
    <3> DEFINE b == IF q.at = "ERROR" THEN Unsupported
                    ELSE IF Admitted(q) THEN AuthOK ELSE AuthFail
               s == <<Version, b>>
    <3>1. /\ Answering(c, q, s, "AUTH_WRITE")
          /\ authenticated' = [authenticated EXCEPT ![c] = q.at = "DONE" /\ Admitted(q)]
      BY <1>4, <2>2 DEF AuthRead
    <3>2. b \in Byte
      BY DEF Unsupported, AuthOK, AuthFail, Byte
    <3>3. s = <<Version, b>>
      OBVIOUS
    <3> HIDE DEF b, s
    <3>4. stm'[c] = "AUTH_WRITE" /\ answers'[c] = Append(<<>>, s)
      BY <1>0, <1>1, <3>1 DEF Answering, Goes, Inv, Types
    <3>5. Append(<<>>, s) = <<s>>
      OBVIOUS
    <3>6. authenticated'[c] => q.at = "DONE"
      BY <1>0, <3>1 DEF Inv, Types
    <3> QED  BY <3>2, <3>3, <3>4, <3>5, <3>6
  <2> QED  BY <2>1, <2>2
<1>7. Waiting(c)'
  BY <1>0 DEF ClientOK, Waiting
<1>8. Greeting(c)'
  <2>1. SUFFICES ASSUME cpc[c] = "auth" PROVE Greeting(c)'
    BY <1>0 DEF Greeting
  <2>2. said[c] = Credential(task[c].cred) /\ report[c] = NoReport /\ seen[c] = 0
    BY <1>0, <2>1 DEF ClientOK, Greeting
  <2>3. stm'[c] = "AUTH_WRITE" /\ authenticated'[c] => taken'[c] = Len(said[c])
    <3>1. SUFFICES ASSUME stm'[c] = "AUTH_WRITE", authenticated'[c] PROVE taken'[c] = Len(said[c])
      OBVIOUS
    <3>2. q.at = "DONE"
      BY <1>6, <3>1
    <3>3. task[c] \in Roles
      BY <1>0, RolesAre
    <3>4. taken[c] + k = Len(said[c])
      BY <1>0, <1>4, <2>2, <3>2, <3>3, HelloTaken
    <3> QED  BY <1>0, <1>4, <3>4
  <2>4. /\ stm'[c] \notin {"OUTSIDE", "RESP_WRITE", "CMD_READ"}
        /\ answers'[c] = <<>> \/ \E b \in Byte : answers'[c] = << <<Version, b>> >>
    BY <1>6
  <2> QED  BY <1>0, <1>1, <1>4, <1>5, <2>2, <2>3, <2>4 DEF Greeting
<1>9. Asking(c)'
  BY <1>0 DEF ClientOK, Asking, Unserved, Served, ServedBy
<1>10. Refused(c) => Refused(c)'
  BY <1>4, <1>5 DEF Refused
<1>11. Reported(c)'
  BY <1>0, <1>4, <1>5, <1>10 DEF ClientOK, Reported
<1> QED  BY <1>7, <1>8, <1>9, <1>11 DEF ClientOK

(* cmd_feed(): what is executed for a client that waits is its command.    *)
LEMMA CommandKeeps ==
    ASSUME IInv, Clients, UNCHANGED clientVars, NEW c \in Peers, NEW n \in 1 .. ReadSize,
           Read(c, n), stm[c] = "CMD_READ"
    PROVE  ClientOK(c)'
<1>0. /\ Inv /\ ClientTypes /\ ClientOK(c) /\ PeerOK(c) /\ UNCHANGED <<task, cpc, seen, report>>
      /\ said[c] \in Text /\ taken[c] \in Nat /\ Len(said[c]) \in Nat /\ n \in Nat /\ n >= 1
      /\ taken[c] + n <= Len(said[c])
  <2>1. /\ Inv /\ ClientTypes /\ ClientOK(c) /\ PeerOK(c) /\ UNCHANGED <<task, cpc, seen, report>>
    BY DEF IInv, Inv, Clients, clientVars
  <2>2. said[c] \in Text /\ taken[c] \in Nat
    BY <2>1 DEF Inv, Types
  <2>3. Len(said[c]) \in Nat /\ n \in Nat /\ n >= 1
    BY <2>2, LenProperties, SizesAssumption DEF Text
  <2>4. taken[c] + n <= Len(said[c])
    BY DEF Read
  <2> QED  BY <2>1, <2>2, <2>3, <2>4
<1>1. ~Refused(c) /\ c \notin failed
  BY <1>0 DEF PeerOK, Admits, Sent, Refused, LetIn
<1>2. said' = said /\ got' = got /\ closing' = closing /\ failed' = failed
  BY DEF Read, peerVars
<1>3. did[c] # <<>> => did'[c] # <<>> /\ did'[c][1] = did[c][1]
  <2>1. PICK q : CmdRead(c, q)
    BY DEF Read
  <2>2. did'[c] = did[c] \/ \E d : did'[c] = Append(did[c], d)
    BY <1>0, <2>1 DEF CmdRead, KeepReading, Execute, Inv, Types
  <2>3. ASSUME did[c] # <<>>, NEW d, did'[c] = Append(did[c], d)
        PROVE  did'[c] # <<>> /\ did'[c][1] = did[c][1]
    <3>1. did[c] \in Seq(Turns) /\ did'[c] \in Seq(Turns \cup {d})
      BY <1>0, <2>3 DEF Inv, Types
    <3>2. /\ Len(did[c]) \in Nat /\ Len(did[c]) # 0
      BY <2>3, <3>1, LenProperties, EmptySeq
    <3>3. did[c] \in Seq(Turns \cup {d}) /\ d \in Turns \cup {d}
      BY <3>1
    <3>4. 1 \in 1 .. Len(did[c])
      BY <3>2
    <3> QED  BY <2>3, <3>3, <3>4, AppendProperties
  <2> QED  BY <2>2, <2>3
<1>4. Reported(c)'
  BY <1>0, <1>1, <1>2, <1>3 DEF ClientOK, Reported
<1>5. Waiting(c)' /\ Greeting(c)'
  BY <1>0 DEF ClientOK, Waiting, Greeting
<1>6. Asking(c)'
  <2>0. SUFFICES ASSUME cpc[c] = "answer" PROVE Asking(c)'
    BY <1>0 DEF Asking
  <2> DEFINE x == Credential(task[c].cred)
  <2>1. /\ said[c] = x \o Request(task[c]) /\ task[c].do \in Commands
        /\ Unserved(c) \/ Served(c)
        /\ report[c] = NoReport /\ seen[c] = 2
    BY <1>0, <2>0 DEF ClientOK, Asking
  <2>2. ~Served(c)
    BY <1>0 DEF Served, ServedBy
  <2>3. did[c] = <<>> /\ answers[c] = <<LetIn>> /\ CmdFrom(said[c], p[c], Len(x), taken[c])
    BY <2>1, <2>2 DEF Unserved
  <2>4. /\ x \in Text /\ Len(x) \in Nat /\ task[c] \in Roles /\ FitsIn(task[c].seconds, 4)
    BY <1>0, SentText, RolesAre
  <2>5. Says(stm[c], said[c], p[c], Len(x), taken[c])
    BY <2>3 DEF Says
  <2> HIDE DEF x
  <2>6. PICK q, k : ReadTo(c, n, Len(x), q, k)
    BY <1>0, <2>4, <2>5, ReadGoes
  <2>7. q \in Parsers /\ k \in 0 .. n /\ (~Over(q) => k = n)
    BY <2>6 DEF ReadTo
  <2>8. /\ CmdFrom(said[c], q, Len(x), taken[c] + k) /\ CmdRead(c, q)
        /\ taken'[c] = taken[c] + n /\ world' = world
    BY <2>6 DEF ReadTo, Says
  <2>9. CASE ~Over(q)
    <3>1. /\ p'[c] = q /\ stm'[c] = "CMD_READ" /\ did'[c] = <<>> /\ answers'[c] = <<LetIn>>
      BY <1>0, <2>3, <2>8, <2>9 DEF CmdRead, KeepReading, Over, Inv, Types
    <3>2. CmdFrom(said[c], q, Len(x), taken'[c])
      BY <2>7, <2>8, <2>9
    <3>3. Unserved(c)'
      BY <1>0, <1>2, <3>1, <3>2 DEF Unserved, x
    <3> QED  BY <1>0, <1>2, <2>1, <3>3 DEF Asking, x
  <2>10. CASE Over(q)
    <3> DEFINE u == taken[c] + k
    <3>1. q.at = "DONE" /\ IsFor(task[c], q) /\ u = Len(said[c])
      <4> DEFINE s == said[c]  t == task[c]
      <4>1. CmdFrom(s, q, Len(x), u)
        BY <2>8
      <4>2. s = x \o Request(t) /\ t.do \in Commands
        BY <2>1
      <4>3. t \in Roles /\ FitsIn(t.seconds, 4)
        BY <2>4
      <4>4. s \in Text /\ x \in Text
        BY <1>0, <2>4
      <4> HIDE DEF u, s, t
      <4>5. q.at = "DONE" /\ IsFor(t, q) /\ u = Len(s)
        BY <2>10, <4>1, <4>2, <4>3, <4>4, RequestTaken, ZenonT(40)
      <4> QED  BY <4>5 DEF s, t
    <3>2. taken'[c] = Len(said[c])
      BY <1>0, <2>7, <2>8, <3>1
    <3>3. Execute(c, q)
      BY <2>8, <2>10, <3>1 DEF CmdRead
    <3> DEFINE turn == [q |-> q, users |-> users, world |-> world]  s == Answer(q)
    <3>4. did' = [did EXCEPT ![c] = Append(@, turn)] /\ Answering(c, q, s, "RESP_WRITE")
      BY <3>3 DEF Execute
    <3>5. PICK d : d = turn
      OBVIOUS
    <3>6. d.q = q /\ d.users = users /\ d.world = world /\ d \in Turns
      BY <1>0, <2>7, <3>5 DEF Turns, Inv, Types
    <3>7. s = AnswerFor(d.q, d.users, d.world)
      BY <3>6, AnswerAtOnce
    <3> HIDE DEF turn, s
    <3>8. did'[c] = <<d>> /\ answers'[c] = <<LetIn, s>> /\ stm'[c] = "RESP_WRITE"
      <4>1. did'[c] = Append(<<>>, d) /\ answers'[c] = Append(<<LetIn>>, s) /\ stm'[c] = "RESP_WRITE"
        BY <1>0, <2>3, <3>4, <3>5 DEF Answering, Goes, Inv, Types
      <4>2. Append(<<>>, d) = <<d>>
        OBVIOUS
      <4>3. Append(<<LetIn>>, s) = <<LetIn, s>>
        BY OneMoreElement
      <4> QED  BY <4>1, <4>2, <4>3
    <3>9. ServedBy(c, d)'
      BY <1>0, <1>2, <3>1, <3>2, <3>6, <3>7, <3>8 DEF ServedBy
    <3>10. Served(c)'
      BY <3>9 DEF Served
    <3> QED  BY <1>0, <1>2, <2>1, <3>10 DEF Asking, x
  <2> QED  BY <2>9, <2>10
<1> QED  BY <1>4, <1>5, <1>6 DEF ClientOK

(* Both read handlers.                                                     *)
LEMMA ReadingKeeps ==
    ASSUME IInv, Clients, UNCHANGED clientVars, NEW c \in Peers, NEW n \in 1 .. ReadSize, Read(c, n)
    PROVE  Clients'
<1>0. UNCHANGED <<task, cpc, seen, report>> /\ Inv
  BY DEF clientVars, IInv
<1>1. ClientOK(c)'
  <2>1. stm[c] \in ReadStates
    BY DEF Read
  <2> QED  BY <2>1, HelloKeeps, CommandKeeps DEF ReadStates
<1>2. ASSUME NEW d \in Peers, d # c PROVE ClientOK(d)'
  <2>1. Steady(d)
    BY <1>0, <1>2, ReadElsewhere DEF Steady
  <2> QED  BY <2>1, SteadyKeeps DEF Clients
<1> QED  BY <1>0, <1>1, <1>2 DEF Clients

(* Every step of the peers and the server.                                 *)
LEMMA EveryStepKeeps == ShortNames /\ IInv /\ Clients /\ [ClientNext]_allVars => Clients'
<1> SUFFICES ASSUME ShortNames, IInv, Clients, [ClientNext]_allVars PROVE Clients'
  OBVIOUS
<1>0. Inv
  BY DEF IInv
<1>1. ASSUME NEW c \in Peers, Client(c) PROVE Clients'
  BY <1>1, DialKeeps, AuthenticateKeeps, AnswerKeeps, ByeKeeps, HungUpKeeps DEF Client
<1>2. ASSUME NEW c \in Peers, Stranger(c) PROVE Clients'
  <2>1. /\ task[c].do = "speak" /\ UNCHANGED clientVars
        /\ Connect(c, task[c].words) \/ Finish(c)
    BY <1>2 DEF Stranger
  <2> QED  BY <1>0, <2>1, StrangerConnects, QuietSteps
<1>3. ASSUME NEW c \in Peers, Browses(c) PROVE Clients'
  BY <1>0, <1>3, QuietSteps DEF Browses
<1>4. ASSUME NEW c \in Peers, Server(c) PROVE Clients'
  <2>1. Session(c) /\ UNCHANGED clientVars
    BY <1>4 DEF Server
  <2>2. CASE Accept(c) \/ ReadEnd(c)
    BY <1>0, <2>1, <2>2, QuietSteps
  <2>3. ASSUME NEW n \in 1 .. ReadSize, Read(c, n) PROVE Clients'
    BY <2>1, <2>3, ReadingKeeps
  <2>4. ASSUME NEW n \in 1 .. Len(wbuf[c]), Write(c, n) PROVE Clients'
    BY <1>0, <2>1, <2>4, SendingKeeps
  <2> QED  BY <2>1, <2>2, <2>3, <2>4 DEF Session
<1>5. ASSUME NEW c \in Peers, Failure(c) PROVE Clients'
  BY <1>0, <1>5, QuietSteps DEF Failure
<1>6. CASE BeginShutdown /\ UNCHANGED clientVars
  <2>1. CASE Peers # {}
    <3>1. PICK c \in Peers : TRUE
      BY <2>1
    <3> QED  BY <1>0, <1>6, QuietSteps
  <2>2. CASE Peers = {}
    BY <1>6, <2>2 DEF Clients, clientVars
  <2> QED  BY <2>1, <2>2
<1>7. CASE UNCHANGED allVars
  <2>1. UNCHANGED vars /\ UNCHANGED clientVars
    BY <1>7 DEF allVars
  <2>2. CASE Peers # {}
    <3>1. PICK c \in Peers : TRUE
      BY <2>2
    <3> QED  BY <1>0, <2>1, QuietSteps
  <2>3. CASE Peers = {}
    BY <2>1, <2>3 DEF Clients, clientVars
  <2> QED  BY <2>2, <2>3
<1> QED  BY <1>1, <1>2, <1>3, <1>4, <1>5, <1>6, <1>7 DEF ClientNext, ClientsEnded

(* Whoever was not served is refused.                                      *)
LEMMA ClientsReport == Clients => ReportIsTrue
<1> SUFFICES ASSUME Clients, NEW c \in Peers
             PROVE  /\ report[c] = GaveUp /\ Usable(task[c]) /\ c \notin failed => did[c] = <<>>
                    /\ report[c].told => did[c] # <<>> /\ TrueOf(task[c], report[c], did[c][1])
  BY DEF ReportIsTrue
<1> QED  BY DEF Clients, ClientOK, Reported, Refused

(* What the client prints is what was done for it: the table, the counters *)
(* and the log of the moment its command was executed; and unless a call   *)
(* failed, one that gave up was not served.  A name of more than 255 bytes *)
(* is the exception: the client sends the beginning of it.                 *)
THEOREM ReportsAreTrue ==
    ASSUME ShortNames
    PROVE  ClientSpec => []ReportIsTrue
<1>1. ClientInit => Clients
  BY ClientsStart
<1>2. IInv /\ Clients /\ [ClientNext]_allVars => Clients'
  BY EveryStepKeeps
<1>3. Clients => ReportIsTrue
  BY ClientsReport
<1> QED  BY <1>1, <1>2, <1>3, SessionsInvariant, PTL DEF ClientSpec

-----------------------------------------------------------------------------
(* The table as a set of accounts *)

(* The -u options name distinct users.                                     *)
DistinctOptions ==
    \A line \in CommandLines : \A i, j \in 1 .. Len(line) : line[i].name = line[j].name => i = j

(* No name has two slots.                                                  *)
Apart(t) == \A i, j \in T!InUse(t) : t[i].name = t[j].name => i = j

(* A table is kept, or a free slot takes the new account.                  *)
LEMMA AccountAdded ==
    ASSUME NEW t \in T!Tables, Apart(t), NEW a \in T!Accounts
    PROVE  /\ Apart(T!Added(t, a))
           /\ T!Named(t, a.name) # {} \/ T!InUse(t) = T!Slots => T!Added(t, a) = t
           /\ ~(T!Named(t, a.name) # {} \/ T!InUse(t) = T!Slots) =>
                 /\ T!UsersOf(T!Added(t, a)) = T!UsersOf(t) \cup {a}
                 /\ a \notin T!UsersOf(t)
<1>1. CASE T!Named(t, a.name) # {} \/ T!InUse(t) = T!Slots
  BY <1>1 DEF T!Added
<1>2. CASE T!Named(t, a.name) = {} /\ T!InUse(t) # T!Slots
  <2> DEFINE u == T!Added(t, a)
  <2>1. PICK i \in T!Slots \ T!InUse(t) : u = [t EXCEPT ![i] = a]
    <3>1. T!Slots \ T!InUse(t) \in SUBSET Nat /\ T!Slots \ T!InUse(t) # {}
      BY <1>2, UsersAssumption DEF T!Slots, T!InUse, Byte
    <3>2. T!First(T!Slots \ T!InUse(t)) \in T!Slots \ T!InUse(t)
      BY <3>1, FirstIsMember
    <3> QED  BY <1>2, <3>2 DEF T!Added
  <2> HIDE DEF u
  <2>2. u[i] = a /\ \A j \in T!InUse(t) : u[j] = t[j] /\ t[j].name # a.name /\ t[j] # a
    BY <1>2, <2>1 DEF T!InUse, T!Named, T!Tables
  <2>3. T!InUse(u) = T!InUse(t) \cup {i}
    BY <2>1, UsersAssumption DEF T!InUse, T!Tables
  <2>4. Apart(u)
    BY <2>2, <2>3 DEF Apart
  <2>5. T!UsersOf(u) = T!UsersOf(t) \cup {a} /\ a \notin T!UsersOf(t)
    BY <2>2, <2>3 DEF T!UsersOf
  <2> QED  BY <1>2, <2>4, <2>5 DEF u
<1> QED  BY <1>1, <1>2

(* A deletion takes the only account of that name.                         *)
LEMMA AccountDeleted ==
    ASSUME NEW t \in T!Tables, Apart(t), NEW n
    PROVE  /\ Apart(T!Deleted(t, n))
           /\ T!Named(t, n) = {} => T!Deleted(t, n) = t
           /\ T!Named(t, n) # {} =>
                 \E a \in T!UsersOf(t) :
                    /\ a.name = n /\ T!UsersOf(T!Deleted(t, n)) = T!UsersOf(t) \ {a}
                    /\ {b \in T!UsersOf(t) : b.name = n} = {a}
<1>1. CASE T!Named(t, n) = {}
  BY <1>1 DEF T!Deleted
<1>2. CASE T!Named(t, n) # {}
  <2> DEFINE u == T!Deleted(t, n)
  <2>1. PICK i \in T!Named(t, n) : u = [t EXCEPT ![i] = NoUser]
    <3>1. T!Named(t, n) \in SUBSET Nat
      BY UsersAssumption DEF T!Named, T!InUse, T!Slots, Byte
    <3>2. T!First(T!Named(t, n)) \in T!Named(t, n)
      BY <1>2, <3>1, FirstIsMember
    <3> QED  BY <1>2, <3>2 DEF T!Deleted
  <2> HIDE DEF u
  <2>2. i \in T!InUse(t) /\ t[i].name = n
    BY <2>1 DEF T!Named
  <2>3. T!InUse(u) = T!InUse(t) \ {i} /\ \A j \in T!InUse(u) : u[j] = t[j]
    BY <2>1, <2>2 DEF T!InUse, T!Tables
  <2>4. \A j \in T!InUse(u) : t[j].name # n
    BY <2>2, <2>3 DEF Apart
  <2>5. Apart(u)
    BY <2>3 DEF Apart
  <2>6. T!UsersOf(u) = T!UsersOf(t) \ {t[i]}
    BY <2>2, <2>3, <2>4 DEF T!UsersOf
  <2>7. {b \in T!UsersOf(t) : b.name = n} = {t[i]}
    BY <2>2, <2>3, <2>4 DEF T!UsersOf
  <2> QED  BY <1>2, <2>2, <2>5, <2>6, <2>7 DEF u, T!UsersOf
<1> QED  BY <1>1, <1>2

(* As many accounts as slots in use.                                       *)
LEMMA AccountsCounted ==
    ASSUME NEW t \in T!Tables, Apart(t)
    PROVE  /\ Cardinality(T!UsersOf(t)) = MaxUsers <=> T!InUse(t) = T!Slots
           /\ Cardinality(T!UsersOf(t)) \in Nat /\ Cardinality(T!UsersOf(t)) <= MaxUsers
<1> DEFINE I == T!InUse(t)  S == T!UsersOf(t)  f == [i \in I |-> t[i]]
<1>1. MaxUsers \in Nat
  BY UsersAssumption DEF Byte
<1>2. IsFiniteSet(T!Slots) /\ Cardinality(T!Slots) = MaxUsers
  <2>1. /\ IsFiniteSet(1 .. MaxUsers)
        /\ Cardinality(1 .. MaxUsers) = IF 1 > MaxUsers THEN 0 ELSE MaxUsers - 1 + 1
    <3>1. 1 \in Int /\ MaxUsers \in Int
      BY <1>1
    <3> QED  BY <3>1, FS_Interval
  <2>2. (IF 1 > MaxUsers THEN 0 ELSE MaxUsers - 1 + 1) = MaxUsers
    BY <1>1
  <2> QED  BY <2>1, <2>2 DEF T!Slots
<1>3. I \in SUBSET T!Slots
  BY DEF T!InUse
<1>4. IsFiniteSet(I) /\ Cardinality(I) <= MaxUsers /\ (Cardinality(I) = MaxUsers => T!Slots = I)
  BY <1>2, <1>3, FS_Subset
<1>5. f \in Surjection(I, S) /\ f \in Injection(I, S)
  <2>1. f \in [I -> S]
    BY DEF T!UsersOf
  <2>2. \A x \in S : \E i \in I : f[i] = x
    BY DEF T!UsersOf
  <2>3. \A i, j \in I : f[i] = f[j] => i = j
    BY DEF Apart
  <2> HIDE DEF f, I, S
  <2>4. f \in Surjection(I, S)
    BY <2>1, <2>2 DEF Surjection
  <2>5. f \in Injection(I, S)
    BY <2>1, <2>3 DEF Injection, IsInjective
  <2> QED  BY <2>4, <2>5
<1> HIDE DEF f, I, S
<1>6. Cardinality(S) = Cardinality(I) /\ IsFiniteSet(S)
  BY <1>4, <1>5, FS_Surjection
<1>7. Cardinality(S) \in Nat
  BY <1>6, FS_CardinalityType
<1> QED  BY <1>2, <1>4, <1>6, <1>7 DEF I, S

(* The table that socks5_init() loads.                                     *)
LEMMA AccountsLoaded ==
    ASSUME NEW line \in CommandLines
    PROVE  /\ T!UsersOf(T!Loaded(line)) = ToSet(line)
           /\ DistinctOptions => Apart(T!Loaded(line))
<1>1. line \in Seq(T!Accounts) /\ Len(line) <= MaxUsers /\ Len(line) \in Nat /\ MaxUsers \in Nat
  BY UsersAssumption, LenProperties DEF Byte
<1>2. \A i \in 1 .. Len(line) : line[i] \in T!Accounts
  BY <1>1, ElementOfSeq
<1>3. T!InUse(T!Loaded(line)) = 1 .. Len(line)
  <2>1. 1 .. Len(line) \subseteq T!Slots
    BY <1>1 DEF T!Slots
  <2>2. \A i \in 1 .. Len(line) : line[i] # NoUser
    BY <1>2, UsersAssumption
  <2>3. \A i \in T!Slots : i <= Len(line) <=> i \in 1 .. Len(line)
    BY <1>1 DEF T!Slots
  <2> QED  BY <2>1, <2>2, <2>3 DEF T!InUse, T!Loaded
<1>4. \A i \in 1 .. Len(line) : T!Loaded(line)[i] = line[i]
  BY <1>1 DEF T!Loaded, T!Slots
<1>5. DOMAIN line = 1 .. Len(line)
  BY <1>1
<1>6. T!UsersOf(T!Loaded(line)) = ToSet(line)
  BY <1>3, <1>4, <1>5 DEF T!UsersOf, ToSet
<1> QED  BY <1>3, <1>4, <1>6 DEF Apart, DistinctOptions

(* The instance counts as this module does.                                *)
LEMMA SameCount == \A S : Remote!Cardinality(S) = Cardinality(S)
BY DEF Cardinality, Remote!Cardinality

-----------------------------------------------------------------------------
(* What the client is told of its command *)

(* No password of a new account is longer than the client can send.        *)
ShortPasswords ==
    \A cast \in Casts : \A c \in Peers :
        cast[c].do = "add-user" => Len(cast[c].account.pass) <= 255

(* Then the account of the command line is the one that is added.          *)
LEMMA AccountArrives ==
    ASSUME NEW k \in Roles, k.do = "add-user", NameSent(k), Len(k.account.pass) <= 255,
           NEW q, IsFor(k, q)
    PROVE  Account(q) = k.account /\ k.account \in T!Accounts
<1>1. CString(q.uname) = k.account.name
  BY NameArrives
<1>2. k.account.pass \in Seq(1 .. 255) /\ k.account.pass \in Text
  BY ArgumentsAreText DEF Roles, Text
<1>3. q.passwd = k.account.pass
  BY <1>2, StringIsSized DEF IsFor
<1>4. CString(q.passwd) = k.account.pass
  BY <1>2, <1>3, ArgumentWhole
<1>5. k.account = [name |-> k.account.name, pass |-> k.account.pass]
  BY DEF Roles
<1>6. k.account.name \in CStrings /\ k.account.pass \in CStrings
  BY DEF Roles, CStrings, NameSent
<1> QED  BY <1>1, <1>4, <1>5, <1>6 DEF Account, T!Accounts

(* The first byte of an answer is its status.                              *)
LEMMA StatusFirst ==
    ASSUME NEW q, NEW t \in T!Tables, NEW w \in Worlds,
           q.cmd \in {ListUsers, GetStats, SetTimeout, GetLog}
    PROVE  Begins(AnswerFor(q, t, w), OK)
<1>0. OK \in Byte /\ Begins(<<OK>>, OK)
  BY ByteBegins DEF OK, Byte
<1>1. CASE q.cmd = SetTimeout
  BY <1>0, <1>1, AnswerForms
<1>2. CASE q.cmd = ListUsers
  <2> DEFINE o == <<OK>>  a == BigEndian(Len(Listed(t)), 1)  b == Sizeds(Listed(t), 1)
  <2>1. a \in Text /\ b \in Text
    <3>1. Listed(t) \in Seq(Text) /\ FitsIn(Len(Listed(t)), 1)
      BY ListedTexts
    <3>2. Len(Listed(t)) \in Nat
      BY <3>1, LenProperties
    <3> QED  BY <3>1, <3>2, BigEndianBytes, SizedsBytes
  <2>2. AnswerFor(q, t, w) = (o \o a) \o b
    BY <1>2, AnswerForms
  <2>3. Begins(o, OK)
    BY <1>0
  <2> HIDE DEF o, a, b
  <2>4. Begins(o \o a, OK)
    BY <2>1, <2>3, HeadStays
  <2> QED  BY <2>1, <2>2, <2>4, HeadStays
<1>3. CASE q.cmd = GetLog
  <2> DEFINE o == <<OK>>  a == BigEndian(Len(w.log), 2)  b == Sizeds(w.log, 2)
  <2>1. a \in Text /\ b \in Text
    <3>1. w.log \in Seq(Text)
      BY WorldsAssumption DEF Text
    <3>2. Len(w.log) \in Nat
      BY <3>1, LenProperties
    <3> QED  BY <3>1, <3>2, BigEndianBytes, SizedsBytes
  <2>2. AnswerFor(q, t, w) = (o \o a) \o b
    BY <1>3, AnswerForms DEF Log
  <2>3. Begins(o, OK)
    BY <1>0
  <2> HIDE DEF o, a, b
  <2>4. Begins(o \o a, OK)
    BY <2>1, <2>3, HeadStays
  <2> QED  BY <2>1, <2>2, <2>4, HeadStays
<1>4. CASE q.cmd = GetStats
  <2> DEFINE o == <<OK>>  a == BigEndian(w.hist, 8)  b == BigEndian(w.curr, 4)
             d == BigEndian(w.sent, 8)  e == BigEndian(w.recv, 8)
  <2>1. a \in Text /\ b \in Text /\ d \in Text /\ e \in Text
    <3>1. w.hist \in Nat /\ w.curr \in Nat /\ w.sent \in Nat /\ w.recv \in Nat
      BY WorldsAssumption DEF FitsIn
    <3> QED  BY <3>1, BigEndianBytes
  <2>2. AnswerFor(q, t, w) = (((o \o a) \o b) \o d) \o e
    BY <1>4, AnswerForms DEF Stats
  <2>3. Begins(o, OK)
    BY <1>0
  <2> HIDE DEF o, a, b, d, e
  <2>4. Begins(o \o a, OK)
    BY <2>1, <2>3, HeadStays
  <2>5. Begins((o \o a) \o b, OK)
    BY <2>1, <2>4, HeadStays
  <2>6. Begins(((o \o a) \o b) \o d, OK)
    BY <2>1, <2>5, HeadStays
  <2> QED  BY <2>1, <2>2, <2>6, HeadStays
<1> QED  BY <1>1, <1>2, <1>3, <1>4

(* The two lists that are answered.                                        *)
LEMMA AnswersList ==
    ASSUME NEW q, NEW t \in T!Tables, NEW w \in Worlds
    PROVE  /\ q.cmd = ListUsers => IsListAnswer(AnswerFor(q, t, w), Listed(t), 1, 2, 1)
           /\ q.cmd = GetLog => IsListAnswer(AnswerFor(q, t, w), w.log, 2, 3, 2)
<1>1. ASSUME q.cmd = ListUsers PROVE IsListAnswer(AnswerFor(q, t, w), Listed(t), 1, 2, 1)
  <2> DEFINE ss == Listed(t)
  <2>1. AnswerFor(q, t, w) = (<<OK>> \o BigEndian(Len(ss), 1)) \o Sizeds(ss, 1)
    BY <1>1, AnswerForms
  <2>2. /\ ss \in Seq(Text) /\ FitsIn(Len(ss), 1)
        /\ \A i \in 1 .. Len(ss) : Len(ss[i]) <= 511 /\ FitsIn(Len(ss[i]), 1)
    BY ListedTexts
  <2>3. 2 = 1 + 1 /\ 1 \in Nat
    OBVIOUS
  <2> HIDE DEF ss
  <2>4. IsListAnswer(AnswerFor(q, t, w), ss, 1, 2, 1)
    BY <2>1, <2>2, <2>3 DEF IsListAnswer
  <2> QED  BY <2>4 DEF ss
<1>2. ASSUME q.cmd = GetLog PROVE IsListAnswer(AnswerFor(q, t, w), w.log, 2, 3, 2)
  <2> DEFINE ss == w.log
  <2>1. AnswerFor(q, t, w) = (<<OK>> \o BigEndian(Len(ss), 2)) \o Sizeds(ss, 2)
    BY <1>2, AnswerForms DEF Log
  <2>2. ss \in Seq(Text) /\ FitsIn(Len(ss), 2) /\ \A i \in DOMAIN ss : Len(ss[i]) <= 511
    BY WorldsAssumption DEF Text
  <2>3. 3 = 2 + 1 /\ 2 \in Nat
    OBVIOUS
  <2> HIDE DEF ss
  <2>4. ASSUME NEW i \in 1 .. Len(ss) PROVE Len(ss[i]) <= 511 /\ FitsIn(Len(ss[i]), 2)
    <3>1. ss[i] \in Text /\ Len(ss[i]) <= 511
      BY <2>2
    <3>2. Len(ss[i]) \in Nat
      BY <3>1, LenProperties DEF Text
    <3> QED  BY <3>1, <3>2, SmallFits
  <2>5. IsListAnswer(AnswerFor(q, t, w), ss, 2, 3, 2)
    BY <2>1, <2>2, <2>3, <2>4 DEF IsListAnswer
  <2> QED  BY <2>5 DEF ss
<1> QED  BY <1>1, <1>2

(* The status that the client reads is the one that was written.           *)
LEMMA StatusArrives ==
    ASSUME NEW k \in Roles, k.do \in Commands, NEW d \in Turns, IsFor(k, d.q),
           NEW s \in Text, NEW m \in Text, s \o m = AnswerFor(d.q, d.users, d.world),
           AnswerRead(k, s).enough
    PROVE  AnswerRead(k, s).status = AnswerFor(d.q, d.users, d.world)[1]
<1> DEFINE q == d.q  t == d.users  w == d.world  A == AnswerFor(q, t, w)
<1>1. q \in Parsers /\ t \in T!Tables /\ w \in Worlds /\ q.cmd = Code(k)
  BY DEF Turns, IsFor
<1>2. s \o m = A
  OBVIOUS
<1>3. CASE k.do \in {"add-user", "del-user", "set-timeout"}
  <2>1. PICK b \in Byte : A = <<b>>
    <3>1. q.cmd \in {AddUser, DelUser, SetTimeout}
      BY <1>1, <1>3, CodesDiffer
    <3>2. AddStatus(t, Account(q)) \in Byte /\ DelStatus(t, CString(q.uname)) \in Byte /\ OK \in Byte
      BY DEF AddStatus, DelStatus, Byte, OK, NotFound, Full
    <3> QED  BY <3>1, <3>2, AnswerForms
  <2> HIDE DEF A
  <2>2. s \o m = <<b>>
    BY <1>2, <2>1
  <2>3. AnswerRead(k, s).status = b
    BY <1>3, <2>2, StatusRead
  <2> QED  BY <2>1, <2>3 DEF A
<1>4. CASE k.do \in {"users", "log", "stats"}
  <2>1. q.cmd \in {ListUsers, GetStats, GetLog}
    BY <1>1, <1>4, CodesDiffer
  <2>2. A[1] = OK
    BY <1>1, <2>1, StatusFirst DEF Begins
  <2> HIDE DEF A, q, t, w
  <2>3. ASSUME s # <<>> PROVE s[1] = OK
    <3>1. Len(s) \in Nat /\ Len(s) # 0
      BY <2>3, LenProperties, EmptySeq DEF Text
    <3>2. 1 \in 1 .. Len(s)
      BY <3>1
    <3>3. (s \o m)[1] = s[1]
      BY <3>2, JoinedBytes
    <3> QED  BY <1>2, <2>2, <3>3
  <2>4. AnswerRead(k, s).status = OK
    <3>1. CASE k.do = "stats"
      <4>1. AnswerRead(k, s) = IF Len(s) < 29 THEN More ELSE Enough(29, s[1], Numbers(s))
        BY <3>1 DEF AnswerRead
      <4>2. s # <<>> /\ AnswerRead(k, s).status = s[1]
        BY <4>1 DEF More, Enough
      <4> QED  BY <2>3, <4>2
    <3>2. CASE k.do = "users"
      <4>1. IsListAnswer(s \o m, Listed(t), 1, 2, 1)
        <5>1. q.cmd = ListUsers
          BY <1>1, <3>2, CodesDiffer
        <5> QED  BY <1>1, <1>2, <5>1, AnswersList DEF A
      <4>2. AnswerRead(k, s) = ListRead(s, 2, 1)
        BY <3>2 DEF AnswerRead
      <4>3. ListReads(ListRead(s, 2, 1), Listed(t), m)
        BY <4>1, ListAnswer
      <4> QED  BY <4>2, <4>3 DEF ListReads
    <3>3. CASE k.do = "log"
      <4>1. IsListAnswer(s \o m, w.log, 2, 3, 2)
        <5>1. q.cmd = GetLog
          BY <1>1, <3>3, CodesDiffer
        <5> QED  BY <1>1, <1>2, <5>1, AnswersList DEF A
      <4>2. AnswerRead(k, s) = ListRead(s, 3, 2)
        BY <3>3 DEF AnswerRead
      <4>3. ListReads(ListRead(s, 3, 2), w.log, m)
        BY <4>1, ListAnswer
      <4> QED  BY <4>2, <4>3 DEF ListReads
    <3> QED  BY <1>4, <3>1, <3>2, <3>3
  <2> QED  BY <2>2, <2>4 DEF A, q, t, w
<1> QED  BY <1>3, <1>4 DEF Commands

-----------------------------------------------------------------------------
(* What the commands are seen to do *)

(* A client prints at the end, and once.                                   *)
Printed(c) ==
    \/ report[c].told \/ report[c] = GaveUp
    \/ /\ report[c] = NoReport
       /\ IsClient(task[c]) => cpc[c] \in {"start", "auth", "answer"}

(* What the refinement needs besides the invariants of the sessions and    *)
(* the clients.                                                            *)
Seen == Apart(users) /\ \A c \in Peers : Printed(c)

(* The accounts of the command line, and nothing printed.                  *)
LEMMA SeenAtFirst == DistinctOptions /\ ClientInit => Seen
<1> SUFFICES ASSUME DistinctOptions, ClientInit PROVE Seen
  OBVIOUS
<1>1. PICK line \in CommandLines : users = T!Loaded(line)
  BY DEF ClientInit, Init, T!TableInit
<1>2. Apart(users)
  BY <1>1, AccountsLoaded
<1>3. ASSUME NEW c \in Peers PROVE Printed(c)
  BY DEF ClientInit, Printed
<1> QED  BY <1>2, <1>3 DEF Seen

(* The name and the password that a handler works with.                    *)
LEMMA AccountIsOne ==
    ASSUME NEW q \in Parsers, CmdKnows(q), q.at = "DONE", q.cmd = AddUser
    PROVE  Account(q) \in T!Accounts
<1>1. Counts255(q.uname, 0) /\ Counts255(q.passwd, q.left) /\ q.left = 0
  BY DEF CmdKnows
<1>2. /\ q.uname \in Text /\ q.passwd \in Text
      /\ Len(q.uname) <= 255 /\ Len(q.passwd) <= 255
  BY <1>1, LenProperties DEF Counts255, Parsers, Text
<1>3. CString(q.uname) \in CStrings /\ CString(q.passwd) \in CStrings
  BY <1>2, CStringEnds
<1> QED  BY <1>3 DEF Account, T!Accounts

(* What one handler does to the table.                                     *)
TableStep ==
    \/ users' = users
    \/ \E a \in T!Accounts : users' = T!Added(users, a)
    \/ \E n : users' = T!Deleted(users, n)

(* Whatever a session executes.                                            *)
LEMMA ReadSteps ==
    ASSUME Inv, NEW c \in Peers, NEW n \in 1 .. ReadSize, Read(c, n)
    PROVE  TableStep
<1>0. /\ said[c] \in Text /\ taken[c] \in Nat /\ rbuf[c] \in Text /\ PeerOK(c)
      /\ stm[c] \in ReadStates
  BY DEF Inv, Types, Read
<1>1. rbuf[c] = <<>> /\ Used(c) = taken[c]
  <2>1. rbuf[c] = <<>>
    BY <1>0 DEF PeerOK, Stocked
  <2>2. Len(rbuf[c]) = 0 /\ taken[c] - 0 = taken[c]
    BY <1>0, <2>1
  <2> QED  BY <2>1, <2>2 DEF Used
<1>2. CASE stm[c] = "AUTH_READ"
  <2>1. PICK q : AuthRead(c, q)
    BY <1>2 DEF Read
  <2>2. users' = users
    BY <2>1 DEF AuthRead, KeepReading, serverVars
  <2> QED  BY <2>2 DEF TableStep
<1>3. CASE stm[c] = "CMD_READ"
  <2>1. CmdSays(said[c], p[c], taken[c])
    BY <1>0, <1>1, <1>3 DEF PeerOK, Heard
  <2>2. PICK a \in Nat : CmdFrom(said[c], p[c], a, taken[c])
    BY <2>1 DEF CmdSays
  <2>3. Says(stm[c], said[c], p[c], a, taken[c])
    BY <1>3, <2>2 DEF Says
  <2>4. PICK q, k : ReadTo(c, n, a, q, k)
    BY <2>3, ReadGoes
  <2>5. q \in Parsers /\ CmdKnows(q) /\ CmdRead(c, q)
    BY <1>3, <2>4 DEF ReadTo, Says, CmdFrom
  <2>6. CASE q.at # "DONE"
    BY <2>5, <2>6 DEF CmdRead, KeepReading, serverVars, TableStep
  <2>7. CASE q.at = "DONE"
    <3>1. users' = CASE q.cmd = AddUser -> T!Added(users, Account(q))
                     [] q.cmd = DelUser -> T!Deleted(users, CString(q.uname))
                     [] OTHER           -> users
      BY <2>5, <2>7 DEF CmdRead, Over, Execute
    <3>2. q.cmd = AddUser => Account(q) \in T!Accounts
      BY <2>5, <2>7, AccountIsOne
    <3> QED  BY <3>1, <3>2 DEF TableStep, AddUser, DelUser
  <2> QED  BY <2>6, <2>7
<1> QED  BY <1>0, <1>2, <1>3 DEF ReadStates

(* Every step of the peers and the server.                                 *)
LEMMA StepsTable ==
    ASSUME Inv, [ClientNext]_allVars
    PROVE  TableStep
<1>1. ASSUME NEW c \in Peers, Client(c) PROVE users' = users
  <2>1. Dial(c) \/ Authenticate(c) \/ ReadAnswer(c) \/ ReadBye(c) \/ HungUp(c)
    BY <1>1 DEF Client
  <2>2. Dial(c) => users' = users
    BY DEF Dial, Connect, vars, serverVars
  <2>3. Authenticate(c) => users' = users
    BY DEF Authenticate, Sends, Leaves, Finish, serverVars
  <2>4. ReadAnswer(c) => users' = users
    BY DEF ReadAnswer, Sends, serverVars
  <2>5. ReadBye(c) \/ HungUp(c) => users' = users
    BY DEF ReadBye, HungUp, Leaves, Finish, serverVars
  <2> QED  BY <2>1, <2>2, <2>3, <2>4, <2>5
<1>2. ASSUME NEW c \in Peers, Stranger(c) \/ Browses(c) \/ Failure(c) PROVE users' = users
  BY <1>2 DEF Stranger, Browses, Failure, Connect, Finish, Traffic, Fail, CloseSession, serverVars
<1>3. ASSUME NEW c \in Peers, Server(c) PROVE TableStep
  <2>1. CASE Accept(c) \/ ReadEnd(c)
    BY <2>1 DEF Accept, ReadEnd, CloseSession, serverVars, TableStep
  <2>2. ASSUME NEW n \in 1 .. ReadSize, Read(c, n) PROVE TableStep
    BY <2>2, ReadSteps
  <2>3. ASSUME NEW n \in 1 .. Len(wbuf[c]), Write(c, n) PROVE TableStep
    BY <2>3 DEF Write, serverVars, TableStep
  <2> QED  BY <1>3, <2>1, <2>2, <2>3 DEF Server, Session
<1>4. BeginShutdown \/ UNCHANGED allVars => users' = users
  BY DEF BeginShutdown, allVars, vars, serverVars
<1> QED  BY <1>1, <1>2, <1>3, <1>4 DEF ClientNext, ClientsEnded, TableStep

(* The accounts stay apart, and a client prints when it leaves.            *)
LEMMA SeenKeeps == IInv /\ Clients /\ Seen /\ [ClientNext]_allVars => Seen'
<1> SUFFICES ASSUME IInv, Clients, Seen, [ClientNext]_allVars PROVE Seen'
  OBVIOUS
<1>0. Inv /\ ClientTypes /\ DOMAIN seen = Peers /\ DOMAIN report = Peers
  BY DEF IInv, Clients
<1>1. Apart(users)'
  <2>1. users \in T!Tables /\ Apart(users)
    BY <1>0 DEF Inv, Types, Seen
  <2>2. TableStep
    BY <1>0, StepsTable
  <2>3. Apart(users')
    BY <2>1, <2>2, AccountAdded, AccountDeleted DEF TableStep
  <2> QED  BY <2>3 DEF Apart
<1>2. ASSUME NEW d \in Peers PROVE Printed(d)'
  <2>0. Printed(d) /\ ClientOK(d)
    BY DEF Seen, Clients
  <2>1. CASE UNCHANGED clientVars
    BY <2>0, <2>1 DEF Printed, clientVars
  <2>2. ASSUME NEW c \in Peers, Client(c) PROVE Printed(d)'
    <3>1. task' = task
      BY <2>2 DEF Client, Dial, Authenticate, ReadAnswer, ReadBye, HungUp
    <3>2. PICK to : Steps(c, to)
      BY <2>2 DEF Client, Dial, Authenticate, ReadAnswer, ReadBye, HungUp, Leaves
    <3>3. report' = report \/ \E r : Reports(c, r)
      BY <2>2 DEF Client, Dial, Authenticate, ReadAnswer, ReadBye, HungUp
    <3>4. CASE d # c
      <4>1. cpc'[d] = cpc[d] /\ report'[d] = report[d]
        BY <1>0, <3>2, <3>3, <3>4, StepsOn
      <4> QED  BY <2>0, <3>1, <4>1 DEF Printed
    <3>5. CASE d = c
      <4>1. CASE Dial(c)
        <5>1. \/ Steps(c, "auth") /\ report' = report
              \/ Reports(c, GaveUp)
          BY <4>1 DEF Dial
        <5>2. report[c] = NoReport
          BY <2>0, <3>5, <4>1 DEF Dial, ClientOK, Waiting
        <5>3. (cpc'[c] = "auth" /\ report'[c] = NoReport) \/ report'[c] = GaveUp
          BY <1>0, <3>2, <5>1, <5>2, StepsOn
        <5> QED  BY <3>5, <5>3 DEF Printed
      <4>2. CASE Authenticate(c)
        <5>1. \/ Steps(c, "answer") /\ report' = report
              \/ Reports(c, GaveUp)
          BY <4>2 DEF Authenticate
        <5>2. report[c] = NoReport
          BY <2>0, <3>5, <4>2 DEF Authenticate, ClientOK, Greeting
        <5>3. (cpc'[c] = "answer" /\ report'[c] = NoReport) \/ report'[c] = GaveUp
          BY <1>0, <3>2, <5>1, <5>2, StepsOn
        <5> QED  BY <3>5, <5>3 DEF Printed
      <4>3. CASE ReadAnswer(c)
        <5>1. PICK r : Reports(c, r) /\ r.told
          BY <4>3, NothingPrinted DEF ReadAnswer
        <5>2. report'[c] = r
          BY <1>0, <3>2, <5>1, StepsOn
        <5> QED  BY <3>5, <5>1, <5>2 DEF Printed
      <4>4. CASE ReadBye(c)
        <5>1. report' = report /\ cpc[c] = "bye"
          BY <4>4 DEF ReadBye
        <5>2. IsClient(task[c])
          BY <1>0, <5>1 DEF ClientTypes, Asks, IsClient
        <5> QED  BY <2>0, <3>5, <5>1, <5>2 DEF Printed
      <4>5. CASE HungUp(c)
        <5>1. Reports(c, IF cpc[c] = "bye" THEN report[c] ELSE GaveUp)
          BY <4>5 DEF HungUp
        <5>2. report'[c] = IF cpc[c] = "bye" THEN report[c] ELSE GaveUp
          BY <1>0, <3>2, <5>1, StepsOn
        <5>3. cpc[c] = "bye" => IsClient(task[c])
          BY <1>0 DEF ClientTypes, Asks, IsClient
        <5> QED  BY <2>0, <3>5, <5>2, <5>3 DEF Printed
      <4> QED  BY <2>2, <4>1, <4>2, <4>3, <4>4, <4>5 DEF Client
    <3> QED  BY <3>4, <3>5
  <2>3. UNCHANGED clientVars \/ \E c \in Peers : Client(c)
    BY DEF ClientNext, Stranger, Browses, Server, Failure, ClientsEnded, allVars
  <2> QED  BY <2>1, <2>2, <2>3
<1> QED  BY <1>1, <1>2 DEF Seen

-----------------------------------------------------------------------------
(* The refinement mapping *)

(* Nothing that the mapping shows of a peer changes.                       *)
Unseen(d) ==
    /\ report'[d] = report[d] /\ task'[d] = task[d]
    /\ \/ did'[d] = did[d] /\ (did[d] = <<>> \/ answers'[d] = answers[d])
       \/ report[d].told \/ ~IsClient(task[d])
       \/ report[d] = GaveUp /\ ~Usable(task[d])

(* Then its phase and its outcome stay.                                    *)
LEMMA UnseenStays ==
    ASSUME NEW d, Unseen(d)
    PROVE  Phase(d)' = Phase(d) /\ OutcomeOf(d)' = OutcomeOf(d)
<1>1. CASE did'[d] = did[d] /\ (did[d] = <<>> \/ answers'[d] = answers[d])
  <2>1. Phase(d)' = Phase(d)
    BY <1>1 DEF Phase, Unseen
  <2>2. OutcomeOf(d)' = OutcomeOf(d)
    BY <1>1 DEF OutcomeOf, Unseen
  <2> QED  BY <2>1, <2>2
<1>2. CASE report[d].told \/ ~IsClient(task[d]) \/ (report[d] = GaveUp /\ ~Usable(task[d]))
  <2>1. Phase(d)' = Phase(d)
    BY <1>2, NothingPrinted DEF Phase, Unseen
  <2>2. OutcomeOf(d)' = OutcomeOf(d)
    BY <1>2 DEF OutcomeOf, Unseen
  <2> QED  BY <2>1, <2>2
<1> QED  BY <1>1, <1>2 DEF Unseen

(* What the mapping shows when it shows nothing new.                       *)
LEMMA UnseenSteps ==
    ASSUME \A d \in Peers : Unseen(d), task' = task
    PROVE  /\ users' = users => UNCHANGED Remote!vars
           /\ UNCHANGED <<task, [c \in Peers |-> Phase(c)], [c \in Peers |-> OutcomeOf(c)]>>
<1>1. \A d \in Peers : Phase(d)' = Phase(d) /\ OutcomeOf(d)' = OutcomeOf(d)
  BY UnseenStays
<1>2. [c \in Peers |-> Phase(c)]' = [c \in Peers |-> Phase(c)]
  BY <1>1
<1>3. [c \in Peers |-> OutcomeOf(c)]' = [c \in Peers |-> OutcomeOf(c)]
  BY <1>1
<1>4. users' = users => T!UsersOf(users)' = T!UsersOf(users)
  OBVIOUS
<1> QED  BY <1>2, <1>3, <1>4 DEF Remote!vars

(* The initial states map to initial states.                               *)
LEMMA RemoteStarts == ClientInit => Remote!Init
<1> SUFFICES ASSUME ClientInit PROVE Remote!Init
  OBVIOUS
<1>1. PICK line \in CommandLines : users = T!Loaded(line)
  BY DEF ClientInit, Init, T!TableInit
<1>2. T!UsersOf(users) \in {ToSet(l) : l \in CommandLines}
  BY <1>1, AccountsLoaded
<1>3. task \in Casts
  BY DEF ClientInit
<1>4. ASSUME NEW c \in Peers
      PROVE  Phase(c) = "asked" /\ OutcomeOf(c) = [how |-> "unknown", names |-> {}]
  <2>1. report[c] = NoReport /\ did[c] = <<>>
    BY DEF ClientInit, Init
  <2> QED  BY <2>1, NothingPrinted DEF Phase, OutcomeOf
<1>5. [c \in Peers |-> Phase(c)] = [c \in Peers |-> "asked"]
  BY <1>4
<1>6. [c \in Peers |-> OutcomeOf(c)] = [c \in Peers |-> [how |-> "unknown", names |-> {}]]
  BY <1>4
<1> QED  BY <1>2, <1>3, <1>5, <1>6 DEF Remote!Init

(* Somebody else's command.                                                *)
LEMMA OthersStep ==
    ASSUME users \in T!Tables, Apart(users), TableStep, \A d \in Peers : Unseen(d), task' = task
    PROVE  [Remote!Next]_Remote!vars
<1> DEFINE S == T!UsersOf(users)
<1>1. UNCHANGED <<task, [c \in Peers |-> Phase(c)], [c \in Peers |-> OutcomeOf(c)]>>
  BY UnseenSteps
<1>2. CASE S' = S
  BY <1>1, <1>2 DEF Remote!vars
<1>3. ASSUME NEW a, S' = S \cup {a}, a \notin S, {b \in S : b.name = a.name} = {},
             Cardinality(S) < MaxUsers
      PROVE  Remote!Next
  <2>1. a \in S' \ S
    BY <1>3
  <2>2. Remote!Named(a.name) = {} /\ Remote!Cardinality(S) < MaxUsers
    BY <1>3, SameCount DEF Remote!Named
  <2>3. Remote!OthersChange
    BY <1>1, <1>3, <2>1, <2>2 DEF Remote!OthersChange
  <2> QED  BY <2>3 DEF Remote!Next
<1>4. ASSUME NEW a \in S, S' = S \ {a}
      PROVE  Remote!Next
  <2>1. Remote!OthersChange
    BY <1>1, <1>4 DEF Remote!OthersChange
  <2> QED  BY <2>1 DEF Remote!Next
<1>5. CASE users' = users
  BY <1>2, <1>5
<1>6. ASSUME NEW a \in T!Accounts, users' = T!Added(users, a)
      PROVE  [Remote!Next]_Remote!vars
  <2>1. CASE T!Named(users, a.name) # {} \/ T!InUse(users) = T!Slots
    BY <1>5, <1>6, <2>1, AccountAdded
  <2>2. CASE ~(T!Named(users, a.name) # {} \/ T!InUse(users) = T!Slots)
    <3>1. S' = S \cup {a} /\ a \notin S
      BY <1>6, <2>2, AccountAdded
    <3>2. {b \in S : b.name = a.name} = {}
      BY <2>2 DEF T!Named, T!UsersOf
    <3>3. Cardinality(S) < MaxUsers
      <4>1. MaxUsers \in Nat
        BY UsersAssumption DEF Byte
      <4> QED  BY <2>2, <4>1, AccountsCounted
    <3> QED  BY <1>3, <3>1, <3>2, <3>3
  <2> QED  BY <2>1, <2>2
<1>7. ASSUME NEW n, users' = T!Deleted(users, n)
      PROVE  [Remote!Next]_Remote!vars
  <2>1. CASE T!Named(users, n) = {}
    BY <1>5, <1>7, <2>1, AccountDeleted
  <2>2. CASE T!Named(users, n) # {}
    <3>1. PICK a \in S : S' = S \ {a}
      BY <1>7, <2>2, AccountDeleted
    <3> QED  BY <1>4, <3>1
  <2> QED  BY <2>1, <2>2
<1> QED  BY <1>5, <1>6, <1>7 DEF TableStep

-----------------------------------------------------------------------------
(* One command *)

(* The accounts of that name.                                              *)
NamedIn(S, n) == {a \in S : a.name = n}

(* The command k, of which its sender learns how, makes V of the accounts  *)
(* S.                                                                      *)
Does(k, S, V, how) ==
    \/ /\ k.do = "add-user"
       /\ \/ how = "taken" /\ NamedIn(S, k.account.name) # {} /\ V = S
          \/ /\ how = "full" /\ NamedIn(S, k.account.name) = {}
             /\ Cardinality(S) = MaxUsers /\ V = S
          \/ /\ how = "ok" /\ NamedIn(S, k.account.name) = {}
             /\ Cardinality(S) < MaxUsers /\ V = S \cup {k.account}
    \/ /\ k.do = "del-user"
       /\ \/ how = "missing" /\ NamedIn(S, k.account.name) = {} /\ V = S
          \/ /\ how = "ok" /\ NamedIn(S, k.account.name) # {}
             /\ V = S \ NamedIn(S, k.account.name)
    \/ /\ k.do \in {"users", "stats", "set-timeout", "log"}
       /\ how = "ok" /\ V = S

(* The table that exec_command() leaves.                                   *)
Executed(q, t) ==
    CASE q.cmd = AddUser -> T!Added(t, Account(q))
      [] q.cmd = DelUser -> T!Deleted(t, CString(q.uname))
      [] OTHER           -> t

(* What each status is called.                                             *)
LEMMA Statuses ==
    ASSUME NEW k
    PROVE  /\ How(k, OK) = "ok" /\ How(k, Full) = "full"
           /\ k.do = "add-user" => How(k, NotFound) = "taken"
           /\ k.do = "del-user" => How(k, NotFound) = "missing"
BY DEF How, OK, Full, NotFound

(* The names of the accounts are those of the slots.                       *)
LEMMA SameNames ==
    ASSUME NEW t, NEW n
    PROVE  NamedIn(T!UsersOf(t), n) = {} <=> T!Named(t, n) = {}
BY DEF NamedIn, T!UsersOf, T!Named

(* exec_command() does what was asked, and says how it went.               *)
LEMMA CommandDoes ==
    ASSUME NEW k \in Roles, k.do \in Commands, NameSent(k),
           k.do = "add-user" => Len(k.account.pass) <= 255,
           NEW q, IsFor(k, q), NEW t \in T!Tables, Apart(t), NEW w \in Worlds
    PROVE  Does(k, T!UsersOf(t), T!UsersOf(Executed(q, t)), How(k, AnswerFor(q, t, w)[1]))
<1> DEFINE S == T!UsersOf(t)  V == T!UsersOf(Executed(q, t))  how == How(k, AnswerFor(q, t, w)[1])
<1>0. q.cmd = Code(k)
  BY DEF IsFor
<1>1. CASE k.do = "add-user"
  <2> DEFINE a == k.account
  <2>1. q.cmd = AddUser /\ Account(q) = a /\ a \in T!Accounts
    BY <1>0, <1>1, CodesDiffer, AccountArrives
  <2>2. Executed(q, t) = T!Added(t, a) /\ AnswerFor(q, t, w)[1] = AddStatus(t, a)
    <3>1. AnswerFor(q, t, w) = <<AddStatus(t, a)>>
      BY <2>1, AnswerForms
    <3>2. Executed(q, t) = T!Added(t, a)
      BY <2>1 DEF Executed, AddUser, DelUser
    <3> QED  BY <3>1, <3>2
  <2>3. CASE T!Named(t, a.name) # {}
    <3>1. how = "taken"
      BY <1>1, <2>2, <2>3, Statuses DEF AddStatus
    <3>2. NamedIn(S, a.name) # {}
      BY <2>3, SameNames
    <3>3. V = S
      BY <2>1, <2>2, <2>3, AccountAdded
    <3> QED  BY <1>1, <3>1, <3>2, <3>3 DEF Does
  <2>4. CASE T!Named(t, a.name) = {} /\ T!InUse(t) = T!Slots
    <3>1. how = "full"
      BY <2>2, <2>4, Statuses DEF AddStatus
    <3>2. NamedIn(S, a.name) = {}
      BY <2>4, SameNames
    <3>3. V = S
      BY <2>1, <2>2, <2>4, AccountAdded
    <3>4. Cardinality(S) = MaxUsers
      BY <2>4, AccountsCounted
    <3> QED  BY <1>1, <3>1, <3>2, <3>3, <3>4 DEF Does
  <2>5. CASE T!Named(t, a.name) = {} /\ T!InUse(t) # T!Slots
    <3>1. how = "ok"
      BY <2>2, <2>5, Statuses DEF AddStatus
    <3>2. NamedIn(S, a.name) = {}
      BY <2>5, SameNames
    <3>3. V = S \cup {a}
      BY <2>1, <2>2, <2>5, AccountAdded
    <3>4. Cardinality(S) < MaxUsers
      <4>1. MaxUsers \in Nat
        BY UsersAssumption DEF Byte
      <4> QED  BY <2>5, <4>1, AccountsCounted
    <3> QED  BY <1>1, <3>1, <3>2, <3>3, <3>4 DEF Does
  <2> QED  BY <2>3, <2>4, <2>5
<1>2. CASE k.do = "del-user"
  <2> DEFINE n == k.account.name
  <2>1. q.cmd = DelUser /\ CString(q.uname) = n
    BY <1>0, <1>2, CodesDiffer, NameArrives
  <2>2. Executed(q, t) = T!Deleted(t, n) /\ AnswerFor(q, t, w)[1] = DelStatus(t, n)
    <3>1. AnswerFor(q, t, w) = <<DelStatus(t, n)>>
      BY <2>1, AnswerForms
    <3>2. Executed(q, t) = T!Deleted(t, n)
      BY <2>1 DEF Executed, AddUser, DelUser
    <3> QED  BY <3>1, <3>2
  <2>3. CASE T!Named(t, n) = {}
    <3>1. how = "missing"
      BY <1>2, <2>2, <2>3, Statuses DEF DelStatus
    <3>2. NamedIn(S, n) = {}
      BY <2>3, SameNames
    <3>3. V = S
      BY <2>2, <2>3, AccountDeleted
    <3> QED  BY <1>2, <3>1, <3>2, <3>3 DEF Does
  <2>4. CASE T!Named(t, n) # {}
    <3>1. how = "ok"
      BY <2>2, <2>4, Statuses DEF DelStatus
    <3>2. NamedIn(S, n) # {}
      BY <2>4, SameNames
    <3>3. PICK a \in S : V = S \ {a} /\ NamedIn(S, n) = {a}
      BY <2>2, <2>4, AccountDeleted DEF NamedIn
    <3>4. V = S \ NamedIn(S, n)
      BY <3>3
    <3> QED  BY <1>2, <3>1, <3>2, <3>4 DEF Does
  <2> QED  BY <2>3, <2>4
<1>3. CASE k.do \in {"users", "stats", "set-timeout", "log"}
  <2>1. q.cmd \in {ListUsers, GetStats, SetTimeout, GetLog}
    BY <1>0, <1>3, CodesDiffer
  <2>2. AnswerFor(q, t, w)[1] = OK
    BY <2>1, StatusFirst DEF Begins
  <2>3. how = "ok"
    BY <2>2, Statuses
  <2>4. Executed(q, t) = t
    BY <2>1 DEF Executed, AddUser, DelUser, ListUsers, GetStats, SetTimeout, GetLog
  <2> QED  BY <1>3, <2>3, <2>4 DEF Does
<1> QED  BY <1>1, <1>2, <1>3 DEF Commands

(* What a command learns is what will be told.                             *)
LEMMA Learned ==
    ASSUME NEW c \in Peers, UNCHANGED <<task, report>>, report[c] = NoReport,
           IsClient(task[c]), Usable(task[c]), did[c] = <<>>, did'[c] # <<>>,
           \A d \in Peers : d # c => Unseen(d),
           NEW how, how = How(task[c], answers'[c][2][1]),
           NEW names, names = NamesIn(task[c], {a.name : a \in T!UsersOf(did'[c][1].users)})
    PROVE  Phase(c) = "asked" /\ Remote!Learns(c, how, names)
<1>1. Phase(c) = "asked" /\ Phase(c)' = "performed"
  BY NothingPrinted DEF Phase
<1>2. OutcomeOf(c)' = [how |-> how, names |-> names]
  BY NothingPrinted DEF OutcomeOf
<1>3. \A d \in Peers : d # c => Phase(d)' = Phase(d) /\ OutcomeOf(d)' = OutcomeOf(d)
  BY UnseenStays
<1>4. [d \in Peers |-> Phase(d)]' = [[d \in Peers |-> Phase(d)] EXCEPT ![c] = "performed"]
  BY <1>1, <1>3
<1>5. [d \in Peers |-> OutcomeOf(d)]' =
         [[d \in Peers |-> OutcomeOf(d)] EXCEPT ![c] = [how |-> how, names |-> names]]
  BY <1>2, <1>3
<1> QED  BY <1>1, <1>4, <1>5 DEF Remote!Learns

(* It is performed at once.                                                *)
LEMMA Performs ==
    ASSUME NEW c \in Peers, NEW how, NEW names, Phase(c) = "asked", Remote!Learns(c, how, names),
           NEW k, k = task[c], NEW S, S = T!UsersOf(users), Does(k, S, T!UsersOf(users'), how),
           names = NamesIn(k, {a.name : a \in S})
    PROVE  Remote!Next
<1>1. T!UsersOf(users)' = T!UsersOf(users')
  OBVIOUS
<1>2. [d \in Peers |-> Phase(d)][c] = "asked"
  OBVIOUS
<1>3. \A n : Remote!Named(n) = NamedIn(S, n)
  BY DEF Remote!Named, NamedIn
<1>4. Remote!Cardinality(S) = Cardinality(S)
  BY SameCount
<1>5. CASE k.do = "add-user"
  <2>1. names = {}
    BY <1>5 DEF NamesIn
  <2>2. Remote!Add(c, k.account)
    BY <1>1, <1>3, <1>4, <1>5, <2>1 DEF Remote!Add, Does
  <2>3. Remote!Perform(c)
    BY <1>2, <1>5, <2>2 DEF Remote!Perform
  <2> QED  BY <2>3 DEF Remote!Next
<1>6. CASE k.do = "del-user"
  <2>1. names = {}
    BY <1>6 DEF NamesIn
  <2>2. Remote!Delete(c, k.account.name)
    BY <1>1, <1>3, <1>6, <2>1 DEF Remote!Delete, Does
  <2>3. Remote!Perform(c)
    BY <1>2, <1>6, <2>2 DEF Remote!Perform
  <2> QED  BY <2>3 DEF Remote!Next
<1>7. CASE k.do = "users"
  <2>1. names = {a.name : a \in S} /\ how = "ok" /\ T!UsersOf(users') = S
    BY <1>7 DEF NamesIn, Does
  <2>2. Remote!List(c)
    BY <1>1, <2>1 DEF Remote!List
  <2>3. Remote!Perform(c)
    BY <1>2, <1>7, <2>2 DEF Remote!Perform
  <2> QED  BY <2>3 DEF Remote!Next
<1>8. CASE k.do \in {"stats", "set-timeout", "log"}
  <2>1. names = {} /\ how = "ok" /\ T!UsersOf(users') = S
    BY <1>8 DEF NamesIn, Does
  <2>2. Remote!Other(c)
    BY <1>1, <2>1 DEF Remote!Other
  <2>3. Remote!Perform(c)
    BY <1>2, <1>8, <2>2 DEF Remote!Perform
  <2> QED  BY <2>3 DEF Remote!Next
<1> QED  BY <1>5, <1>6, <1>7, <1>8 DEF Does

-----------------------------------------------------------------------------
(* Every step *)

(* One turn is a turn.                                                     *)
LEMMA OneIsSome == \A x : <<x>> # <<>>
OBVIOUS

(* The server reads the command of a client that waits, or one that shows  *)
(* nothing.                                                                *)
LEMMA CommandStep ==
    ASSUME ShortNames, ShortPasswords, IInv, Clients, Clients', Seen, UNCHANGED clientVars,
           NEW c \in Peers, NEW n \in 1 .. ReadSize, Read(c, n), stm[c] = "CMD_READ"
    PROVE  [Remote!Next]_Remote!vars
<1>0. /\ Inv /\ ClientTypes /\ ClientOK(c) /\ ClientOK(c)' /\ PeerOK(c) /\ Printed(c)
      /\ UNCHANGED <<task, cpc, seen, report>>
      /\ users \in T!Tables /\ world \in Worlds /\ Apart(users)
      /\ said[c] \in Text /\ taken[c] \in Nat /\ Len(said[c]) \in Nat /\ n \in Nat /\ n >= 1
  <2>1. /\ Inv /\ ClientTypes /\ ClientOK(c) /\ ClientOK(c)' /\ PeerOK(c) /\ Printed(c)
        /\ UNCHANGED <<task, cpc, seen, report>> /\ Apart(users)
    BY DEF IInv, Inv, Clients, clientVars, Seen
  <2>2. said[c] \in Text /\ taken[c] \in Nat /\ users \in T!Tables /\ world \in Worlds
    BY <2>1 DEF Inv, Types
  <2>3. Len(said[c]) \in Nat /\ n \in Nat /\ n >= 1
    BY <2>2, LenProperties, SizesAssumption DEF Text
  <2> QED  BY <2>1, <2>2, <2>3
<1>1. taken[c] # Len(said[c])
  <2>1. taken[c] + n <= Len(said[c])
    BY DEF Read
  <2> QED  BY <1>0, <2>1
<1>2. \A d \in Peers : d # c => Unseen(d)
  BY <1>0, ReadElsewhere DEF Unseen
<1>3. CASE report[c].told \/ ~IsClient(task[c]) \/ (report[c] = GaveUp /\ ~Usable(task[c]))
  <2>1. Unseen(c)
    BY <1>0, <1>3 DEF Unseen
  <2>2. TableStep
    BY <1>0, ReadSteps
  <2> QED  BY <1>0, <1>2, <2>1, <2>2, OthersStep
<1>4. CASE ~report[c].told /\ IsClient(task[c]) /\ ~(report[c] = GaveUp /\ ~Usable(task[c]))
  <2>1. report[c] # GaveUp
    <3>1. ~Refused(c) /\ c \notin failed
      BY <1>0 DEF PeerOK, Admits, Sent, Refused, LetIn
    <3> QED  BY <1>0, <1>4, <3>1 DEF ClientOK, Reported
  <2>2. report[c] = NoReport /\ cpc[c] \in {"start", "auth", "answer"}
    BY <1>0, <1>4, <2>1 DEF Printed
  <2>3. cpc[c] = "answer"
    BY <1>0, <1>1, <2>2 DEF ClientOK, Waiting, Greeting
  <2>4. /\ task[c].do \in Commands /\ did[c] = <<>>
        /\ Unserved(c)' \/ Served(c)'
    <3>1. task[c].do \in Commands /\ (Unserved(c) \/ Served(c))
      BY <1>0, <2>3 DEF ClientOK, Asking
    <3>2. ~Served(c)
      BY <1>0, <1>1 DEF Served, ServedBy
    <3>3. did[c] = <<>>
      BY <3>1, <3>2 DEF Unserved
    <3> QED  BY <1>0, <2>3, <3>1, <3>3 DEF ClientOK, Asking
  <2>5. PICK q : CmdRead(c, q)
    BY <1>0 DEF Read
  <2>6. CASE Unserved(c)'
    <3>1. did'[c] = <<>>
      BY <2>6 DEF Unserved
    <3>2. users' = users
      <4>1. ~Execute(c, q)
        <5>1. SUFFICES ASSUME Execute(c, q) PROVE FALSE
          OBVIOUS
        <5>2. PICK d : did'[c] = Append(<<>>, d)
          BY <1>0, <2>4, <5>1 DEF Execute, Inv, Types
        <5>3. Append(<<>>, d) = <<d>>
          OBVIOUS
        <5> QED  BY <3>1, <5>2, <5>3, OneIsSome
      <4> QED  BY <2>5, <4>1 DEF CmdRead, KeepReading, serverVars
    <3>3. Unseen(c)
      BY <1>0, <2>4, <3>1 DEF Unseen
    <3> QED  BY <1>0, <1>2, <3>2, <3>3, UnseenSteps
  <2>7. CASE Served(c)'
    <3>1. PICK d : ServedBy(c, d)'
      BY <2>7 DEF Served
    <3>2. /\ did'[c] = <<d>> /\ IsFor(task[c], d.q)
          /\ answers'[c] = <<LetIn, AnswerFor(d.q, d.users, d.world)>>
      BY <1>0, <3>1 DEF ServedBy
    <3>3. Execute(c, q)
      <4>1. did' # did
        BY <2>4, <3>2, OneIsSome
      <4> QED  BY <2>5, <4>1 DEF CmdRead, KeepReading
    <3>4. d = [q |-> q, users |-> users, world |-> world]
      <4> DEFINE turn == [q |-> q, users |-> users, world |-> world]
      <4>1. did' = [did EXCEPT ![c] = Append(@, turn)] /\ did \in [Peers -> Seq(Turns)]
        BY <1>0, <3>3 DEF Execute, Inv, Types
      <4> HIDE DEF turn
      <4>2. did'[c] = Append(<<>>, turn)
        BY <2>4, <4>1
      <4>3. Append(<<>>, turn) = <<turn>>
        OBVIOUS
      <4>4. d = turn
        BY <3>2, <4>2, <4>3
      <4> QED  BY <4>4 DEF turn
    <3>5. d.q = q /\ d.users = users /\ d.world = world
      BY <3>4
    <3>6. users' = Executed(q, users)
      BY <3>3 DEF Execute, Executed
    <3>7. PICK k : k = task[c]
      OBVIOUS
    <3>8. PICK t : t = users
      OBVIOUS
    <3>9. PICK w : w = world
      OBVIOUS
    <3>10. PICK how : how = How(k, AnswerFor(q, t, w)[1])
      OBVIOUS
    <3>11. PICK names : names = NamesIn(k, {a.name : a \in T!UsersOf(t)})
      OBVIOUS
    <3>12. Does(k, T!UsersOf(t), T!UsersOf(Executed(q, t)), how)
      <4>1. k \in Roles /\ NameSent(k) /\ (k.do = "add-user" => Len(k.account.pass) <= 255)
        BY <1>0, <3>7, RolesAre DEF ShortNames, ShortPasswords, ClientTypes
      <4>2. k.do \in Commands /\ IsFor(k, q)
        BY <2>4, <3>2, <3>5, <3>7
      <4>3. t \in T!Tables /\ Apart(t) /\ w \in Worlds
        BY <1>0, <3>8, <3>9
      <4> QED  BY <3>10, <4>1, <4>2, <4>3, CommandDoes
    <3>13. Phase(c) = "asked" /\ Remote!Learns(c, how, names)
      <4>1. Usable(task[c]) /\ did'[c] # <<>> /\ did'[c][1].users = t
        BY <2>4, <3>2, <3>5, <3>8 DEF Usable, Commands
      <4>2. answers'[c][2] = AnswerFor(q, t, w)
        BY <3>2, <3>5, <3>8, <3>9
      <4>3. how = How(task[c], answers'[c][2][1])
        BY <3>7, <3>10, <4>2
      <4>4. names = NamesIn(task[c], {a.name : a \in T!UsersOf(did'[c][1].users)})
        BY <3>7, <3>11, <4>1
      <4> QED  BY <1>0, <1>2, <1>4, <2>2, <2>4, <4>1, <4>3, <4>4, Learned
    <3>14. Does(k, T!UsersOf(t), T!UsersOf(users'), how)
      BY <3>6, <3>8, <3>12
    <3>15. Remote!Next
      BY <3>7, <3>8, <3>11, <3>13, <3>14, Performs
    <3> QED  BY <3>15
  <2> QED  BY <2>4, <2>6, <2>7
<1> QED  BY <1>3, <1>4

(* The client gives up.                                                    *)
LEMMA GivesUp ==
    ASSUME NEW c \in Peers, UNCHANGED <<task, users, did, answers>>,
           report[c] = NoReport, report'[c] = GaveUp, \A d \in Peers : d # c => Unseen(d)
    PROVE  Remote!Next
<1>1. Phase(c) \in {"asked", "performed"} /\ Phase(c)' = "gaveUp"
  BY NothingPrinted DEF Phase
<1>2. OutcomeOf(c)' = OutcomeOf(c)
  BY NothingPrinted DEF OutcomeOf
<1>3. \A d \in Peers : d # c => Phase(d)' = Phase(d) /\ OutcomeOf(d)' = OutcomeOf(d)
  BY UnseenStays
<1>4. [d \in Peers |-> Phase(d)]' = [[d \in Peers |-> Phase(d)] EXCEPT ![c] = "gaveUp"]
  BY <1>1, <1>3
<1>5. [d \in Peers |-> OutcomeOf(d)]' = [d \in Peers |-> OutcomeOf(d)]
  BY <1>2, <1>3
<1>6. Remote!GiveUp(c)
  BY <1>1, <1>4, <1>5 DEF Remote!GiveUp
<1> QED  BY <1>6 DEF Remote!Next

(* The client prints the outcome.                                          *)
LEMMA Tells ==
    ASSUME ShortNames, IInv, Clients, Seen, NEW c \in Peers, ReadAnswer(c)
    PROVE  Remote!Next
<1> DEFINE r == AnswerRead(task[c], Arrived(c))
<1>0. /\ Inv /\ ClientTypes /\ ClientOK(c) /\ DOMAIN seen = Peers /\ DOMAIN report = Peers
  BY DEF IInv, Clients
<1>1. /\ cpc[c] = "answer" /\ task' = task /\ r.enough /\ Steps(c, "bye")
      /\ Reports(c, Told(r.status, r.data)) /\ Sends(c, <<Close>>)
  BY DEF ReadAnswer
<1>2. /\ seen[c] = 2 /\ task[c].do \in Commands /\ (Unserved(c) \/ Served(c))
      /\ report[c] = NoReport
  BY <1>0, <1>1 DEF ClientOK, Asking
<1>3. ~Unserved(c)
  <2>1. SUFFICES ASSUME Unserved(c) PROVE FALSE
    OBVIOUS
  <2>2. Arrived(c) = <<>>
    BY <1>0, <1>2, <2>1, NothingArrived
  <2>3. ~AnswerRead(task[c], <<>>).enough
    BY <1>2, NothingIsRead
  <2> QED  BY <1>1, <2>2, <2>3
<1>4. PICK d : ServedBy(c, d)
  BY <1>2, <1>3 DEF Served
<1>5. d \in Turns /\ IsFor(task[c], d.q) /\ did[c] = <<d>>
      /\ answers[c] = <<LetIn, AnswerFor(d.q, d.users, d.world)>>
  BY <1>4 DEF ServedBy
<1>6. /\ r.status = AnswerFor(d.q, d.users, d.world)[1]
      /\ TrueOf(task[c], Told(r.status, r.data), d)
  <2>1. task[c] \in Roles /\ NameSent(task[c])
    BY <1>0, RolesAre DEF ShortNames, ClientTypes
  <2>2. PICK m \in Text : Arrived(c) \o m = AnswerFor(d.q, d.users, d.world)
    BY <1>0, <1>2, <1>4, AnswerArrives
  <2>3. Arrived(c) \in Text
    BY <1>0, <1>2, <1>4, AnswerArrives
  <2>4. r = AnswerRead(task[c], Arrived(c))
    OBVIOUS
  <2> HIDE DEF r
  <2>5. TrueOf(task[c], Told(r.status, r.data), d)
    BY <1>1, <1>2, <1>5, <2>1, <2>2, <2>3, <2>4, AnswerIsTrue
  <2>6. r.status = AnswerFor(d.q, d.users, d.world)[1]
    BY <1>1, <1>2, <1>5, <2>1, <2>2, <2>3, <2>4, StatusArrives
  <2> QED  BY <2>5, <2>6
<1> HIDE DEF r
<1> DEFINE t == Told(r.status, r.data)
<1>7. t.told /\ t.status = r.status /\ t.data = r.data /\ t # GaveUp /\ t # NoReport
  BY NothingPrinted DEF Told
<1> HIDE DEF t
<1>8. report'[c] = t /\ \A e \in Peers : e # c => report'[e] = report[e]
  BY <1>0, <1>1, StepsOn DEF t
<1>9. UNCHANGED <<did, answers, users, task>>
  BY <1>0, <1>1, SaysMore DEF Sends, serverVars
<1>10. \A e \in Peers : e # c => Unseen(e)
  BY <1>8, <1>9 DEF Unseen
<1>11. IsClient(task[c]) /\ Usable(task[c])
  BY <1>2 DEF IsClient, Usable, Commands
<1>12. Phase(c) = "performed" /\ Phase(c)' = "told"
  <2>1. did[c] # <<>>
    BY <1>5
  <2>2. Phase(c) = "performed"
    BY <1>2, <1>11, <2>1, NothingPrinted DEF Phase
  <2>3. Phase(c)' = "told"
    BY <1>7, <1>8 DEF Phase
  <2> QED  BY <2>2, <2>3
<1>13. OutcomeOf(c)' = OutcomeOf(c)
  <2> DEFINE k == task[c]  A == AnswerFor(d.q, d.users, d.world)
             ns == {a.name : a \in T!UsersOf(d.users)}
  <2>1. OutcomeOf(c)' = [how |-> How(k, t.status), names |-> NamesIn(k, ToSet(t.data))]
    BY <1>7, <1>8, <1>9 DEF OutcomeOf
  <2>2. OutcomeOf(c) = [how |-> How(k, A[1]), names |-> NamesIn(k, ns)]
    <3>1. did[c] # <<>> /\ did[c][1] = d /\ answers[c][2] = A
      BY <1>5
    <3>2. ~report[c].told
      BY <1>2, NothingPrinted
    <3> HIDE DEF A
    <3> QED  BY <1>11, <3>1, <3>2 DEF OutcomeOf
  <2>3. k.do = "users" => ToSet(t.data) = ns
    BY <1>6 DEF TrueOf, t
  <2>4. NamesIn(k, ToSet(t.data)) = NamesIn(k, ns)
    BY <2>3 DEF NamesIn
  <2>5. t.status = A[1]
    BY <1>6, <1>7
  <2> HIDE DEF k, A, ns
  <2> QED  BY <2>1, <2>2, <2>4, <2>5
<1>14. \A e \in Peers : e # c => Phase(e)' = Phase(e) /\ OutcomeOf(e)' = OutcomeOf(e)
  BY <1>10, UnseenStays
<1>15. [e \in Peers |-> Phase(e)]' = [[e \in Peers |-> Phase(e)] EXCEPT ![c] = "told"]
  BY <1>12, <1>14
<1>16. [e \in Peers |-> OutcomeOf(e)]' = [e \in Peers |-> OutcomeOf(e)]
  BY <1>13, <1>14
<1>17. Remote!Tell(c)
  BY <1>9, <1>12, <1>15, <1>16 DEF Remote!Tell
<1> QED  BY <1>17 DEF Remote!Next

(* What a client does is seen when it prints.                              *)
LEMMA ClientStep ==
    ASSUME ShortNames, IInv, Clients, Seen, NEW c \in Peers, Client(c)
    PROVE  [Remote!Next]_Remote!vars
<1>0. /\ Inv /\ ClientTypes /\ ClientOK(c) /\ DOMAIN seen = Peers /\ DOMAIN report = Peers
  BY DEF IInv, Clients
<1>1. PICK to : Steps(c, to)
  BY DEF Client, Dial, Authenticate, ReadAnswer, ReadBye, HungUp, Leaves
<1>2. report' = report \/ \E r : Reports(c, r)
  BY DEF Client, Dial, Authenticate, ReadAnswer, ReadBye, HungUp
<1>3. UNCHANGED <<task, users, did, answers>>
  <2>1. Dial(c) \/ Authenticate(c) \/ ReadAnswer(c) \/ ReadBye(c) \/ HungUp(c)
    BY DEF Client
  <2>2. Dial(c) => UNCHANGED <<task, users, did, answers>>
    BY DEF Dial, Connect, vars, serverVars, sessionVars
  <2>3. Authenticate(c) => UNCHANGED <<task, users, did, answers>>
    BY DEF Authenticate, Sends, Leaves, Finish, serverVars, sessionVars
  <2>4. ReadAnswer(c) => UNCHANGED <<task, users, did, answers>>
    BY DEF ReadAnswer, Sends, serverVars, sessionVars
  <2>5. ReadBye(c) \/ HungUp(c) => UNCHANGED <<task, users, did, answers>>
    BY DEF ReadBye, HungUp, Leaves, Finish, serverVars, sessionVars
  <2> QED  BY <2>1, <2>2, <2>3, <2>4, <2>5
<1>4. \A d \in Peers : d # c => Unseen(d)
  <2>1. \A d \in Peers : d # c => report'[d] = report[d]
    BY <1>0, <1>1, <1>2, StepsOn
  <2> QED  BY <1>3, <2>1 DEF Unseen
<1>5. CASE report'[c] = report[c]
  <2>1. Unseen(c)
    BY <1>3, <1>5 DEF Unseen
  <2> QED  BY <1>3, <1>4, <2>1, UnseenSteps
<1>6. CASE report[c] = NoReport /\ report'[c] = GaveUp
  BY <1>3, <1>4, <1>6, GivesUp
<1>7. CASE Dial(c)
  <2>1. report' = report \/ Reports(c, GaveUp)
    BY <1>7 DEF Dial
  <2>2. report[c] = NoReport
    BY <1>0, <1>7 DEF Dial, ClientOK, Waiting
  <2>3. report' = report \/ report'[c] = GaveUp
    BY <1>0, <1>1, <2>1, StepsOn
  <2> QED  BY <1>5, <1>6, <2>2, <2>3
<1>8. CASE Authenticate(c)
  <2>1. report' = report \/ Reports(c, GaveUp)
    BY <1>8 DEF Authenticate
  <2>2. report[c] = NoReport
    BY <1>0, <1>8 DEF Authenticate, ClientOK, Greeting
  <2>3. report' = report \/ report'[c] = GaveUp
    BY <1>0, <1>1, <2>1, StepsOn
  <2> QED  BY <1>5, <1>6, <2>2, <2>3
<1>9. CASE ReadAnswer(c)
  BY <1>9, Tells
<1>10. CASE ReadBye(c)
  BY <1>5, <1>10 DEF ReadBye
<1>11. CASE HungUp(c)
  <2>1. Reports(c, IF cpc[c] = "bye" THEN report[c] ELSE GaveUp)
    BY <1>11 DEF HungUp
  <2>2. report'[c] = IF cpc[c] = "bye" THEN report[c] ELSE GaveUp
    BY <1>0, <1>1, <2>1, StepsOn
  <2>3. cpc[c] \in {"auth", "answer", "bye"}
    BY <1>11 DEF HungUp, Short
  <2>4. cpc[c] # "bye" => report[c] = NoReport
    BY <1>0, <2>3 DEF ClientOK, Greeting, Asking
  <2> QED  BY <1>5, <1>6, <2>2, <2>4
<1> QED  BY <1>7, <1>8, <1>9, <1>10, <1>11 DEF Client

(* The answer to a handshake is seen by nobody.                            *)
LEMMA HelloStep ==
    ASSUME IInv, UNCHANGED clientVars, NEW c \in Peers, NEW n, Read(c, n), stm[c] = "AUTH_READ"
    PROVE  UNCHANGED Remote!vars
<1>0. Inv /\ PeerOK(c) /\ UNCHANGED <<task, report>>
  BY DEF IInv, Inv, clientVars
<1>1. PICK q : AuthRead(c, q)
  BY DEF Read
<1>2. UNCHANGED <<users, did>>
  BY <1>1 DEF AuthRead, KeepReading, serverVars
<1>3. did[c] = <<>>
  BY <1>0 DEF PeerOK, Admits
<1>4. \A d \in Peers : Unseen(d)
  <2>1. \A d \in Peers : d # c => Unseen(d)
    BY <1>0, ReadElsewhere DEF Unseen
  <2>2. Unseen(c)
    BY <1>0, <1>2, <1>3 DEF Unseen
  <2> QED  BY <2>1, <2>2
<1> QED  BY <1>0, <1>2, <1>4, UnseenSteps

(* Every step is a step of the commands, or is not seen.                   *)
LEMMA RemoteSteps ==
    ASSUME ShortNames, ShortPasswords, IInv, Clients, Clients', Seen, [ClientNext]_allVars
    PROVE  [Remote!Next]_Remote!vars
<1>0. Inv
  BY DEF IInv
<1>1. ASSUME UNCHANGED <<users, did, answers>>, UNCHANGED clientVars PROVE UNCHANGED Remote!vars
  <2>1. \A d \in Peers : Unseen(d)
    BY <1>1 DEF Unseen, clientVars
  <2> QED  BY <1>1, <2>1, UnseenSteps DEF clientVars
<1>2. ASSUME NEW c \in Peers, Client(c) PROVE [Remote!Next]_Remote!vars
  BY <1>2, ClientStep
<1>3. ASSUME NEW c \in Peers, Stranger(c) \/ Browses(c) \/ Failure(c) PROVE UNCHANGED Remote!vars
  <2>1. UNCHANGED <<users, did, answers>> /\ UNCHANGED clientVars
    BY <1>3 DEF Stranger, Browses, Failure, Connect, Finish, Traffic, Fail, CloseSession,
                serverVars, sessionVars
  <2> QED  BY <1>1, <2>1
<1>4. ASSUME NEW c \in Peers, Server(c) PROVE [Remote!Next]_Remote!vars
  <2>1. Session(c) /\ UNCHANGED clientVars
    BY <1>4 DEF Server
  <2>2. CASE Accept(c) \/ ReadEnd(c)
    <3>1. UNCHANGED <<users, did, answers>>
      BY <2>2 DEF Accept, ReadEnd, CloseSession, serverVars
    <3> QED  BY <1>1, <2>1, <3>1
  <2>3. ASSUME NEW n \in 1 .. ReadSize, Read(c, n) PROVE [Remote!Next]_Remote!vars
    <3>1. stm[c] \in ReadStates
      BY <2>3 DEF Read
    <3>2. CASE stm[c] = "AUTH_READ"
      BY <2>1, <2>3, <3>2, HelloStep
    <3>3. CASE stm[c] = "CMD_READ"
      BY <2>1, <2>3, <3>3, CommandStep
    <3> QED  BY <3>1, <3>2, <3>3 DEF ReadStates
  <2>4. ASSUME NEW n \in 1 .. Len(wbuf[c]), Write(c, n) PROVE [Remote!Next]_Remote!vars
    <3>1. UNCHANGED <<users, did, answers>>
      BY <2>4 DEF Write, serverVars
    <3> QED  BY <1>1, <2>1, <3>1
  <2> QED  BY <2>1, <2>2, <2>3, <2>4 DEF Session
<1>5. CASE BeginShutdown /\ UNCHANGED clientVars
  <2>1. UNCHANGED <<users, did, answers>>
    BY <1>5 DEF BeginShutdown, serverVars
  <2> QED  BY <1>1, <1>5, <2>1
<1>6. CASE UNCHANGED allVars
  <2>1. UNCHANGED <<users, did, answers>> /\ UNCHANGED clientVars
    BY <1>6 DEF allVars, vars, serverVars, sessionVars
  <2> QED  BY <1>1, <2>1
<1> QED  BY <1>2, <1>3, <1>4, <1>5, <1>6 DEF ClientNext, ClientsEnded

(* The monitoring protocol is a set of accounts that is changed by one     *)
(* command at a time: each is performed once at most, at one moment of the *)
(* server, and what its sender is told is how it went at that moment,      *)
(* however the sessions interleave, end or fail.  The -u options must name *)
(* distinct users, and what is added must be no longer than the client can *)
(* send.                                                                   *)
THEOREM CommandsAreAtomic ==
    ASSUME DistinctOptions, ShortNames, ShortPasswords
    PROVE  ClientSpec => ImplementsCommands
<1>1. ClientInit => Clients /\ Seen /\ Remote!Init
  BY ClientsStart, SeenAtFirst, RemoteStarts
<1>2. IInv /\ Clients /\ Seen /\ [ClientNext]_allVars => Clients' /\ Seen'
  BY EveryStepKeeps, SeenKeeps
<1>3. IInv /\ Clients /\ Clients' /\ Seen /\ [ClientNext]_allVars => [Remote!Next]_Remote!vars
  BY RemoteSteps
<1> QED  BY <1>1, <1>2, <1>3, SessionsInvariant, PTL DEF ClientSpec, ImplementsCommands, Remote!Spec
=============================================================================
