---------------------------- MODULE Relay_proofs ----------------------------
(***************************************************************************)
(* Proofs about Relay, for any size of the buffers and any number of bytes.*)
(***************************************************************************)
EXTENDS Relay, SequenceTheorems, TLAPS

-----------------------------------------------------------------------------
(* Buffers *)

(* The positions of a buffer are in order, and an empty buffer starts at   *)
(* its beginning, so that it can be written.                               *)
Ordered(b) == b \in Buffers /\ b.read <= b.write /\ (b.read = b.write => b.write = 0)

(* b holds the bytes of its stream that follow the first k.                *)
Holds(b, k) == \A i \in b.read .. b.write - 1 : b.data[i] = k + 1 + (i - b.read)

(* What storing n numbered bytes does to a buffer.                         *)
LEMMA StoredFacts ==
    ASSUME NEW b, Ordered(b), NEW k \in Nat, Holds(b, k),
           NEW n \in 0 .. Space(b), NEW s,
           \A i \in 1 .. n : s[i] = k + Count(b) + i
    PROVE  /\ Ordered(Stored(b, n, s))
           /\ Holds(Stored(b, n, s), k)
           /\ Count(Stored(b, n, s)) = Count(b) + n
<1> DEFINE c == Stored(b, n, s)
<1>1. /\ b.read \in Nat /\ b.write \in Nat /\ b.read <= b.write
      /\ b.write + n <= Size /\ n \in Nat /\ Size \in Nat
      /\ b.data \in [Cells -> Nat] /\ Count(b) = b.write - b.read
      /\ b.read = b.write => b.write = 0
  BY BufferAssumption DEF Ordered, Buffers, Space, Count
<1>2. /\ c.read = b.read /\ c.write = b.write + n
      /\ \A i \in Cells : c.data[i] = IF i \in b.write .. b.write + n - 1
                                      THEN s[i - b.write + 1] ELSE b.data[i]
      /\ DOMAIN c.data = Cells
  BY DEF Stored
<1>3. ASSUME NEW i \in b.write .. b.write + n - 1
      PROVE  /\ i \in Cells /\ i - b.write + 1 \in 1 .. n
             /\ s[i - b.write + 1] = k + 1 + (i - b.read)
             /\ s[i - b.write + 1] \in Nat
  <2> DEFINE j == i - b.write + 1
  <2>1. j \in 1 .. n /\ i \in Nat /\ i < Size /\ i >= 0
    BY <1>1
  <2>2. s[j] = k + Count(b) + j
    BY <2>1
  <2>3. k + Count(b) + j = k + 1 + (i - b.read) /\ k + Count(b) + j \in Nat
    BY <1>1, <2>1
  <2> QED  BY <1>1, <2>1, <2>2, <2>3 DEF Cells
<1>4. c \in Buffers
  BY <1>1, <1>3 DEF Stored, Buffers
<1> HIDE DEF c
<1>5. Holds(c, k)
  <2>1. ASSUME NEW i \in c.read .. c.write - 1
        PROVE  c.data[i] = k + 1 + (i - c.read)
    <3>1. CASE i \in b.write .. b.write + n - 1
      BY <1>1, <1>2, <1>3, <3>1
    <3>2. CASE i \in b.read .. b.write - 1
      <4>1. i \in Cells /\ i \notin b.write .. b.write + n - 1
        BY <1>1, <3>2 DEF Cells
      <4>2. b.data[i] = k + 1 + (i - b.read)
        BY <3>2 DEF Holds
      <4> QED  BY <1>2, <4>1, <4>2
    <3> QED  BY <1>1, <1>2, <3>1, <3>2
  <2> QED  BY <2>1 DEF Holds
<1>6. Count(c) = Count(b) + n /\ c.read <= c.write /\ (c.read = c.write => c.write = 0)
  BY <1>1, <1>2 DEF Count
<1> QED  BY <1>4, <1>5, <1>6 DEF Ordered, c

(* What giving n bytes away does to a buffer.                              *)
LEMMA ReadAdvFacts ==
    ASSUME NEW b, Ordered(b), NEW k \in Nat, Holds(b, k), NEW n \in 0 .. Count(b)
    PROVE  /\ Ordered(ReadAdv(b, n))
           /\ Holds(ReadAdv(b, n), k + n)
           /\ Count(ReadAdv(b, n)) = Count(b) - n
<1> DEFINE a == [b EXCEPT !.read = @ + n]
           c == ReadAdv(b, n)
<1>1. /\ b.read \in Nat /\ b.write \in Nat /\ b.read <= b.write
      /\ b.write <= Size /\ n \in Nat /\ Size \in Nat
      /\ b.read + n <= b.write /\ Count(b) = b.write - b.read
  BY BufferAssumption DEF Ordered, Buffers, Count
<1>2. a.read = b.read + n /\ a.write = b.write /\ a.data = b.data /\ a \in Buffers
  BY <1>1 DEF Ordered, Buffers
<1>3. CASE a.read # a.write
  <2>1. c = a
    BY <1>3 DEF ReadAdv
  <2>2. Holds(c, k + n)
    BY <1>1, <1>2, <2>1 DEF Holds
  <2> QED  BY <1>1, <1>2, <1>3, <2>1, <2>2 DEF Ordered, Count
<1>4. CASE a.read = a.write
  <2>1. c = Compact(a)
    BY <1>4 DEF ReadAdv
  <2>2. c.read = 0 /\ c.write = 0 /\ c \in Buffers
    <3>1. CASE a.read = 0
      BY <1>2, <1>4, <2>1, <3>1 DEF Compact
    <3>2. CASE a.read # 0
      <4>1. c = [a EXCEPT !.read = 0, !.write = 0]
        BY <1>4, <2>1, <3>2 DEF Compact
      <4>2. a.data \in [Cells -> Nat] /\ 0 \in 0 .. Size
        BY <1>1, <1>2 DEF Buffers
      <4>3. c = [data |-> a.data, read |-> 0, write |-> 0]
        BY <1>2, <4>1 DEF Buffers
      <4> QED  BY <4>2, <4>3 DEF Buffers
    <3> QED  BY <3>1, <3>2
  <2> QED  BY <1>1, <1>2, <1>4, <2>2 DEF Holds, Ordered, Count
<1> QED  BY <1>3, <1>4

-----------------------------------------------------------------------------
(* Streams *)

(* The first n bytes of a stream.                                          *)
UpTo(n) == [i \in 1 .. n |-> i]

(* The next n bytes complete the first k to the first k + n.               *)
LEMMA UpToConcat ==
    ASSUME NEW k \in Nat, NEW n \in Nat
    PROVE  UpTo(k) \o [i \in 1 .. n |-> k + i] = UpTo(k + n)
<1> DEFINE s == [i \in 1 .. n |-> k + i]
<1>1. UpTo(k) \in Seq(Nat) /\ Len(UpTo(k)) = k
  BY DEF UpTo
<1>2. s \in Seq(Nat) /\ Len(s) = n
  OBVIOUS
<1>3. UpTo(k + n) \in Seq(Nat) /\ Len(UpTo(k + n)) = k + n
  <2>1. k + n \in Nat
    OBVIOUS
  <2> QED  BY <2>1 DEF UpTo
<1> HIDE DEF s
<1>4. /\ UpTo(k) \o s \in Seq(Nat) /\ Len(UpTo(k) \o s) = k + n
      /\ \A i \in 1 .. k + n : (UpTo(k) \o s)[i] =
            IF i <= k THEN UpTo(k)[i] ELSE s[i - k]
  <2> HIDE DEF UpTo
  <2>1. /\ UpTo(k) \o s \in Seq(Nat) /\ Len(UpTo(k) \o s) = Len(UpTo(k)) + Len(s)
        /\ \A i \in 1 .. Len(UpTo(k)) + Len(s) : (UpTo(k) \o s)[i] =
              IF i <= Len(UpTo(k)) THEN UpTo(k)[i] ELSE s[i - Len(UpTo(k))]
    BY <1>1, <1>2, ConcatProperties
  <2> QED  BY <1>1, <1>2, <2>1
<1>5. ASSUME NEW i \in 1 .. k + n
      PROVE  (UpTo(k) \o s)[i] = UpTo(k + n)[i]
  <2>1. CASE i <= k
    BY <1>4, <2>1 DEF UpTo
  <2>2. CASE i > k
    <3>1. i - k \in 1 .. n /\ k + (i - k) = i
      BY <2>2
    <3> QED  BY <1>4, <2>2, <3>1 DEF UpTo, s
  <2>3. i <= k \/ i > k
    OBVIOUS
  <2> QED  BY <2>1, <2>2, <2>3
<1>6. UpTo(k) \o s = UpTo(k + n)
  BY <1>3, <1>4, <1>5, SeqEqual
<1> QED  BY <1>6 DEF s

(* The first n bytes of a buffer.                                          *)
LEMMA ContentsFacts ==
    ASSUME NEW b, Ordered(b), NEW k \in Nat, Holds(b, k), NEW n \in 0 .. Count(b)
    PROVE  SubSeq(Contents(b), 1, n) = [i \in 1 .. n |-> k + i]
<1>0. b.read \in Nat /\ b.write \in Nat /\ Count(b) = b.write - b.read
      /\ b.read <= b.write /\ n \in Nat
  BY BufferAssumption DEF Ordered, Buffers, Count
<1>1. ASSUME NEW i \in 1 .. Count(b)
      PROVE  Contents(b)[i] = k + i
  <2>1. Contents(b)[i] = b.data[b.read + i - 1]
    BY DEF Contents
  <2>2. b.read + i - 1 \in b.read .. b.write - 1
    BY <1>0
  <2> QED  BY <1>0, <2>1, <2>2 DEF Holds
<1> DEFINE t == SubSeq(Contents(b), 1, n)
           s == [i \in 1 .. n |-> k + i]
<1>2. /\ t \in Seq(Nat) /\ Len(t) = n
      /\ \A i \in 1 .. n : t[i] = Contents(b)[i]
  <2>1. \A i \in 1 .. n : Contents(b)[i] \in Nat
    BY <1>0, <1>1
  <2>2. /\ t \in Seq(Nat) /\ Len(t) = IF 1 <= n THEN n - 1 + 1 ELSE 0
        /\ \A i \in 1 .. n - 1 + 1 : t[i] = Contents(b)[1 + i - 1]
    BY <1>0, <2>1, SubSeqProperties
  <2> QED  BY <1>0, <2>2
<1>3. s \in Seq(Nat) /\ Len(s) = n /\ \A i \in 1 .. n : s[i] = k + i
  OBVIOUS
<1> HIDE DEF s, t
<1>4. ASSUME NEW i \in 1 .. n
      PROVE  t[i] = s[i]
  <2>1. i \in 1 .. Count(b)
    BY <1>0
  <2> QED  BY <1>1, <1>2, <1>3, <2>1
<1>5. t = s
  BY <1>2, <1>3, <1>4, SeqEqual
<1> QED  BY <1>5 DEF s, t

-----------------------------------------------------------------------------
(* The invariant *)

(* How many bytes of its stream a direction has passed on.                 *)
Passed(d) == taken[d] - Count(buf[d])

Shapes ==
    /\ sent \in [Dirs -> 0 .. MaxBytes] /\ fin \in [Dirs -> BOOLEAN]
    /\ taken \in [Dirs -> Nat] /\ buf \in [Dirs -> Buffers]
    /\ closed \in [Dirs -> BOOLEAN] /\ shut \in [Dirs -> BOOLEAN]
    /\ out \in [Dirs -> Seq(Nat)]
    /\ asked \in [Dirs -> SUBSET Events] /\ phase \in {"COPY", "DONE", "ERROR"}

(* The sink has the bytes passed on, the buffer those that follow them, and*)
(* the end is passed on exactly when it was met and the buffer is empty.   *)
Direction(d) ==
    /\ Ordered(buf[d])
    /\ Passed(d) \in Nat /\ taken[d] <= sent[d]
    /\ out[d] = UpTo(Passed(d)) /\ Holds(buf[d], Passed(d))
    /\ closed[d] => fin[d] /\ taken[d] = sent[d]
    /\ shut[d] <=> closed[d] /\ ~CanRead(buf[d])

(* What the last handler left for the next one.                            *)
Loop ==
    /\ phase = "DONE" => \A d \in Dirs : closed[d] /\ ~CanRead(buf[d])
    /\ phase = "COPY" => \A d \in Dirs : "READ" \in asked[d] => ~closed[d]
    /\ NoDeadDirection

Counters == bytesSent = taken["o2c"] /\ bytesRecv \in 0 .. taken["c2o"]

RInv == Shapes /\ (\A d \in Dirs : Direction(d)) /\ Loop /\ Counters

(* What is known of one direction, as numbers.                             *)
LEMMA DirectionFacts ==
    ASSUME RInv, NEW d \in Dirs
    PROVE  /\ sent[d] \in Nat /\ sent[d] <= MaxBytes /\ taken[d] \in Nat
           /\ taken[d] <= sent[d]
           /\ Count(buf[d]) \in Nat /\ Count(buf[d]) <= taken[d]
           /\ Passed(d) = taken[d] - Count(buf[d]) /\ Passed(d) \in Nat
           /\ Space(buf[d]) \in Nat
           /\ buf[d] \in Buffers /\ out[d] \in Seq(Nat) /\ Len(out[d]) = Passed(d)
           /\ fin[d] \in BOOLEAN /\ closed[d] \in BOOLEAN /\ shut[d] \in BOOLEAN
           /\ Other(d) \in Dirs /\ Other(Other(d)) = d /\ Other(d) # d
<1>1. /\ sent[d] \in Nat /\ sent[d] <= MaxBytes /\ taken[d] \in Nat
      /\ buf[d] \in Buffers /\ out[d] \in Seq(Nat)
      /\ fin[d] \in BOOLEAN /\ closed[d] \in BOOLEAN /\ shut[d] \in BOOLEAN
  BY RelayAssumption DEF RInv, Shapes
<1>2. Ordered(buf[d]) /\ Passed(d) \in Nat /\ taken[d] <= sent[d] /\ out[d] = UpTo(Passed(d))
  BY DEF RInv, Direction
<1>3. Count(buf[d]) \in Nat /\ Space(buf[d]) \in Nat
  BY <1>2, BufferAssumption DEF Ordered, Buffers, Count, Space
<1>4. Len(out[d]) = Passed(d)
  BY <1>2 DEF UpTo
<1>5. Other(d) \in Dirs /\ Other(Other(d)) = d /\ Other(d) # d
  BY DEF Other, Dirs
<1> QED  BY <1>1, <1>2, <1>3, <1>4, <1>5 DEF Passed

(* A buffer with nothing to read can be written.                           *)
LEMMA EmptyCanWrite ==
    ASSUME NEW b, Ordered(b), ~CanRead(b)
    PROVE  CanWrite(b)
BY BufferAssumption DEF Ordered, Buffers, CanRead, CanWrite, Count, Space

(* The invariant holds initially.                                          *)
LEMMA RInvInit == Init => RInv
<1> SUFFICES ASSUME Init PROVE RInv
  OBVIOUS
<1>1. PICK b \in {Empty} \cup {b \in Early : b.write <= Size} :
        buf = [d \in Dirs |-> IF d = "c2o" THEN b ELSE Empty]
  BY DEF Init
<1>2. Ordered(Empty) /\ Holds(Empty, 0) /\ Count(Empty) = 0
  BY BufferAssumption DEF Ordered, Buffers, Empty, Holds, Count, Cells
<1>3. Ordered(b) /\ Holds(b, 0) /\ Count(b) \in 0 .. MaxBytes
  <2>1. CASE b = Empty
    BY <1>2, <2>1, RelayAssumption
  <2>2. CASE b \in Early /\ b.write <= Size
    <3>1. PICK p \in 1 .. Size, e \in 1 .. MaxEarly :
            b = [data  |-> [i \in Cells |-> IF i \in p .. p + e - 1 THEN i - p + 1 ELSE 0],
                 read  |-> p, write |-> p + e]
      BY <2>2 DEF Early
    <3>2. /\ p \in Nat /\ e \in Nat /\ e >= 1 /\ e <= MaxBytes /\ b.read = p /\ b.write = p + e
          /\ p + e <= Size /\ Size \in Nat /\ MaxBytes \in Nat
      BY <2>2, <3>1, BufferAssumption, RelayAssumption
    <3>3. b.data = [i \in Cells |-> IF i \in p .. p + e - 1 THEN i - p + 1 ELSE 0]
      BY <3>1
    <3>4. Ordered(b)
      <4>1. b.data \in [Cells -> Nat]
        BY <3>2, <3>3 DEF Cells
      <4>2. b = [data |-> b.data, read |-> b.read, write |-> b.write]
        BY <3>1, <3>2
      <4>3. b \in Buffers
        BY <3>2, <4>1, <4>2 DEF Buffers
      <4> QED  BY <3>2, <4>3 DEF Ordered
    <3>5. Holds(b, 0)
      BY <3>2, <3>3 DEF Holds, Cells
    <3> QED  BY <3>2, <3>4, <3>5 DEF Count
  <2> QED  BY <1>1, <2>1, <2>2
<1>4. \A d \in Dirs : /\ Ordered(buf[d]) /\ Holds(buf[d], 0) /\ Count(buf[d]) \in 0 .. MaxBytes
                      /\ taken[d] = Count(buf[d]) /\ sent[d] = taken[d] /\ buf[d] \in Buffers
  <2>1. 0 \in 0 .. MaxBytes
    BY RelayAssumption
  <2>2. ASSUME NEW d \in Dirs
        PROVE  /\ Ordered(buf[d]) /\ Holds(buf[d], 0) /\ Count(buf[d]) \in 0 .. MaxBytes
               /\ taken[d] = Count(buf[d]) /\ sent[d] = taken[d]
    <3>1. buf[d] = b \/ buf[d] = Empty
      BY <1>1
    <3>2. taken[d] = Count(buf[d]) /\ sent[d] = taken[d]
      BY DEF Init
    <3> QED  BY <1>2, <1>3, <2>1, <3>1, <3>2
  <2> QED  BY <2>2 DEF Ordered
<1>5. Shapes
  <2>1. /\ taken = [d \in Dirs |-> Count(buf[d])] /\ sent = taken
        /\ buf = [d \in Dirs |-> buf[d]]
    BY <1>1 DEF Init
  <2>2. buf \in [Dirs -> Buffers]
    BY <1>4, <2>1
  <2>3. sent \in [Dirs -> 0 .. MaxBytes] /\ taken \in [Dirs -> Nat]
    BY <1>4, <2>1, RelayAssumption
  <2> QED  BY <2>2, <2>3 DEF Init, Shapes, Events
<1>6. ASSUME NEW d \in Dirs
      PROVE  Direction(d)
  <2>1. Passed(d) = 0
    BY <1>4, RelayAssumption DEF Passed
  <2>2. out[d] = <<>> /\ ~closed[d] /\ ~shut[d]
    BY DEF Init
  <2>3. UpTo(0) = <<>>
    BY DEF UpTo
  <2>4. taken[d] <= sent[d]
    BY <1>4, RelayAssumption
  <2> QED  BY <1>4, <2>1, <2>2, <2>3, <2>4 DEF Direction
<1>7. Loop
  BY DEF Init, Loop, NoDeadDirection, Source, Sink, Dirs
<1>8. Counters
  <2>1. "o2c" \in Dirs /\ "c2o" \in Dirs /\ Count(buf["c2o"]) \in 0 .. MaxBytes
    BY <1>4 DEF Dirs
  <2>2. buf["o2c"] = Empty /\ taken["o2c"] = 0
    BY <1>1, <1>2, <1>4, <2>1
  <2> QED  BY <1>4, <2>1, <2>2, RelayAssumption DEF Init, Counters
<1> QED  BY <1>5, <1>6, <1>7, <1>8 DEF RInv

-----------------------------------------------------------------------------
(* Steps *)

(* The end of a handler leaves a loop that can go on or has ended.         *)
LEMMA ContinueFacts ==
    ASSUME RInv, Continue(buf', closed'), \A d \in Dirs : Direction(d)'
    PROVE  /\ asked' \in [Dirs -> SUBSET Events] /\ phase' \in {"COPY", "DONE", "ERROR"}
           /\ Loop'
<1>1. asked \in [Dirs -> SUBSET Events]
  BY DEF RInv, Shapes
<1>2. CASE Finished(buf', closed')
  <2>1. phase' = "DONE" /\ asked' = asked
    BY <1>2 DEF Continue
  <2>2. \A d \in Dirs : closed'[d] /\ ~CanRead(buf'[d])
    BY <1>2 DEF Finished
  <2> QED  BY <1>1, <2>1, <2>2 DEF Loop, NoDeadDirection
<1>3. CASE ~Finished(buf', closed')
  <2>1. phase' = "COPY" /\ asked' = Wanted(buf', closed')
    BY <1>3 DEF Continue
  <2>2. asked' \in [Dirs -> SUBSET Events]
    BY <2>1 DEF Wanted
  <2>3. \A d \in Dirs : "READ" \in asked'[d] => ~closed'[d]
    BY <2>1 DEF Wanted
  <2>4. ASSUME NEW d \in Dirs, ~shut'[d], "READ" \notin asked'[d]
        PROVE  "WRITE" \in asked'[Other(d)]
    <3>1. closed'[d] \/ ~CanWrite(buf'[d])
      BY <2>1, <2>4 DEF Wanted, Events
    <3>2. CanRead(buf'[d])
      <4>1. Ordered(buf'[d]) /\ (shut'[d] <=> closed'[d] /\ ~CanRead(buf'[d]))
        BY DEF Direction
      <4> QED  BY <2>4, <3>1, <4>1, EmptyCanWrite
    <3> QED  BY <2>1, <3>2, DirectionFacts DEF Wanted, Events
  <2>5. NoDeadDirection'
    BY <2>4 DEF NoDeadDirection, Source, Sink
  <2> QED  BY <2>1, <2>2, <2>3, <2>5 DEF Loop
<1> QED  BY <1>2, <1>3

(* What the recv() loop stores are the next bytes of the stream.           *)
LEMMA ReceivedFacts ==
    ASSUME RInv, NEW d \in Dirs, NEW r \in 0 .. LoopTakes(d)
    PROVE  /\ Ordered(Received(d, r)) /\ Holds(Received(d, r), Passed(d))
           /\ Count(Received(d, r)) = Count(buf[d]) + r
           /\ Received(d, r) \in Buffers
           /\ r \in Nat /\ taken[d] + r <= sent[d]
<1>1. r \in 0 .. Space(buf[d]) /\ r \in Nat /\ taken[d] + r <= sent[d]
  BY DirectionFacts DEF LoopTakes, Available
<1> DEFINE s == [i \in 1 .. r |-> taken[d] + i]
<1>2. \A i \in 1 .. r : s[i] = Passed(d) + Count(buf[d]) + i
  BY DirectionFacts
<1>3. Ordered(buf[d]) /\ Holds(buf[d], Passed(d)) /\ Passed(d) \in Nat
  BY DEF RInv, Direction
<1> HIDE DEF s
<1>4. /\ Ordered(Stored(buf[d], r, s)) /\ Holds(Stored(buf[d], r, s), Passed(d))
      /\ Count(Stored(buf[d], r, s)) = Count(buf[d]) + r
  BY <1>1, <1>2, <1>3, StoredFacts
<1> QED  BY <1>1, <1>4 DEF Received, s, Ordered

(* What is passed on from a buffer b leaves the direction as it should be. *)
LEMMA SendingFacts ==
    ASSUME RInv, NEW d \in Dirs, NEW b, Ordered(b), Holds(b, Passed(d)),
           NEW n \in 0 .. Count(b), Sending(d, b, n)
    PROVE  /\ Ordered(ReadAdv(b, n)) /\ Holds(ReadAdv(b, n), Passed(d) + n)
           /\ Count(ReadAdv(b, n)) = Count(b) - n /\ ReadAdv(b, n) \in Buffers
           /\ out' = [out EXCEPT ![d] = UpTo(Passed(d) + n)]
           /\ UpTo(Passed(d) + n) \in Seq(Nat)
           /\ n \in Nat /\ Count(b) \in Nat
<1>1. Passed(d) \in Nat /\ out[d] = UpTo(Passed(d))
  BY DEF RInv, Direction
<1>2. n \in Nat /\ Count(b) \in Nat
  BY DEF Ordered, Buffers, Count
<1>3. SubSeq(Contents(b), 1, n) = [i \in 1 .. n |-> Passed(d) + i]
  BY <1>1, ContentsFacts
<1>4. out[d] \o SubSeq(Contents(b), 1, n) = UpTo(Passed(d) + n)
  BY <1>1, <1>2, <1>3, UpToConcat
<1>5. out' = [out EXCEPT ![d] = UpTo(Passed(d) + n)]
  BY <1>4 DEF Sending
<1>6. UpTo(Passed(d) + n) \in Seq(Nat)
  <2>1. Passed(d) + n \in Nat
    BY <1>1, <1>2
  <2> QED  BY <2>1 DEF UpTo
<1>7. /\ Ordered(ReadAdv(b, n)) /\ Holds(ReadAdv(b, n), Passed(d) + n)
      /\ Count(ReadAdv(b, n)) = Count(b) - n
  BY <1>1, ReadAdvFacts
<1> QED  BY <1>2, <1>5, <1>6, <1>7 DEF Ordered

(* A direction whose variables keep their values stays as it was.          *)
LEMMA SameDirection ==
    ASSUME NEW d, Direction(d), sent'[d] = sent[d], fin'[d] = fin[d], taken'[d] = taken[d],
           buf'[d] = buf[d], closed'[d] = closed[d], out'[d] = out[d], shut'[d] = shut[d]
    PROVE  Direction(d)'
BY DEF Direction, Passed

(* recv() took r more bytes in the direction d.                            *)
LEMMA CountersKept ==
    ASSUME RInv, NEW d \in Dirs, NEW r \in Nat, Count2Metrics(d, r),
           taken' = [taken EXCEPT ![d] = @ + r]
    PROVE  Counters'
<1>1. taken["c2o"] \in Nat /\ taken["o2c"] \in Nat /\ taken \in [Dirs -> Nat]
  BY DEF RInv, Shapes, Dirs
<1>2. bytesSent = taken["o2c"] /\ bytesRecv \in 0 .. taken["c2o"]
  BY DEF RInv, Counters
<1>3. CASE d = "c2o"
  <2>1. taken'["c2o"] = taken["c2o"] + r /\ taken'["o2c"] = taken["o2c"]
    BY <1>1, <1>3 DEF Dirs
  <2>2. bytesRecv' = bytesRecv + r /\ bytesSent' = bytesSent
    BY <1>3 DEF Count2Metrics
  <2> QED  BY <1>1, <1>2, <2>1, <2>2 DEF Counters
<1>4. CASE d = "o2c"
  <2>1. taken'["o2c"] = taken["o2c"] + r /\ taken'["c2o"] = taken["c2o"]
    BY <1>1, <1>4 DEF Dirs
  <2>2. bytesSent' = bytesSent + r /\ bytesRecv' = bytesRecv
    BY <1>4 DEF Count2Metrics
  <2> QED  BY <1>1, <1>2, <2>1, <2>2 DEF Counters
<1> QED  BY <1>3, <1>4 DEF Dirs

(* relay_on_read_ready()                                                   *)
LEMMA ReadKeeps ==
    ASSUME RInv, NEW d \in Dirs, NEW n \in 0 .. Size, Read(d, n)
    PROVE  RInv'
<1> DEFINE r == LoopTakes(d)
           b == Received(d, r)
           b2 == ReadAdv(b, n)
<1>1. /\ phase = "COPY" /\ "READ" \in asked[d] /\ n \in 0 .. Count(b)
      /\ taken' = [taken EXCEPT ![d] = @ + r] /\ Count2Metrics(d, r)
      /\ Sending(d, b, n) /\ buf' = [buf EXCEPT ![d] = b2]
      /\ closed' = [closed EXCEPT ![d] = @ \/ GotEof(d)]
      /\ shut' = [shut EXCEPT ![d] = @ \/ ShutDue(b2, GotEof(d))]
      /\ Continue(buf', closed') /\ sent' = sent /\ fin' = fin
  BY DEF Read, Readable, Source
<1>2. r \in 0 .. LoopTakes(d)
  BY DirectionFacts DEF LoopTakes, Available
<1> HIDE DEF r
<1>3. /\ Ordered(b) /\ Holds(b, Passed(d)) /\ Count(b) = Count(buf[d]) + r
      /\ r \in Nat /\ taken[d] + r <= sent[d]
  BY <1>2, ReceivedFacts
<1> HIDE DEF b
<1>4. /\ Ordered(b2) /\ Holds(b2, Passed(d) + n) /\ Count(b2) = Count(b) - n
      /\ b2 \in Buffers /\ out' = [out EXCEPT ![d] = UpTo(Passed(d) + n)]
      /\ UpTo(Passed(d) + n) \in Seq(Nat) /\ n \in Nat /\ Count(b) \in Nat
  BY <1>1, <1>3, SendingFacts
<1> HIDE DEF b2
<1>5. ~closed[d] /\ ~shut[d]
  BY <1>1 DEF RInv, Loop, Direction
<1>6. GotEof(d) \in BOOLEAN /\ (GotEof(d) => fin[d] /\ taken[d] + r = sent[d])
  BY DirectionFacts DEF GotEof, LoopTakes, Available, r
<1>7. ShutDue(b2, GotEof(d)) <=> GotEof(d) /\ ~CanRead(b2)
  BY DEF ShutDue
<1>8. /\ sent' \in [Dirs -> 0 .. MaxBytes] /\ fin' \in [Dirs -> BOOLEAN]
      /\ taken' \in [Dirs -> Nat] /\ buf' \in [Dirs -> Buffers]
      /\ closed' \in [Dirs -> BOOLEAN] /\ shut' \in [Dirs -> BOOLEAN]
      /\ out' \in [Dirs -> Seq(Nat)]
  <2>1. taken[d] + r \in Nat
    BY <1>3, DirectionFacts
  <2>2. /\ (closed[d] \/ GotEof(d)) \in BOOLEAN
        /\ (shut[d] \/ ShutDue(b2, GotEof(d))) \in BOOLEAN
    OBVIOUS
  <2> QED  BY <1>1, <1>4, <2>1, <2>2 DEF RInv, Shapes
<1>9. Direction(d)'
  <2>1. /\ taken'[d] = taken[d] + r /\ buf'[d] = b2 /\ out'[d] = UpTo(Passed(d) + n)
        /\ (closed'[d] <=> GotEof(d)) /\ (shut'[d] <=> GotEof(d) /\ ~CanRead(b2))
    BY <1>1, <1>4, <1>5, <1>7 DEF RInv, Shapes
  <2>2. Passed(d)' = Passed(d) + n /\ Passed(d) + n \in Nat
    <3>1. taken'[d] = taken[d] + r /\ Count(buf'[d]) = Count(b2)
      BY <2>1
    <3>2. Passed(d)' = (taken[d] + r) - Count(b2)
      BY <3>1 DEF Passed
    <3>3. Passed(d) = taken[d] - Count(buf[d]) /\ taken[d] \in Nat /\ Count(buf[d]) \in Nat
          /\ Passed(d) \in Nat
      BY DirectionFacts
    <3>4. Count(b2) = (Count(buf[d]) + r) - n /\ r \in Nat /\ n \in Nat
      BY <1>3, <1>4
    <3> QED  BY <3>2, <3>3, <3>4
  <2>3. taken'[d] <= sent'[d] /\ (closed'[d] => fin'[d] /\ taken'[d] = sent'[d])
    BY <1>1, <1>3, <1>6, <2>1
  <2> QED  BY <1>4, <2>1, <2>2, <2>3 DEF Direction
<1>10. ASSUME NEW e \in Dirs
       PROVE  Direction(e)'
  <2>1. CASE e = d
    BY <1>9, <2>1
  <2>2. CASE e # d
    <3>1. /\ sent'[e] = sent[e] /\ fin'[e] = fin[e] /\ taken'[e] = taken[e]
          /\ buf'[e] = buf[e] /\ closed'[e] = closed[e] /\ out'[e] = out[e]
          /\ shut'[e] = shut[e]
      BY <1>1, <1>4, <2>2 DEF RInv, Shapes
    <3> QED  BY <3>1, SameDirection DEF RInv
  <2> QED  BY <2>1, <2>2
<1>11. Counters'
  BY <1>1, <1>3, CountersKept
<1> QED  BY <1>1, <1>8, <1>10, <1>11, ContinueFacts DEF RInv, Shapes

(* relay_on_write_ready()                                                  *)
LEMMA WriteKeeps ==
    ASSUME RInv, NEW d \in Dirs, NEW n \in 1 .. Size, Write(d, n)
    PROVE  RInv'
<1> DEFINE b == buf[d]
           b2 == ReadAdv(b, n)
<1>1. /\ phase = "COPY" /\ n \in 1 .. Count(b)
      /\ Sending(d, b, n) /\ buf' = [buf EXCEPT ![d] = b2]
      /\ shut' = [shut EXCEPT ![d] = @ \/ ShutDue(buf'[d], closed[d])]
      /\ Continue(buf', closed) /\ sent' = sent /\ fin' = fin
      /\ taken' = taken /\ closed' = closed
      /\ bytesSent' = bytesSent /\ bytesRecv' = bytesRecv
  BY DEF Write
<1>2. Ordered(b) /\ Holds(b, Passed(d)) /\ n \in 0 .. Count(b) /\ n \in Nat /\ Count(b) > 0
  BY <1>1, DirectionFacts DEF RInv, Direction
<1> HIDE DEF b
<1>3. /\ Ordered(b2) /\ Holds(b2, Passed(d) + n) /\ Count(b2) = Count(b) - n
      /\ b2 \in Buffers /\ out' = [out EXCEPT ![d] = UpTo(Passed(d) + n)]
      /\ UpTo(Passed(d) + n) \in Seq(Nat)
  BY <1>1, <1>2, SendingFacts
<1> HIDE DEF b2
<1>4. ~shut[d]
  BY <1>2 DEF RInv, Direction, CanRead, b
<1>5. buf'[d] = b2 /\ (ShutDue(buf'[d], closed[d]) <=> closed[d] /\ ~CanRead(b2))
  BY <1>1 DEF ShutDue, RInv, Shapes
<1>6. /\ sent' \in [Dirs -> 0 .. MaxBytes] /\ fin' \in [Dirs -> BOOLEAN]
      /\ taken' \in [Dirs -> Nat] /\ buf' \in [Dirs -> Buffers]
      /\ closed' \in [Dirs -> BOOLEAN] /\ shut' \in [Dirs -> BOOLEAN]
      /\ out' \in [Dirs -> Seq(Nat)]
  <2>1. (shut[d] \/ ShutDue(buf'[d], closed[d])) \in BOOLEAN
    OBVIOUS
  <2> QED  BY <1>1, <1>3, <2>1 DEF RInv, Shapes
<1>7. Direction(d)'
  <2>1. out'[d] = UpTo(Passed(d) + n) /\ (shut'[d] <=> closed[d] /\ ~CanRead(b2))
    BY <1>1, <1>3, <1>4, <1>5 DEF RInv, Shapes
  <2>2. Passed(d)' = Passed(d) + n /\ Passed(d) + n \in Nat
    <3>1. taken'[d] = taken[d] /\ Count(buf'[d]) = Count(b2)
      BY <1>1, <1>5
    <3>2. Passed(d)' = taken[d] - Count(b2)
      BY <3>1 DEF Passed
    <3>3. Passed(d) = taken[d] - Count(buf[d]) /\ taken[d] \in Nat /\ Count(buf[d]) \in Nat
          /\ Passed(d) \in Nat
      BY DirectionFacts
    <3>4. Count(b2) = Count(buf[d]) - n /\ n \in Nat
      BY <1>2, <1>3 DEF b
    <3> QED  BY <3>2, <3>3, <3>4
  <2>3. taken'[d] <= sent'[d] /\ (closed'[d] => fin'[d] /\ taken'[d] = sent'[d])
    BY <1>1 DEF RInv, Direction
  <2> QED  BY <1>1, <1>3, <1>5, <2>1, <2>2, <2>3 DEF Direction
<1>8. ASSUME NEW e \in Dirs
      PROVE  Direction(e)'
  <2>1. CASE e = d
    BY <1>7, <2>1
  <2>2. CASE e # d
    <3>1. /\ sent'[e] = sent[e] /\ fin'[e] = fin[e] /\ taken'[e] = taken[e]
          /\ buf'[e] = buf[e] /\ closed'[e] = closed[e] /\ out'[e] = out[e]
          /\ shut'[e] = shut[e]
      BY <1>1, <1>3, <2>2 DEF RInv, Shapes
    <3> QED  BY <3>1, SameDirection DEF RInv
  <2> QED  BY <2>1, <2>2
<1>9. Counters'
  BY <1>1 DEF RInv, Counters
<1> QED  BY <1>1, <1>6, <1>8, <1>9, ContinueFacts DEF RInv, Shapes

(* A handler that fails, and the sweep.                                    *)
LEMMA FailKeeps ==
    ASSUME RInv, NEW d \in Dirs, NEW r \in 0 .. Size, Fail(d, r)
    PROVE  RInv'
<1> DEFINE b == Received(d, r)
<1>1. /\ phase = "COPY" /\ phase' = "ERROR" /\ r \in 0 .. LoopTakes(d)
      /\ r > 0 => "READ" \in asked[d]
      /\ taken' = [taken EXCEPT ![d] = @ + r] /\ buf' = [buf EXCEPT ![d] = b]
      /\ Count2Metrics(d, r) /\ sent' = sent /\ fin' = fin /\ closed' = closed
      /\ out' = out /\ shut' = shut /\ asked' = asked
  BY DEF Fail, Source
<1>2. /\ Ordered(b) /\ Holds(b, Passed(d)) /\ Count(b) = Count(buf[d]) + r
      /\ b \in Buffers /\ r \in Nat /\ taken[d] + r <= sent[d]
  BY <1>1, ReceivedFacts
<1> HIDE DEF b
<1>3. taken[d] + r \in Nat /\ taken'[d] = taken[d] + r /\ buf'[d] = b
  BY <1>1, <1>2, DirectionFacts DEF RInv, Shapes
<1>4. Shapes'
  BY <1>1, <1>2, <1>3 DEF RInv, Shapes
<1>5. Direction(d)'
  <2>1. closed[d] => r = 0
    BY <1>1, <1>2 DEF RInv, Loop
  <2>2. Passed(d)' = Passed(d)
    BY <1>2, <1>3, DirectionFacts DEF Passed
  <2>3. closed[d] => (CanRead(b) <=> CanRead(buf[d])) /\ taken[d] + r = taken[d]
    BY <1>2, <2>1, DirectionFacts DEF CanRead
  <2>4. ~closed[d] => ~shut[d]
    BY DEF RInv, Direction
  <2> QED  BY <1>1, <1>2, <1>3, <2>2, <2>3, <2>4 DEF RInv, Direction
<1>6. ASSUME NEW e \in Dirs
      PROVE  Direction(e)'
  <2>1. CASE e = d
    BY <1>5, <2>1
  <2>2. CASE e # d
    <3>1. /\ sent'[e] = sent[e] /\ fin'[e] = fin[e] /\ taken'[e] = taken[e]
          /\ buf'[e] = buf[e] /\ closed'[e] = closed[e] /\ out'[e] = out[e]
          /\ shut'[e] = shut[e]
      BY <1>1, <2>2 DEF RInv, Shapes
    <3> QED  BY <3>1, SameDirection DEF RInv
  <2> QED  BY <2>1, <2>2
<1>7. Counters'
  BY <1>1, <1>2, CountersKept
<1>8. Loop'
  BY <1>1 DEF Loop, NoDeadDirection
<1> QED  BY <1>4, <1>6, <1>7, <1>8 DEF RInv

(* The endpoints, and a relay that is over.                                *)
LEMMA EndpointsKeep ==
    ASSUME RInv, NEW d \in Dirs, Feed(d) \/ Finish(d)
    PROVE  RInv'
<1>1. /\ taken' = taken /\ buf' = buf /\ closed' = closed /\ out' = out /\ shut' = shut
      /\ asked' = asked /\ phase' = phase /\ bytesSent' = bytesSent
      /\ bytesRecv' = bytesRecv /\ ~fin[d]
  BY DEF Feed, Finish
<1>2. /\ sent' \in [Dirs -> 0 .. MaxBytes] /\ fin' \in [Dirs -> BOOLEAN]
      /\ \A e \in Dirs : sent[e] <= sent'[e] /\ (fin[e] => fin'[e])
      /\ \A e \in Dirs : fin[e] => sent'[e] = sent[e]
  <2>1. CASE Feed(d)
    <3>1. sent[d] + 1 \in 0 .. MaxBytes /\ sent' = [sent EXCEPT ![d] = @ + 1] /\ fin' = fin
      BY <2>1, DirectionFacts, RelayAssumption DEF Feed
    <3>2. \A e \in Dirs : sent[e] \in Nat
      BY DirectionFacts
    <3> QED  BY <1>1, <3>1, <3>2 DEF RInv, Shapes
  <2>2. CASE Finish(d)
    <3>1. sent' = sent /\ fin' = [fin EXCEPT ![d] = TRUE]
      BY <2>2 DEF Finish
    <3>2. \A e \in Dirs : sent[e] \in Nat
      BY DirectionFacts
    <3> QED  BY <3>1, <3>2 DEF RInv, Shapes
  <2> QED  BY <2>1, <2>2
<1>3. ASSUME NEW e \in Dirs
      PROVE  Direction(e)'
  <2>1. taken[e] \in Nat /\ sent[e] \in Nat /\ sent'[e] \in 0 .. MaxBytes /\ taken[e] <= sent[e]
    BY <1>2, DirectionFacts
  <2>2. taken[e] <= sent'[e]
    BY <1>2, <2>1, RelayAssumption
  <2>3. Direction(e) /\ Passed(e)' = Passed(e)
    BY <1>1 DEF RInv, Passed
  <2>4. closed[e] => fin'[e] /\ taken[e] = sent'[e]
    BY <1>2, <2>3 DEF Direction
  <2> QED  BY <1>1, <2>2, <2>3, <2>4 DEF Direction
<1>4. Shapes' /\ Loop' /\ Counters'
  BY <1>1, <1>2 DEF RInv, Shapes, Loop, NoDeadDirection, Counters
<1> QED  BY <1>3, <1>4 DEF RInv

(* A stutter.                                                              *)
LEMMA StutterKeeps ==
    ASSUME RInv, UNCHANGED vars
    PROVE  RInv'
<1>1. Shapes' /\ Loop' /\ Counters'
  BY DEF vars, RInv, Shapes, Loop, NoDeadDirection, Counters
<1>2. \A d \in Dirs : Direction(d)'
  BY DEF vars, RInv, Direction, Passed
<1> QED  BY <1>1, <1>2 DEF RInv

(* Every step keeps the invariant.                                         *)
LEMMA NextKeeps ==
    ASSUME RInv, [Next]_vars
    PROVE  RInv'
<1>1. CASE UNCHANGED vars
  BY <1>1, StutterKeeps
<1>2. CASE \E d \in Dirs : Feed(d) \/ Finish(d)
  BY <1>2, EndpointsKeep
<1>3. CASE \E d \in Dirs, n \in 0 .. Size : Read(d, n)
  BY <1>3, ReadKeeps
<1>4. CASE \E d \in Dirs, n \in 1 .. Size : Write(d, n)
  BY <1>4, WriteKeeps
<1>5. CASE \E d \in Dirs, r \in 0 .. Size : Fail(d, r)
  BY <1>5, FailKeeps
<1>6. CASE Over
  BY <1>6, StutterKeeps DEF Over
<1> QED  BY <1>1, <1>2, <1>3, <1>4, <1>5, <1>6 DEF Next

(* The invariant of the relay.                                             *)
THEOREM RelayInvariance == Spec => []RInv
<1>1. Init => RInv
  BY RInvInit
<1>2. RInv /\ [Next]_vars => RInv'
  BY NextKeeps
<1> QED  BY <1>1, <1>2, PTL DEF Spec

-----------------------------------------------------------------------------
(* What follows *)

(* The positions stay within the buffers: no assert() of buffer.c fails    *)
(* and no byte is written outside of them.                                 *)
THEOREM RelayTypeCorrect == Spec => []TypeOK
<1>1. ASSUME RInv PROVE TypeOK
  <2>1. ASSUME NEW d \in Dirs
        PROVE  /\ taken[d] \in 0 .. MaxBytes /\ out[d] \in Seq(1 .. MaxBytes)
               /\ buf[d].read <= buf[d].write
    <3>0. /\ sent[d] <= MaxBytes /\ taken[d] <= sent[d] /\ Passed(d) = taken[d] - Count(buf[d])
          /\ sent[d] \in Nat /\ taken[d] \in Nat /\ Count(buf[d]) \in Nat
          /\ Passed(d) \in Nat /\ MaxBytes \in Nat
      BY <1>1, DirectionFacts, RelayAssumption
    <3>1. Passed(d) <= MaxBytes /\ Passed(d) \in Nat
      BY <3>0
    <3>2. out[d] = UpTo(Passed(d)) /\ Ordered(buf[d])
      BY <1>1 DEF RInv, Direction
    <3>3. UpTo(Passed(d)) \in Seq(1 .. MaxBytes)
      BY <3>1, RelayAssumption DEF UpTo
    <3>4. taken[d] \in 0 .. MaxBytes
      BY <3>0
    <3> QED  BY <3>2, <3>3, <3>4 DEF Ordered
  <2>2. /\ taken \in [Dirs -> 0 .. MaxBytes]
        /\ out \in [Dirs -> Seq(1 .. MaxBytes)]
    <3>1. taken = [d \in Dirs |-> taken[d]] /\ out = [d \in Dirs |-> out[d]]
      BY <1>1 DEF RInv, Shapes
    <3> QED  BY <2>1, <3>1
  <2>3. bytesSent \in 0 .. MaxBytes /\ bytesRecv \in 0 .. MaxBytes
    BY <1>1, <2>1, RelayAssumption DEF RInv, Counters, Dirs
  <2> QED  BY <1>1, <2>1, <2>2, <2>3 DEF TypeOK, RInv, Shapes
<1> QED  BY <1>1, RelayInvariance, PTL

(* No byte is lost, repeated or swapped between recv() and send().         *)
THEOREM StreamIsPreserved == Spec => []StreamPreserved
<1>1. ASSUME RInv PROVE StreamPreserved
  <2>1. ASSUME NEW d \in Dirs
        PROVE  out[d] \o Contents(buf[d]) = [i \in 1 .. taken[d] |-> i]
    <3> DEFINE k == Passed(d)
               c == Count(buf[d])
               s == [i \in 1 .. c |-> k + i]
    <3>1. k \in Nat /\ c \in Nat /\ c \in 0 .. c /\ k + c = taken[d]
      BY <1>1, DirectionFacts
    <3>2. Ordered(buf[d]) /\ Holds(buf[d], k) /\ out[d] = UpTo(k)
      BY <1>1 DEF RInv, Direction
    <3>3. \A i \in 1 .. c : Contents(buf[d])[i] = k + i
      <4>1. ASSUME NEW i \in 1 .. c
            PROVE  Contents(buf[d])[i] = k + i
        <5>1. Contents(buf[d])[i] = buf[d].data[buf[d].read + i - 1]
          BY DEF Contents
        <5>2. /\ buf[d].read + i - 1 \in buf[d].read .. buf[d].write - 1
              /\ buf[d].read \in Nat
          BY <3>1, <3>2 DEF Ordered, Buffers, Count
        <5> QED  BY <3>1, <3>2, <5>1, <5>2 DEF Holds
      <4> QED  BY <4>1
    <3>4. Contents(buf[d]) = s
      BY <3>3 DEF Contents
    <3>5. UpTo(k) \o s = UpTo(k + c)
      BY <3>1, UpToConcat
    <3> QED  BY <3>1, <3>2, <3>4, <3>5 DEF UpTo
  <2> QED  BY <2>1 DEF StreamPreserved
<1> QED  BY <1>1, RelayInvariance, PTL

(* The sink hears of the end after the last byte.                          *)
THEOREM NoTruncatedStream == Spec => []NoTruncation
<1>1. ASSUME RInv PROVE NoTruncation
  <2>1. ASSUME NEW d \in Dirs, shut[d]
        PROVE  fin[d] /\ Len(out[d]) = sent[d]
    <3>1. fin[d] /\ taken[d] = sent[d] /\ ~CanRead(buf[d])
      BY <1>1, <2>1 DEF RInv, Direction
    <3> QED  BY <1>1, <3>1, DirectionFacts DEF CanRead
  <2> QED  BY <2>1 DEF NoTruncation
<1> QED  BY <1>1, RelayInvariance, PTL

(* The end is passed on with the last byte, whichever handler wrote it.    *)
THEOREM EofIsForwarded == Spec => []EofForwarded
<1>1. RInv => EofForwarded
  BY DEF RInv, Direction, EofForwarded
<1> QED  BY <1>1, RelayInvariance, PTL

(* A relay in COPY never waits for an event it did not ask for.            *)
THEOREM NoDirectionDies == Spec => []NoDeadDirection
<1>1. RInv => NoDeadDirection
  BY DEF RInv, Loop
<1> QED  BY <1>1, RelayInvariance, PTL

(* DONE comes after both streams and both ends were passed on.             *)
THEOREM DoneAfterBothStreams == Spec => []DoneIsComplete
<1>1. ASSUME RInv PROVE DoneIsComplete
  <2>1. ASSUME NEW d \in Dirs, phase = "DONE"
        PROVE  shut[d] /\ Len(out[d]) = sent[d]
    <3>1. closed[d] /\ ~CanRead(buf[d])
      BY <1>1, <2>1 DEF RInv, Loop
    <3>2. taken[d] = sent[d] /\ shut[d]
      BY <1>1, <3>1 DEF RInv, Direction
    <3> QED  BY <1>1, <3>1, <3>2, DirectionFacts DEF CanRead
  <2> QED  BY <2>1 DEF DoneIsComplete
<1> QED  BY <1>1, RelayInvariance, PTL

(* All of it together.                                                     *)
THEOREM StreamsStaySound == Spec => []StreamsAreSound
  BY RelayTypeCorrect, StreamIsPreserved, NoTruncatedStream, EofIsForwarded,
     DoneAfterBothStreams, PTL DEF StreamsAreSound

-----------------------------------------------------------------------------
(* Each direction is a channel *)

(* The facts that make a step of the relay a step of a direction's channel.*)
GetsOnly(d) ==
    /\ sent'[d] = sent[d] /\ fin'[d] = fin[d]
    /\ \/ out'[d] = out[d] /\ shut'[d] = shut[d]
       \/ /\ ~shut[d] /\ Passed(d)' \in Nat /\ Passed(d) <= Passed(d)'

(* Read, Write and Fail pass bytes on and leave what an endpoint sent.     *)
LEMMA HandlersGet ==
    ASSUME RInv, RInv', NEW e \in Dirs, NEW d \in Dirs, NEW n \in Nat,
           Read(e, n) \/ Write(e, n) \/ Fail(e, n)
    PROVE  GetsOnly(d)
<1>1. sent' = sent /\ fin' = fin
  BY DEF Read, Write, Fail
<1>2. out \in [Dirs -> Seq(Nat)] /\ shut \in [Dirs -> BOOLEAN]
  BY DEF RInv, Shapes
<1>3. Passed(d) \in Nat /\ Len(out[d]) = Passed(d) /\ out[d] \in Seq(Nat)
  BY DirectionFacts
<1>4. Passed(d)' \in Nat /\ out'[d] = UpTo(Passed(d)')
  BY DEF RInv, Direction
<1>5. Len(out'[d]) = Passed(d)'
  BY <1>4 DEF UpTo
<1>6. CASE Fail(e, n)
  BY <1>1, <1>6 DEF Fail, GetsOnly
<1>7. CASE e # d /\ (Read(e, n) \/ Write(e, n))
  BY <1>1, <1>2, <1>7 DEF Read, Write, Sending, GetsOnly
<1>8. CASE e = d /\ (Read(d, n) \/ Write(d, n))
  <2>1. PICK b : Ordered(b) /\ Holds(b, Passed(d)) /\ n \in 0 .. Count(b) /\ Sending(d, b, n)
    <3>1. CASE Read(d, n)
      <4>1. LoopTakes(d) \in 0 .. LoopTakes(d)
        BY DirectionFacts DEF LoopTakes, Available
      <4> QED  BY <3>1, <4>1, ReceivedFacts DEF Read
    <3>2. CASE Write(d, n)
      BY <3>2, DirectionFacts DEF Write, RInv, Direction
    <3> QED  BY <1>8, <3>1, <3>2
  <2>2. Passed(d) <= Passed(d)'
    <3>1. out'[d] = UpTo(Passed(d) + n)
      BY <1>2, <2>1, SendingFacts
    <3>2. Passed(d) + n \in Nat
      BY <1>3
    <3>3. Len(UpTo(Passed(d) + n)) = Passed(d) + n
      BY <3>2 DEF UpTo
    <3> QED  BY <1>3, <1>5, <3>1, <3>3
  <2>3. ~shut[d]
    <3>1. Read(d, n) => ~closed[d]
      BY DEF RInv, Loop, Read, Readable, Source
    <3>2. Write(d, n) => CanRead(buf[d])
      BY DirectionFacts DEF Write, CanRead
    <3> QED  BY <1>8, <3>1, <3>2 DEF RInv, Direction
  <2> QED  BY <1>1, <1>4, <2>2, <2>3 DEF GetsOnly
<1> QED  BY <1>6, <1>7, <1>8

(* The sink of d gets the next bytes, and perhaps the end with them.       *)
Gets(d) ==
    \E n \in 0 .. sent[d] :
       /\ Len(out[d]) + n <= sent[d]
       /\ out'[d] = out[d] \o [i \in 1 .. n |-> Len(out[d]) + i]
       /\ shut'[d] \in {shut[d], fin[d] /\ Len(out[d]) + n = sent[d]}
       /\ ~shut[d] /\ sent'[d] = sent[d] /\ fin'[d] = fin[d]

(* A step of a handler that passes something on is a Gets.                 *)
LEMMA HandlersMap ==
    ASSUME RInv, RInv', NEW d \in Dirs, GetsOnly(d),
           out'[d] # out[d] \/ shut'[d] # shut[d]
    PROVE  Gets(d)
<1> DEFINE k == Passed(d)
           n == Passed(d)' - Passed(d)
<1>1. /\ sent'[d] = sent[d] /\ fin'[d] = fin[d] /\ ~shut[d]
      /\ Passed(d)' \in Nat /\ Passed(d) <= Passed(d)'
  BY DEF GetsOnly
<1>2. /\ Passed(d) \in Nat /\ Len(out[d]) = Passed(d) /\ sent[d] \in Nat
      /\ shut[d] \in BOOLEAN
  BY DirectionFacts
<1>3. /\ out[d] = UpTo(Passed(d)) /\ out'[d] = UpTo(Passed(d)')
      /\ taken'[d] <= sent'[d]
  BY DEF RInv, Direction
<1>4. taken'[d] \in Nat /\ Count(buf'[d]) \in Nat /\ Passed(d)' = taken'[d] - Count(buf'[d])
  <2>1. Ordered(buf'[d]) /\ taken'[d] \in Nat
    BY DEF RInv, Shapes, Direction
  <2>2. Count(buf'[d]) \in Nat
    BY <2>1, BufferAssumption DEF Ordered, Buffers, Count
  <2> QED  BY <2>1, <2>2 DEF Passed
<1>5. n \in 0 .. sent[d] /\ n \in Nat /\ k + n = Passed(d)' /\ k + n <= sent[d]
  BY <1>1, <1>2, <1>3, <1>4
<1>6. out'[d] = out[d] \o [i \in 1 .. n |-> Len(out[d]) + i]
  <2> HIDE DEF n
  <2> QED  BY <1>2, <1>3, <1>5, UpToConcat
<1>7. shut'[d] \in {shut[d], fin[d] /\ Len(out[d]) + n = sent[d]}
  <2>1. CASE ~shut'[d]
    BY <1>1, <1>2, <2>1 DEF RInv, Shapes
  <2>2. CASE shut'[d]
    <3>1. closed'[d] /\ ~CanRead(buf'[d]) /\ fin'[d] /\ taken'[d] = sent'[d]
      BY <2>2 DEF RInv, Direction
    <3>2. Passed(d)' = sent[d]
      BY <1>1, <1>4, <3>1 DEF CanRead
    <3>3. fin[d] /\ Len(out[d]) + n = sent[d]
      BY <1>1, <1>2, <1>5, <3>1, <3>2
    <3>4. shut'[d] = TRUE /\ fin[d] = TRUE
      BY <2>2, <3>3 DEF RInv, Shapes
    <3> QED  BY <3>3, <3>4
  <2> QED  BY <2>1, <2>2
<1> HIDE DEF n
<1>8. Len(out[d]) + n <= sent[d]
  BY <1>2, <1>5
<1> QED  BY <1>1, <1>5, <1>6, <1>7, <1>8 DEF Gets

(* An endpoint sends or ends the stream of its own direction.              *)
LEMMA EndpointsMap ==
    ASSUME RInv, NEW e \in Dirs, NEW d \in Dirs, Feed(e) \/ Finish(e)
    PROVE  /\ out'[d] = out[d] /\ shut'[d] = shut[d]
           /\ \/ sent'[d] = sent[d] /\ fin'[d] = fin[d]
              \/ ~fin[d] /\ sent'[d] = sent[d] + 1 /\ fin'[d] = fin[d]
              \/ ~fin[d] /\ sent'[d] = sent[d] /\ fin'[d] = TRUE
BY DEF RInv, Shapes, Feed, Finish

(* Every step of the relay, seen from one direction.                       *)
LEMMA StepsMap ==
    ASSUME RInv, RInv', [Next]_vars, NEW d \in Dirs
    PROVE  \/ ~fin[d] /\ sent'[d] = sent[d] + 1
              /\ fin'[d] = fin[d] /\ out'[d] = out[d] /\ shut'[d] = shut[d]
           \/ ~fin[d] /\ fin'[d] = TRUE
              /\ sent'[d] = sent[d] /\ out'[d] = out[d] /\ shut'[d] = shut[d]
           \/ Gets(d)
           \/ /\ sent'[d] = sent[d] /\ fin'[d] = fin[d]
              /\ out'[d] = out[d] /\ shut'[d] = shut[d]
<1>1. CASE \E e \in Dirs : Feed(e) \/ Finish(e)
  BY <1>1, EndpointsMap
<1>2. CASE \E e \in Dirs, n \in Nat : Read(e, n) \/ Write(e, n) \/ Fail(e, n)
  <2>1. GetsOnly(d)
    BY <1>2, HandlersGet
  <2>2. CASE out'[d] # out[d] \/ shut'[d] # shut[d]
    BY <2>1, <2>2, HandlersMap
  <2>3. CASE out'[d] = out[d] /\ shut'[d] = shut[d]
    BY <2>1, <2>3 DEF GetsOnly
  <2> QED  BY <2>2, <2>3
<1>3. CASE UNCHANGED vars \/ Over
  BY <1>3 DEF Over, vars
<1>4. \/ \E e \in Dirs : Feed(e) \/ Finish(e)
      \/ \E e \in Dirs, n \in Nat : Read(e, n) \/ Write(e, n) \/ Fail(e, n)
      \/ UNCHANGED vars \/ Over
  <2>1. 0 .. Size \subseteq Nat /\ 1 .. Size \subseteq Nat
    BY BufferAssumption
  <2> QED  BY <2>1 DEF Next
<1> QED  BY <1>1, <1>2, <1>3, <1>4

(* Each direction implements a channel that loses, repeats and swaps       *)
(* nothing and announces the end after the last byte.                      *)
THEOREM RelayRefinement == Spec => ImplementsChannels
<1>1. Init => ClientToOrigin!Init /\ OriginToClient!Init
  <2> SUFFICES ASSUME Init PROVE ClientToOrigin!Init /\ OriginToClient!Init
    OBVIOUS
  <2>1. sent["c2o"] \in Nat /\ sent["o2c"] \in Nat
    BY RInvInit, DirectionFacts DEF Dirs
  <2> QED  BY <2>1 DEF Init, ClientToOrigin!Init, OriginToClient!Init, Dirs
<1>2. RInv /\ RInv' /\ [Next]_vars => [ClientToOrigin!Next]_ClientToOrigin!channelVars
  <2> SUFFICES ASSUME RInv, RInv', [Next]_vars
               PROVE  [ClientToOrigin!Next]_ClientToOrigin!channelVars
    OBVIOUS
  <2>1. "c2o" \in Dirs
    BY DEF Dirs
  <2> QED  BY <2>1, StepsMap DEF ClientToOrigin!Next, ClientToOrigin!channelVars,
           ClientToOrigin!Put, ClientToOrigin!End, ClientToOrigin!Get, Gets
<1>3. RInv /\ RInv' /\ [Next]_vars => [OriginToClient!Next]_OriginToClient!channelVars
  <2> SUFFICES ASSUME RInv, RInv', [Next]_vars
               PROVE  [OriginToClient!Next]_OriginToClient!channelVars
    OBVIOUS
  <2>1. "o2c" \in Dirs
    BY DEF Dirs
  <2> QED  BY <2>1, StepsMap DEF OriginToClient!Next, OriginToClient!channelVars,
           OriginToClient!Put, OriginToClient!End, OriginToClient!Get, Gets
<1> QED  BY <1>1, <1>2, <1>3, RelayInvariance, PTL
         DEF Spec, ImplementsChannels, ClientToOrigin!Spec, OriginToClient!Spec
=============================================================================
