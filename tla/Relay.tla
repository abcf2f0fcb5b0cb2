------------------------------- MODULE Relay -------------------------------
(***************************************************************************)
(* The COPY state of one connection (states/relay.c): two bounded buffers  *)
(* between two sockets, partial reads and writes, half-closing, and the    *)
(* interests that decide which event wakes the relay next.                 *)
(*                                                                         *)
(* The bytes each endpoint sends are numbered 1, 2, 3, ...  The kernel is  *)
(* what lies between the source's counter and the bytes taken by recv(2);  *)
(* how much send(2) accepts is a choice.  An event runs its handler to the *)
(* end, so an action is one call of relay_on_read_ready() or of            *)
(* relay_on_write_ready().                                                 *)
(***************************************************************************)
EXTENDS Buffer, Sequences

CONSTANTS
    MaxBytes,  \* bound: how many bytes an endpoint sends
    MaxEarly   \* bound: bytes the client sent behind its request

ASSUME RelayAssumption ==
    MaxBytes \in Nat /\ MaxEarly \in 0 .. MaxBytes

VARIABLES
    sent, fin,     \* each endpoint: bytes sent, and its stream ended
    taken,         \* bytes that recv() took from each endpoint
    buf,           \* read_buffer ("c2o") and write_buffer ("o2c")
    closed,        \* client_closed and origin_closed
    out, shut,     \* what each direction's sink got: bytes, and SHUT_WR
    asked,         \* the interests of both descriptors
    phase,         \* COPY, DONE or ERROR
    bytesSent, bytesRecv   \* metrics

vars == <<sent, fin, taken, buf, closed, out, shut, asked, phase,
          bytesSent, bytesRecv>>

Dirs == {"c2o", "o2c"}

Other(d) == IF d = "c2o" THEN "o2c" ELSE "c2o"

(* asked[d] is what the descriptor that feeds direction d asks for: the    *)
(* client's feeds "c2o" and the origin's "o2c".                            *)
Source(d) == d
Sink(d)   == Other(d)

Events == {"READ", "WRITE"}

(* read_buffer when the request was parsed: empty, or e bytes the client   *)
(* sent too early behind the p bytes of the request received with them.    *)
Early == {[data  |-> [i \in Cells |-> IF i \in p .. p + e - 1 THEN i - p + 1 ELSE 0],
           read  |-> p, write |-> p + e] : p \in 1 .. Size, e \in 1 .. MaxEarly}

(* relay_on_arrival()                                                      *)
Init ==
    /\ buf \in {[d \in Dirs |-> IF d = "c2o" THEN b ELSE Empty] :
                  b \in {Empty} \cup {b \in Early : b.write <= Size}}
    /\ taken = [d \in Dirs |-> Count(buf[d])]
    /\ sent = taken
    /\ fin = [d \in Dirs |-> FALSE]
    /\ closed = [d \in Dirs |-> FALSE]
    /\ out = [d \in Dirs |-> <<>>]
    /\ shut = [d \in Dirs |-> FALSE]
    /\ asked = [d \in Dirs |-> {"READ"}]
    /\ phase = "COPY"
    /\ bytesSent = 0 /\ bytesRecv = 0

-----------------------------------------------------------------------------
(* The endpoints *)

Feed(d) ==
    /\ ~fin[d] /\ sent[d] < MaxBytes
    /\ sent' = [sent EXCEPT ![d] = @ + 1]
    /\ UNCHANGED <<fin, taken, buf, closed, out, shut, asked, phase,
                   bytesSent, bytesRecv>>

Finish(d) ==
    /\ ~fin[d]
    /\ fin' = [fin EXCEPT ![d] = TRUE]
    /\ UNCHANGED <<sent, taken, buf, closed, out, shut, asked, phase,
                   bytesSent, bytesRecv>>

-----------------------------------------------------------------------------
(* The handlers *)

(* Faulty: a source is not read once the other has ended its stream.       *)
WantedWhileOpen(b, cl) ==
    [d \in Dirs |-> {e \in Events :
        \/ e = "READ" /\ ~cl[d] /\ ~cl[Other(d)] /\ CanWrite(b[d])
        \/ e = "WRITE" /\ CanRead(b[Other(d)])}]

(* Faulty: a sink is never waited for.                                     *)
WantedReads(b, cl) ==
    [d \in Dirs |-> {e \in Events : e = "READ" /\ ~cl[d] /\ CanWrite(b[d])}]

(* relay_compute_interests(): b are the buffers and cl the closed flags.   *)
Wanted(b, cl) ==
    [d \in Dirs |-> {e \in Events :
        \/ e = "READ" /\ ~cl[d] /\ CanWrite(b[d])
        \/ e = "WRITE" /\ CanRead(b[Other(d)])}]

(* relay_finished()                                                        *)
Finished(b, cl) == \A d \in Dirs : cl[d] /\ ~CanRead(b[d])

(* How both handlers end.                                                  *)
Continue(b, cl) ==
    IF Finished(b, cl) THEN phase' = "DONE" /\ UNCHANGED asked
    ELSE phase' = "COPY" /\ asked' = Wanted(b, cl)

(* Faulty: the end of the stream is forgotten when the buffer drains late. *)
NeverShut(b, end) == FALSE

(* SHUT_WR is due when the source has ended and nothing waits in b.        *)
ShutDue(b, end) == end /\ ~CanRead(b)

(* The recv() loop takes r bytes into the buffer of d.                     *)
Received(d, r) == Stored(buf[d], r, [i \in 1 .. r |-> taken[d] + i])

(* send() accepts the first n bytes of b.                                  *)
Sending(d, b, n) == out' = [out EXCEPT ![d] = @ \o SubSeq(Contents(b), 1, n)]

Count2Metrics(d, r) ==
    /\ bytesRecv' = IF d = "c2o" THEN bytesRecv + r ELSE bytesRecv
    /\ bytesSent' = IF d = "o2c" THEN bytesSent + r ELSE bytesSent

Available(d) == sent[d] - taken[d]

Readable(d) == "READ" \in asked[Source(d)] /\ (Available(d) > 0 \/ fin[d])

(* recv() is called until the buffer is full, nothing is left, or EOF.     *)
LoopTakes(d) == IF Space(buf[d]) <= Available(d) THEN Space(buf[d]) ELSE Available(d)

(* Faulty: the end is noticed with bytes still in the socket.              *)
EofAtOnce(d) == fin[d]

GotEof(d) == fin[d] /\ Space(buf[d]) > Available(d)

(* relay_on_read_ready(): send() accepts n bytes, 0 standing for EAGAIN.   *)
Read(d, n) ==
    LET b  == Received(d, LoopTakes(d))
        b2 == ReadAdv(b, n)
    IN
    /\ phase = "COPY" /\ Readable(d)
    /\ n \in 0 .. Count(b)
    /\ taken' = [taken EXCEPT ![d] = @ + LoopTakes(d)]
    /\ Count2Metrics(d, LoopTakes(d))
    /\ Sending(d, b, n)
    /\ buf' = [buf EXCEPT ![d] = b2]
    /\ closed' = [closed EXCEPT ![d] = @ \/ GotEof(d)]
    /\ shut' = [shut EXCEPT ![d] = @ \/ ShutDue(b2, GotEof(d))]
    /\ Continue(buf', closed')
    /\ UNCHANGED <<sent, fin>>

(* relay_on_write_ready() of the sink of d: send() accepts n > 0 bytes.    *)
(* When it accepts none, the same interests are computed again: a stutter. *)
Write(d, n) ==
    /\ phase = "COPY" /\ "WRITE" \in asked[Sink(d)]
    /\ n \in 1 .. Count(buf[d])
    /\ Sending(d, buf[d], n)
    /\ buf' = [buf EXCEPT ![d] = ReadAdv(@, n)]
    /\ shut' = [shut EXCEPT ![d] = @ \/ ShutDue(buf'[d], closed[d])]
    /\ Continue(buf', closed)
    /\ UNCHANGED <<sent, fin, taken, closed, bytesSent, bytesRecv>>

(* A handler returns ERROR: recv() failed after taking r bytes, or send()  *)
(* failed after the loop (r is then all of it).  The sweep of idle         *)
(* connections ends the relay in the same way, with r = 0.                 *)
Fail(d, r) ==
    /\ phase = "COPY" /\ phase' = "ERROR"
    /\ r \in 0 .. LoopTakes(d)
    /\ r > 0 => "READ" \in asked[Source(d)]
    /\ taken' = [taken EXCEPT ![d] = @ + r]
    /\ buf' = [buf EXCEPT ![d] = Received(d, r)]
    /\ Count2Metrics(d, r)
    /\ UNCHANGED <<sent, fin, closed, out, shut, asked>>

(* The connection was closed.                                              *)
Over == phase # "COPY" /\ UNCHANGED vars

Next ==
    \/ \E d \in Dirs : Feed(d) \/ Finish(d)
    \/ \E d \in Dirs, n \in 0 .. Size : Read(d, n)
    \/ \E d \in Dirs, n \in 1 .. Size : Write(d, n)
    \/ \E d \in Dirs, r \in 0 .. Size : Fail(d, r)
    \/ Over

Spec == Init /\ [][Next]_vars

(* selector_select() reports every event that is asked for and true, and   *)
(* the endpoints go on reading, so that send() accepts bytes in the end.   *)
FairSpec ==
    /\ Spec
    /\ \A d \in Dirs :
          /\ WF_vars(\E n \in 0 .. Size : Read(d, n))
          /\ WF_vars(\E n \in 1 .. Size : Write(d, n))

-----------------------------------------------------------------------------
(* Properties *)

(* The bounds of the positions are the assert()s of buffer.c.              *)
TypeOK ==
    /\ sent \in [Dirs -> 0 .. MaxBytes] /\ fin \in [Dirs -> BOOLEAN]
    /\ taken \in [Dirs -> 0 .. MaxBytes]
    /\ buf \in [Dirs -> Buffers] /\ \A d \in Dirs : buf[d].read <= buf[d].write
    /\ closed \in [Dirs -> BOOLEAN]
    /\ out \in [Dirs -> Seq(1 .. MaxBytes)] /\ shut \in [Dirs -> BOOLEAN]
    /\ asked \in [Dirs -> SUBSET Events] /\ phase \in {"COPY", "DONE", "ERROR"}
    /\ bytesSent \in 0 .. MaxBytes /\ bytesRecv \in 0 .. MaxBytes

(* What the sink got and what waits in the buffer are, in order, exactly   *)
(* the bytes taken from the source: none is lost, repeated or swapped by   *)
(* the partial writes, the compaction or the retries.                      *)
StreamPreserved ==
    \A d \in Dirs : out[d] \o Contents(buf[d]) = [i \in 1 .. taken[d] |-> i]

(* A half-close is passed on only after the last byte of the stream.       *)
NoTruncation ==
    \A d \in Dirs : shut[d] => fin[d] /\ Len(out[d]) = sent[d]

(* A half-close is passed on in the very event that drains the buffer: no  *)
(* later event would do it.                                                *)
EofForwarded ==
    \A d \in Dirs : closed[d] /\ ~CanRead(buf[d]) => shut[d]

(* No direction that still has work waits for an event nobody asked for.   *)
NoDeadDirection ==
    phase = "COPY" => \A d \in Dirs :
       \/ shut[d]
       \/ "READ" \in asked[Source(d)]
       \/ "WRITE" \in asked[Sink(d)]

(* A relay that ends by itself has delivered both streams and their ends.  *)
DoneIsComplete ==
    phase = "DONE" => \A d \in Dirs : shut[d] /\ Len(out[d]) = sent[d]

(* What a direction holds, has passed on and has told its sink fit         *)
(* together after every partial read, partial write and half-close         *)
(* (relay_on_read_ready(), relay_on_write_ready(), buffer.c).              *)
StreamsAreSound ==
    /\ TypeOK /\ StreamPreserved
    /\ NoTruncation /\ EofForwarded /\ DoneIsComplete

(* "Se lee/escribe lo que el kernel permita y lo pendiente queda para el   *)
(* proximo evento" (DESIGN.md:71-72): what waits in a buffer is written    *)
(* when the sink can take it.                                              *)
PendingIsWritten ==
    \A d \in Dirs : CanRead(buf[d]) ~> ~CanRead(buf[d]) \/ phase # "COPY"

(* Every byte is delivered, unless the relay fails or the client had sent  *)
(* some behind its request (see PendingIsWritten).                         *)
Delivery ==
    \A d \in Dirs, n \in 1 .. MaxBytes :
       taken["c2o"] = 0 => (sent[d] >= n ~> Len(out[d]) >= n \/ phase = "ERROR")

(* The relay ends once both endpoints have ended their streams.            *)
RelayEnds == (\A d \in Dirs : fin[d]) ~> phase # "COPY"

(* Each direction is the channel it promises.                              *)
ClientToOrigin == INSTANCE Channel WITH put <- sent["c2o"], ended <- fin["c2o"],
                                        got <- out["c2o"], announced <- shut["c2o"]
OriginToClient == INSTANCE Channel WITH put <- sent["o2c"], ended <- fin["o2c"],
                                        got <- out["o2c"], announced <- shut["o2c"]

ImplementsChannels == ClientToOrigin!Spec /\ OriginToClient!Spec
=============================================================================
