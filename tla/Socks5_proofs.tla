---------------------------- MODULE Socks5_proofs ----------------------------
(***************************************************************************)
(* Proofs about Socks5, for any set of connections, any descriptors, any   *)
(* size of the pool and any number of addresses.                           *)
(*                                                                         *)
(* The invariants of Socks5 are not inductive one by one: that a worker's  *)
(* structure stays allocated needs the reference count, the count needs to *)
(* know which descriptors are registered, that no event reaches a          *)
(* connection being resolved needs its interests, and that a notification  *)
(* finds its connection needs all of these.  IInv states them together.    *)
(***************************************************************************)
EXTENDS Socks5, TLAPS

-----------------------------------------------------------------------------
(* The inductive invariant *)

(* Items belong to live connections; until selector_destroy() every live   *)
(* connection has all its descriptors registered, and nothing else is open.*)
Ownership ==
    /\ \A f \in Fd : item[f] # NoConn =>
          /\ mem[item[f]] = "live"
          /\ f = clientFd[item[f]] \/ f = originFd[item[f]]
          /\ f \in open
    /\ \A c \in Conn : mem[c] = "live" =>
          clientFd[c] \in Fd /\ clientFd[c] # originFd[c]
    /\ mainPc \notin {"destroy", "exit"} =>
          /\ \A f \in open : item[f] # NoConn
          /\ \A c \in Conn : mem[c] = "live" =>
                /\ item[clientFd[c]] = c
                /\ originFd[c] # NoFd => item[originFd[c]] = c

(* A job and the state of its connection and of its worker.                *)
Jobs ==
    /\ \A c \in Conn :
          /\ dnsActive[c] =>
                /\ mem[c] = "live" /\ resolving[c] /\ stm[c] = "REQUEST_RESOLV"
                /\ originFd[c] = NoFd
                /\ mainPc \notin {"destroy", "exit"}
                /\ ~dnsStarted[c] => dnsCompleted[c]
          /\ ~dnsActive[c] => ~dnsStarted[c] /\ ~dnsCompleted[c] /\ ~dnsFailed[c]
          /\ mem[c] = "live" =>
                /\ resolving[c] => dnsActive[c]
                /\ Looping /\ stm[c] = "REQUEST_RESOLV" => dnsActive[c]
          /\ dnsStarted[c] <=> wpc[c] # "none"
          /\ wpc[c] \in {"notify", "flagOk", "flagFail", "exited"} => dnsCompleted[c]
          /\ wpc[c] = "lookup" => ~dnsCompleted[c]
          /\ dnsFailed[c] => dnsCompleted[c] /\ wpc[c] \in {"none", "exited"}

(* The job is completed, and its worker needs no mutex of the selector.    *)
Announced(c) ==
    dnsActive[c] /\ dnsCompleted[c] /\ ~dnsFailed[c]
      /\ wpc[c] \in {"none", "flagOk", "exited"}

(* Where the announcement of every completed job is.                       *)
Notifications ==
    /\ mainPc = "join" => cur \in Conn /\ Announced(cur)
    /\ mainPc # "join" => cur = NoConn
    /\ Looping =>
          /\ \A f \in Fd : queued[f] > 0 =>
                /\ queued[f] = 1 /\ item[f] # NoConn
                /\ clientFd[item[f]] = f /\ Announced(item[f])
                /\ cur # item[f]
          /\ NoLostCompletion

ClientInterest(s) ==
    IF s \in ReadStates THEN "READ"
    ELSE IF s \in WriteStates THEN "WRITE"
    ELSE IF s = "COPY" THEN "RELAY" ELSE "NOOP"

OriginInterest(s) ==
    IF s = "REQUEST_CONNECTING" THEN "WRITE"
    ELSE IF s = "COPY" THEN "RELAY" ELSE "NOOP"

(* What each descriptor asks for in each state, and who has an origin.     *)
Interested ==
    /\ \A c \in Conn : mem[c] = "live" =>
          /\ originFd[c] # NoFd =>
                stm[c] \in {"REQUEST_CONNECTING", "REQUEST_WRITE", "COPY"}
          /\ stm[c] \in {"REQUEST_CONNECTING", "COPY"} => originFd[c] # NoFd
          /\ reply[c] = "succeeded" => originFd[c] # NoFd
    /\ \A f \in Fd : item[f] # NoConn =>
          LET c == item[f] IN
          /\ f = clientFd[c] => interest[f] = ClientInterest(stm[c])
          /\ f = originFd[c] => interest[f] = OriginInterest(stm[c])

(* The addresses left and the reply.                                       *)
Replies ==
    /\ EveryAddressTried
    /\ \A c \in Conn : mem[c] = "live" =>
          /\ stm[c] \notin {"REQUEST_WRITE", "COPY"} => reply[c] = "none"
          /\ stm[c] \notin {"REQUEST_CONNECTING", "REQUEST_WRITE", "COPY"} =>
                left[c] = 0

(* The end of main().                                                      *)
Ending ==
    mainPc = "exit" =>
       /\ \A c \in Conn : mem[c] = "heap"
       /\ \A f \in Fd : item[f] = NoConn

IInv == TypeOK /\ Ownership /\ RefsMatchOwners /\ Jobs /\ Notifications
          /\ Interested /\ Replies /\ Ending

-----------------------------------------------------------------------------
(* The invariant holds initially and every action keeps it *)

(* The finite sets of names, the tuples of variables and the abbreviations *)
(* that only rename a condition are expanded everywhere.                   *)
USE ConnAssumption, FdAssumption, SizeAssumption
    DEF ReadStates, WriteStates, States, Interests, MemStates, WorkerPcs, MainPcs,
        loopVars, connVars, dnsVars, selVars, Bit, Looping,
        ClientInterest, OriginInterest

(* A connection is accepted.                                               *)
LEMMA AcceptKeeps ==
    ASSUME NEW c \in Conn, NEW f \in Fd, IInv, Accept(c, f)
    PROVE  IInv'
<1> USE DEF Accept, Fresh, SetInterest, Pool, IInv, TypeOK
<1>1. TypeOK'
  OBVIOUS
<1>2. Ownership'
  BY DEF Ownership
<1>3. RefsMatchOwners'
  BY SMTT(20) DEF Ownership, RefsMatchOwners
<1>4. Jobs'
  BY DEF Jobs
<1>5. Notifications'
  BY DEF Ownership, Jobs, Notifications, NoLostCompletion, Announced
<1>6. Interested'
  BY DEF Interested
<1>7. Replies'
  BY DEF Replies, EveryAddressTried
<1>8. Ending'
  BY DEF Ending
<1> QED  BY <1>1, <1>2, <1>3, <1>4, <1>5, <1>6, <1>7, <1>8

(* A connection is accepted and refused by the selector.                   *)
LEMMA AcceptRefusedKeeps ==
    ASSUME NEW c \in Conn, IInv, AcceptRefused(c)
    PROVE  IInv'
<1> USE DEF AcceptRefused, Fresh, Pool, IInv, TypeOK
<1>1. TypeOK'
  OBVIOUS
<1>2. Ownership'
  BY DEF Ownership
<1>3. RefsMatchOwners'
  BY DEF RefsMatchOwners
<1>4. Jobs'
  BY DEF Jobs
<1>5. Interested'
  BY DEF Interested
<1>6. Replies'
  BY DEF Replies, EveryAddressTried
<1>7. Ending'
  BY DEF Ending
<1>8. Notifications'
  BY DEF Notifications, NoLostCompletion, Announced
<1> QED  BY <1>1, <1>2, <1>3, <1>4, <1>5, <1>6, <1>7, <1>8

(* A message of the negotiation is complete.                               *)
LEMMA NegotiateKeeps ==
    ASSUME NEW c \in Conn, NEW s \in States, IInv, Negotiate(c, s)
    PROVE  IInv'
<1> USE DEF Negotiate, ClientEvent, NegotiationMoves, SetInterest, EventOf,
           IInv, TypeOK
<1>1. TypeOK'
  OBVIOUS
<1>2. Jobs'
  BY DEF Jobs
<1>3. Interested'
  BY DEF Interested
<1>4. Replies'
  BY DEF Replies, EveryAddressTried
<1>5. Ownership' /\ RefsMatchOwners' /\ Notifications' /\ Ending'
  BY DEF Ownership, RefsMatchOwners, Notifications, NoLostCompletion,
     Announced, Ending
<1> QED  BY <1>1, <1>2, <1>3, <1>4, <1>5

(* A connection ends: it has no job, so its references are its descriptors. *)
LEMMA TeardownKeeps ==
    ASSUME NEW c \in Conn, IInv, Teardown(c)
    PROVE  IInv'
<1> USE DEF Teardown, ClientEvent, EventOf, CloseBoth, Owned, Release,
           Registrations, Recycle, Pool, IInv, TypeOK
<1>1. TypeOK'
  BY DEF Ownership, RefsMatchOwners
<1>2. Ownership'
  BY DEF Ownership, RefsMatchOwners, Jobs, Interested
<1>3. RefsMatchOwners'
  BY DEF Ownership, RefsMatchOwners
<1>4. Jobs'
  BY DEF Ownership, RefsMatchOwners, Jobs
<1>5. Notifications'
  BY DEF Ownership, Jobs, Notifications, Interested, NoLostCompletion,
     Announced
<1>6. Interested'
  BY DEF Interested
<1>7. Replies'
  BY DEF Replies, EveryAddressTried
<1>8. Ending'
  BY DEF Ending
<1> QED  BY <1>1, <1>2, <1>3, <1>4, <1>5, <1>6, <1>7, <1>8

(* The sweep closes a connection that is not being resolved.               *)
LEMMA SweepKillKeeps ==
    ASSUME NEW c \in Conn, IInv, SweepKill(c)
    PROVE  IInv'
<1> USE DEF SweepKill, Sweepable, CloseBoth, Owned, Release, Registrations,
           Recycle, Pool, IInv, TypeOK
<1>1. TypeOK'
  BY DEF Ownership, RefsMatchOwners
<1>2. Ownership'
  BY DEF Ownership, RefsMatchOwners, Jobs
<1>3. RefsMatchOwners'
  BY DEF Ownership, RefsMatchOwners
<1>4. Jobs'
  BY DEF Jobs
<1>5. Notifications'
  BY DEF Ownership, Jobs, Notifications, NoLostCompletion, Announced
<1>6. Interested'
  BY DEF Interested
<1>7. Replies'
  BY DEF Replies, EveryAddressTried
<1>8. Ending'
  BY DEF Ending
<1> QED  BY <1>1, <1>2, <1>3, <1>4, <1>5, <1>6, <1>7, <1>8

(* A request is refused.                                                   *)
LEMMA RequestRefusedKeeps ==
    ASSUME NEW c \in Conn, IInv, RequestRefused(c)
    PROVE  IInv'
<1> USE DEF RequestRefused, ClientEvent, Answer, AskToWrite, IInv, TypeOK
<1>1. TypeOK'
  OBVIOUS
<1>2. Ownership'
  BY DEF Ownership
<1>3. RefsMatchOwners'
  BY DEF RefsMatchOwners
<1>4. Jobs'
  BY DEF Jobs
<1>5. Notifications'
  BY DEF Notifications, NoLostCompletion, Announced
<1>6. Interested'
  BY DEF Interested
<1>7. Replies'
  BY DEF Replies, EveryAddressTried
<1>8. Ending'
  BY DEF Ending
<1> QED  BY <1>1, <1>2, <1>3, <1>4, <1>5, <1>6, <1>7, <1>8

(* A destination that is an address: one attempt.                          *)
LEMMA RequestAddressKeeps ==
    ASSUME NEW c \in Conn, IInv, RequestAddress(c)
    PROVE  IInv'
<1>0. /\ ClientEvent(c, "READ") /\ stm[c] = "REQUEST_READ" /\ refs[c] = 1
      /\ UNCHANGED <<loopVars, mem, clientFd, resolving, dnsVars, queued>>
  BY DEF RequestAddress, ClientEvent, IInv, TypeOK, Ownership,
         RefsMatchOwners, Jobs, Interested
<1> USE DEF Connected, InProgress, Unreachable, NewOrigin, Answer, AskToWrite,
           ClientEvent, IInv, TypeOK
<1>1. ASSUME NEW f \in Fd, NEW l \in 0 .. MaxAddrs,
           Connected(c, f, l, refs[c], open, item, interest)
     PROVE  IInv'
  <2>1. TypeOK'
    BY <1>0, <1>1
  <2>2. Ownership'
    BY <1>0, <1>1 DEF Ownership, RefsMatchOwners
  <2>3. RefsMatchOwners'
    BY <1>0, <1>1 DEF Ownership, RefsMatchOwners
  <2>4. Jobs'
    BY <1>0, <1>1 DEF Jobs
  <2>5. Notifications'
    BY <1>0, <1>1 DEF Ownership, Notifications, NoLostCompletion, Announced
  <2>6. Interested'
    BY <1>0, <1>1 DEF Ownership, Interested
  <2>7. Replies'
    BY <1>0, <1>1 DEF Replies, EveryAddressTried
  <2>8. Ending'
    BY <1>0, <1>1 DEF Ending
  <2> QED  BY <2>1, <2>2, <2>3, <2>4, <2>5, <2>6, <2>7, <2>8
<1>2. ASSUME NEW f \in Fd, NEW l \in 0 .. MaxAddrs,
           InProgress(c, f, l, refs[c], open, item, interest)
     PROVE  IInv'
  <2>1. TypeOK'
    BY <1>0, <1>2
  <2>2. Ownership'
    BY <1>0, <1>2 DEF Ownership, RefsMatchOwners
  <2>3. RefsMatchOwners'
    BY <1>0, <1>2 DEF Ownership, RefsMatchOwners
  <2>4. Jobs'
    BY <1>0, <1>2 DEF Jobs
  <2>5. Notifications'
    BY <1>0, <1>2 DEF Ownership, Notifications, NoLostCompletion, Announced
  <2>6. Interested'
    BY <1>0, <1>2 DEF Interested
  <2>7. Replies'
    BY <1>0, <1>2 DEF Replies, EveryAddressTried
  <2>8. Ending'
    BY <1>0, <1>2 DEF Ending
  <2> QED  BY <2>1, <2>2, <2>3, <2>4, <2>5, <2>6, <2>7, <2>8
<1>3. ASSUME Unreachable(c, 0, refs[c], open, item, interest)
     PROVE  IInv'
  <2>1. TypeOK'
    BY <1>0, <1>3
  <2>2. Ownership'
    BY <1>0, <1>3 DEF Ownership, RefsMatchOwners
  <2>3. RefsMatchOwners'
    BY <1>0, <1>3 DEF Ownership, RefsMatchOwners
  <2>4. Jobs'
    BY <1>0, <1>3 DEF Jobs
  <2>5. Notifications'
    BY <1>0, <1>3 DEF Notifications, NoLostCompletion, Announced
  <2>6. Interested'
    BY <1>0, <1>3 DEF Interested
  <2>7. Replies'
    BY <1>0, <1>3 DEF Replies, EveryAddressTried
  <2>8. Ending'
    BY <1>0, <1>3 DEF Ending
  <2> QED  BY <2>1, <2>2, <2>3, <2>4, <2>5, <2>6, <2>7, <2>8
<1> HIDE DEF Connected, InProgress, Unreachable
<1> QED
  <2>1. left[c] = 0
    BY <1>0 DEF Replies
  <2> QED
    BY <1>1, <1>2, <1>3, <2>1 DEF RequestAddress, Connect

(* A connection to the origin is established.                              *)
LEMMA ConnectDoneKeeps ==
    ASSUME NEW c \in Conn, IInv, ConnectDone(c)
    PROVE  IInv'
<1> USE DEF ConnectDone, Answer, AskToWrite, IInv, TypeOK
<1>1. TypeOK'
  OBVIOUS
<1>2. Ownership'
  BY DEF Ownership
<1>3. RefsMatchOwners'
  BY DEF RefsMatchOwners
<1>4. Jobs'
  BY DEF Jobs
<1>5. Notifications'
  BY DEF Notifications, NoLostCompletion, Announced
<1>6. Interested'
  BY DEF Ownership, Interested
<1>7. Replies'
  BY DEF Replies, EveryAddressTried
<1>8. Ending'
  BY DEF Ending
<1> QED  BY <1>1, <1>2, <1>3, <1>4, <1>5, <1>6, <1>7, <1>8

(* An attempt failed: the next address, or the failure, is next.           *)
LEMMA ConnectFailedKeeps ==
    ASSUME NEW c \in Conn, IInv, ConnectFailed(c)
    PROVE  IInv'
<1>0. /\ mem[c] = "live" /\ stm[c] = "REQUEST_CONNECTING" /\ refs[c] = 2
      /\ mainPc = "iter" /\ item[originFd[c]] = c /\ originFd[c] \in Fd
      /\ UNCHANGED <<loopVars, mem, clientFd, resolving, dnsVars, queued>>
  BY DEF ConnectFailed, IInv, TypeOK, Ownership, RefsMatchOwners,
         Jobs, Interested
<1> USE DEF Connected, InProgress, Unreachable, NewOrigin, Answer, AskToWrite,
           Closed, IInv, TypeOK
<1>1. ASSUME NEW f \in Fd, NEW l \in 0 .. MaxAddrs,
           Connected(c, f, l, refs[c] - 1, Closed(originFd[c]),
           [item EXCEPT ![originFd[c]] = NoConn],
           [interest EXCEPT ![originFd[c]] = "NOOP"])
     PROVE  IInv'
  <2>1. TypeOK'
    BY <1>0, <1>1
  <2>2. Ownership'
    BY <1>0, <1>1 DEF Ownership
  <2>3. RefsMatchOwners'
    BY <1>0, <1>1 DEF Ownership, RefsMatchOwners
  <2>4. Jobs'
    BY <1>0, <1>1 DEF Jobs
  <2>5. Notifications'
    BY <1>0, <1>1 DEF Ownership, Notifications, NoLostCompletion, Announced
  <2>6. Interested'
    BY <1>0, <1>1 DEF Ownership, Interested
  <2>7. Replies'
    BY <1>0, <1>1 DEF Replies, EveryAddressTried
  <2>8. Ending'
    BY <1>0, <1>1 DEF Ending
  <2> QED  BY <2>1, <2>2, <2>3, <2>4, <2>5, <2>6, <2>7, <2>8
<1>2. ASSUME NEW f \in Fd, NEW l \in 0 .. MaxAddrs,
           InProgress(c, f, l, refs[c] - 1, Closed(originFd[c]),
           [item EXCEPT ![originFd[c]] = NoConn],
           [interest EXCEPT ![originFd[c]] = "NOOP"])
     PROVE  IInv'
  <2>1. TypeOK'
    <3>1. refs' \in [Conn -> 0 .. 3] /\ left' \in [Conn -> 0 .. MaxAddrs]
      BY <1>0, <1>2
    <3>2. open' \subseteq Fd /\ item' \in [Fd -> Conn \cup {NoConn}]
      BY <1>0, <1>2
    <3>3. interest' \in [Fd -> Interests]
      BY <1>0, <1>2
    <3>4. originFd' \in [Conn -> Fd \cup {NoFd}] /\ stm' \in [Conn -> States]
      BY <1>0, <1>2
    <3> QED  BY <1>0, <1>2, <3>1, <3>2, <3>3, <3>4
  <2>2. Ownership'
    BY <1>0, <1>2 DEF Ownership
  <2>3. RefsMatchOwners'
    BY <1>0, <1>2 DEF Ownership, RefsMatchOwners
  <2>4. Jobs'
    BY <1>0, <1>2 DEF Jobs
  <2>5. Notifications'
    BY <1>0, <1>2 DEF Ownership, Notifications, NoLostCompletion, Announced
  <2>6. Interested'
    BY <1>0, <1>2 DEF Ownership, Interested
  <2>7. Replies'
    BY <1>0, <1>2 DEF Replies, EveryAddressTried
  <2>8. Ending'
    BY <1>0, <1>2 DEF Ending
  <2> QED  BY <2>1, <2>2, <2>3, <2>4, <2>5, <2>6, <2>7, <2>8
<1>3. ASSUME Unreachable(c, 0, refs[c] - 1, Closed(originFd[c]),
           [item EXCEPT ![originFd[c]] = NoConn],
           [interest EXCEPT ![originFd[c]] = "NOOP"])
     PROVE  IInv'
  <2>1. TypeOK'
    BY <1>0, <1>3
  <2>2. Ownership'
    BY <1>0, <1>3 DEF Ownership
  <2>3. RefsMatchOwners'
    BY <1>0, <1>3 DEF Ownership, RefsMatchOwners
  <2>4. Jobs'
    BY <1>0, <1>3 DEF Jobs
  <2>5. Notifications'
    BY <1>0, <1>3 DEF Ownership, Notifications, NoLostCompletion, Announced
  <2>6. Interested'
    BY <1>0, <1>3 DEF Ownership, Interested
  <2>7. Replies'
    BY <1>0, <1>3 DEF Replies, EveryAddressTried
  <2>8. Ending'
    BY <1>0, <1>3 DEF Ending
  <2> QED  BY <2>1, <2>2, <2>3, <2>4, <2>5, <2>6, <2>7, <2>8
<1> HIDE DEF Connected, InProgress, Unreachable
<1> QED
  <2>1. left[c] \in 0 .. MaxAddrs /\ \A l \in 0 .. left[c] - 1 : l \in 0 .. MaxAddrs
    OBVIOUS
  <2>2. CASE left[c] > 0
    BY <1>1, <1>2, <1>3, <2>1, <2>2 DEF ConnectFailed, NextAddress, AnyLeft, Connect
  <2>3. CASE left[c] = 0
    BY <1>3, <2>3 DEF ConnectFailed, NextAddress, AnyLeft
  <2> QED  BY <2>1, <2>2, <2>3

(* A success reply was sent.                                               *)
LEMMA EnterCopyKeeps ==
    ASSUME NEW c \in Conn, IInv, EnterCopy(c)
    PROVE  IInv'
<1> USE DEF EnterCopy, ClientEvent, IInv, TypeOK
<1>1. TypeOK'
  OBVIOUS
<1>2. Jobs'
  BY DEF Jobs
<1>3. Interested'
  BY DEF Ownership, Interested
<1>4. Replies'
  BY DEF Replies, EveryAddressTried
<1>5. Ownership' /\ RefsMatchOwners' /\ Notifications' /\ Ending'
  BY DEF Ownership, RefsMatchOwners, Notifications, NoLostCompletion,
     Announced, Ending
<1> QED  BY <1>1, <1>2, <1>3, <1>4, <1>5

(* A worker is created.                                                    *)
LEMMA ResolveInWorkerKeeps ==
    ASSUME NEW c \in Conn, IInv, ResolveInWorker(c)
    PROVE  IInv'
<1>0. refs[c] = 1
  BY DEF ResolveInWorker, SubmitJob, ClientEvent, IInv, TypeOK, Ownership,
         RefsMatchOwners, Jobs, Interested
<1> USE DEF ResolveInWorker, SubmitJob, ClientEvent, Quieten, SetInterest,
           Retain, IInv, TypeOK
<1>1. TypeOK'
  BY <1>0 DEF Ownership
<1>2. RefsMatchOwners'
  BY <1>0 DEF Ownership, RefsMatchOwners
<1>3. Jobs'
  BY <1>0 DEF Ownership, RefsMatchOwners, Jobs
<1>4. Notifications'
  BY <1>0 DEF Jobs, Notifications, NoLostCompletion, Announced
<1>5. Interested'
  BY <1>0 DEF Interested
<1>6. Replies'
  BY <1>0 DEF Replies, EveryAddressTried
<1>7. Ownership' /\ Ending'
  BY <1>0 DEF Ownership, Ending
<1> QED  BY <1>1, <1>2, <1>3, <1>4, <1>5, <1>6, <1>7

(* No worker could be created.                                             *)
LEMMA ResolveWithoutWorkerKeeps ==
    ASSUME NEW c \in Conn, IInv, ResolveWithoutWorker(c)
    PROVE  IInv'
<1>0. /\ refs[c] = 1 /\ queued[clientFd[c]] = 0 /\ clientFd[c] \in Fd
      /\ mainPc = "iter" /\ item[clientFd[c]] = c
  BY DEF ResolveWithoutWorker, SubmitJob, ClientEvent, IInv, TypeOK, Ownership,
         RefsMatchOwners, Jobs, Interested, Notifications, Announced
<1>a. queued' \in [Fd -> Nat]
  <2>1. queued \in [Fd -> Nat]
    BY DEF IInv, TypeOK
  <2>2. CASE queued' = [queued EXCEPT ![clientFd[c]] = queued[clientFd[c]] + 1]
    BY <1>0, <2>1, <2>2
  <2>3. \/ queued' = [queued EXCEPT ![clientFd[c]] = queued[clientFd[c]] + 1]
        \/ queued' = queued
    BY DEF ResolveWithoutWorker, Enqueue
  <2> QED  BY <2>1, <2>2, <2>3
<1>b. dnsFailed' \in [Conn -> BOOLEAN]
  BY DEF ResolveWithoutWorker, IInv, TypeOK
<1> USE DEF ResolveWithoutWorker, SubmitJob, ClientEvent, Quieten,
           SetInterest, Retain, IInv, TypeOK
<1>1. TypeOK'
  <2>1. /\ dnsStarted' \in [Conn -> BOOLEAN] /\ dnsCompleted' \in [Conn -> BOOLEAN]
        /\ dnsActive' \in [Conn -> BOOLEAN] /\ resolving' \in [Conn -> BOOLEAN]
    OBVIOUS
  <2>2. stm' \in [Conn -> States] /\ dnsResult' \in [Conn -> 0 .. MaxAddrs]
    OBVIOUS
  <2>3. refs' \in [Conn -> 0 .. 3] /\ interest' \in [Fd -> Interests]
    BY <1>0
  <2> QED  BY <1>a, <1>b, <2>1, <2>2, <2>3
<1>2. RefsMatchOwners'
  BY <1>0, <1>a, <1>b DEF RefsMatchOwners
<1>3. Jobs'
  BY <1>0, <1>a, <1>b DEF Ownership, RefsMatchOwners, Jobs
<1>4. Notifications'
  <2>1. CASE Enqueue(clientFd[c]) /\ dnsFailed' = [dnsFailed EXCEPT ![c] = FALSE]
    BY <1>0, <2>1 DEF Enqueue, Ownership, Jobs, Notifications, NoLostCompletion, Announced
  <2>2. CASE UNCHANGED queued /\ dnsFailed' = [dnsFailed EXCEPT ![c] = TRUE]
    BY <1>0, <2>2 DEF Ownership, Jobs, Notifications, NoLostCompletion, Announced
  <2> QED  BY <2>1, <2>2 
<1>5. Interested'
  BY <1>0, <1>a, <1>b DEF Interested
<1>6. Replies'
  BY <1>0, <1>a, <1>b DEF Replies, EveryAddressTried
<1>7. Ownership' /\ Ending'
  BY <1>0, <1>a, <1>b DEF Ownership, Ending
<1> QED  BY <1>1, <1>2, <1>3, <1>4, <1>5, <1>6, <1>7

(* A worker publishes its result.                                          *)
LEMMA WorkerPublishKeeps ==
    ASSUME NEW c \in Conn, NEW n \in 0 .. MaxAddrs, IInv, WorkerPublish(c, n)
    PROVE  IInv'
<1> USE DEF WorkerPublish, IInv, TypeOK
<1>1. TypeOK'
  OBVIOUS
<1>2. Jobs'
  BY DEF Jobs
<1>3. Notifications'
  BY DEF Notifications, NoLostCompletion, Announced
<1>4. Ownership' /\ RefsMatchOwners' /\ Interested' /\ Replies' /\ Ending'
  BY DEF Ownership, RefsMatchOwners, Interested, Replies, EveryAddressTried,
     Ending
<1> QED  BY <1>1, <1>2, <1>3, <1>4

(* A worker notifies.                                                      *)
LEMMA WorkerNotifyKeeps ==
    ASSUME NEW c \in Conn, IInv, WorkerNotify(c)
    PROVE  IInv'
<1> USE DEF WorkerNotify, ResolutionMutexFree, Enqueue, IInv, TypeOK
<1>1. TypeOK'
  BY DEF Ownership, Jobs
<1>2. Jobs'
  BY DEF Jobs
<1>3. Notifications'
  BY DEF Ownership, Jobs, Notifications, NoLostCompletion, Announced
<1>4. Ownership' /\ RefsMatchOwners' /\ Interested' /\ Replies' /\ Ending'
  BY DEF Ownership, RefsMatchOwners, Interested, Replies, EveryAddressTried,
     Ending
<1> QED  BY <1>1, <1>2, <1>3, <1>4

(* A worker could not notify.                                              *)
LEMMA WorkerNotifyFailsKeeps ==
    ASSUME NEW c \in Conn, IInv, WorkerNotifyFails(c)
    PROVE  IInv'
<1> USE DEF WorkerNotifyFails, IInv, TypeOK
<1>1. TypeOK'
  OBVIOUS
<1>2. Jobs'
  BY DEF Jobs
<1>3. Notifications'
  BY DEF Notifications, NoLostCompletion, Announced
<1>4. Ownership' /\ RefsMatchOwners' /\ Interested' /\ Replies' /\ Ending'
  BY DEF Ownership, RefsMatchOwners, Interested, Replies, EveryAddressTried,
     Ending
<1> QED  BY <1>1, <1>2, <1>3, <1>4

(* A worker ends.                                                          *)
LEMMA WorkerExitKeeps ==
    ASSUME NEW c \in Conn, IInv, WorkerExit(c)
    PROVE  IInv'
<1> USE DEF WorkerExit, Outcome, IInv, TypeOK
<1>1. TypeOK'
  OBVIOUS
<1>2. Jobs'
  BY DEF Jobs
<1>3. Notifications'
  BY DEF Jobs, Notifications, NoLostCompletion, Announced
<1>4. Ownership' /\ RefsMatchOwners' /\ Interested' /\ Replies' /\ Ending'
  BY DEF Ownership, RefsMatchOwners, Interested, Replies, EveryAddressTried,
     Ending
<1> QED  BY <1>1, <1>2, <1>3, <1>4

(* Events are ready.                                                       *)
LEMMA SelectReadyKeeps ==
    ASSUME IInv, SelectReady
    PROVE  IInv'
<1> USE DEF SelectReady, IInv, TypeOK
<1>1. TypeOK'
  OBVIOUS
<1>2. Ownership'
  BY DEF Ownership
<1>3. Jobs'
  BY DEF Jobs
<1>4. Notifications'
  BY DEF Notifications, NoLostCompletion, Announced
<1>5. Ending'
  BY DEF Ending
<1>6. RefsMatchOwners' /\ Interested' /\ Replies'
  BY DEF RefsMatchOwners, Interested, Replies, EveryAddressTried
<1> QED  BY <1>1, <1>2, <1>3, <1>4, <1>5, <1>6

(* The loop takes resolution_mutex.                                        *)
LEMMA BlockStartKeeps ==
    ASSUME IInv, BlockStart
    PROVE  IInv'
<1> USE DEF BlockStart, IInv, TypeOK
<1>1. TypeOK'
  OBVIOUS
<1>2. Ownership'
  BY DEF Ownership
<1>3. Jobs'
  BY DEF Jobs
<1>4. Notifications'
  BY DEF Notifications, NoLostCompletion, Announced
<1>5. Ending'
  BY DEF Ending
<1>6. RefsMatchOwners' /\ Interested' /\ Replies'
  BY DEF RefsMatchOwners, Interested, Replies, EveryAddressTried
<1> QED  BY <1>1, <1>2, <1>3, <1>4, <1>5, <1>6

(* The loop is left by an error.                                           *)
LEMMA SelectFailsKeeps ==
    ASSUME IInv, SelectFails
    PROVE  IInv'
<1> USE DEF SelectFails, IInv, TypeOK
<1>1. TypeOK'
  OBVIOUS
<1>2. Ownership'
  BY DEF Ownership
<1>3. Jobs'
  BY DEF Jobs
<1>4. Notifications'
  BY DEF Notifications, NoLostCompletion, Announced
<1>5. Ending'
  BY DEF Ending
<1>6. RefsMatchOwners' /\ Interested' /\ Replies'
  BY DEF RefsMatchOwners, Interested, Replies, EveryAddressTried
<1> QED  BY <1>1, <1>2, <1>3, <1>4, <1>5, <1>6

(* A notification is taken from the list.                                  *)
LEMMA BlockDispatchKeeps ==
    ASSUME NEW f \in Fd, IInv, BlockDispatch(f)
    PROVE  IInv'
<1> USE DEF BlockDispatch, IInv, TypeOK
<1>1. TypeOK'
  OBVIOUS
<1>2. Ownership'
  BY DEF Ownership
<1>3. Jobs'
  BY DEF Jobs
<1>4. Notifications'
  BY DEF Ownership, Jobs, Notifications, NoLostCompletion, Announced
<1>5. Ending'
  BY DEF Ending
<1>6. RefsMatchOwners' /\ Interested' /\ Replies'
  BY DEF RefsMatchOwners, Interested, Replies, EveryAddressTried
<1> QED  BY <1>1, <1>2, <1>3, <1>4, <1>5, <1>6

(* The loop joined a worker and acts on its result.                        *)
LEMMA BlockFinishKeeps ==
    ASSUME IInv, BlockFinish
    PROVE  IInv'
<1> DEFINE c == cur
<1>0. /\ c = cur /\ c \in Conn /\ mainPc = "join" /\ CanJoin(c) /\ RemoveJob(c)
      /\ mem[c] = "live" /\ stm[c] = "REQUEST_RESOLV" /\ refs[c] = 2
      /\ mainPc' = "block" /\ cur' = NoConn
      /\ UNCHANGED <<signals, closing, mem, clientFd, queued>>
  BY DEF BlockFinish, IInv, TypeOK, Ownership, RefsMatchOwners, Jobs,
         Notifications, Announced
<1> HIDE DEF c
<1> USE DEF Connected, InProgress, Unreachable, NewOrigin, Answer, AskToWrite,
           CanJoin, RemoveJob, IInv, TypeOK
<1>1. ASSUME NEW f \in Fd, NEW l \in 0 .. MaxAddrs,
           Connected(c, f, l, refs[c] - 1, open, item, interest)
     PROVE  IInv'
  <2>1. TypeOK'
    BY <1>0, <1>1
  <2>2. Ownership'
    BY <1>0, <1>1 DEF Ownership, Jobs
  <2>3. RefsMatchOwners'
    BY <1>0, <1>1 DEF Ownership, RefsMatchOwners
  <2>4. Jobs'
    BY <1>0, <1>1 DEF Jobs
  <2>5. Notifications'
    BY <1>0, <1>1 DEF Ownership, Notifications, NoLostCompletion, Announced
  <2>6. Interested'
    BY <1>0, <1>1 DEF Ownership, Interested
  <2>7. Replies'
    BY <1>0, <1>1 DEF Replies, EveryAddressTried
  <2>8. Ending'
    BY <1>0, <1>1 DEF Ending
  <2> QED  BY <2>1, <2>2, <2>3, <2>4, <2>5, <2>6, <2>7, <2>8
<1>2. ASSUME NEW f \in Fd, NEW l \in 0 .. MaxAddrs,
           InProgress(c, f, l, refs[c] - 1, open, item, interest)
     PROVE  IInv'
  <2>1. TypeOK'
    <3>1. refs' \in [Conn -> 0 .. 3] /\ left' \in [Conn -> 0 .. MaxAddrs]
      BY <1>0, <1>2
    <3>2. open' \subseteq Fd /\ item' \in [Fd -> Conn \cup {NoConn}]
      BY <1>0, <1>2
    <3>3. interest' \in [Fd -> Interests]
      BY <1>0, <1>2
    <3>4. originFd' \in [Conn -> Fd \cup {NoFd}] /\ stm' \in [Conn -> States]
      BY <1>0, <1>2
    <3>5. /\ dnsActive' \in [Conn -> BOOLEAN] /\ dnsStarted' \in [Conn -> BOOLEAN]
          /\ dnsCompleted' \in [Conn -> BOOLEAN] /\ dnsFailed' \in [Conn -> BOOLEAN]
          /\ resolving' \in [Conn -> BOOLEAN]
          /\ dnsResult' \in [Conn -> 0 .. MaxAddrs] /\ wpc' \in [Conn -> WorkerPcs]
      BY <1>0 DEF RemoveJob
    <3> QED  BY <1>0, <1>2, <3>1, <3>2, <3>3, <3>4, <3>5
  <2>2. Ownership'
    BY <1>0, <1>2 DEF Ownership, Jobs
  <2>3. RefsMatchOwners'
    BY <1>0, <1>2 DEF Ownership, RefsMatchOwners
  <2>4. Jobs'
    BY <1>0, <1>2 DEF Jobs
  <2>5. Notifications'
    BY <1>0, <1>2 DEF Ownership, Notifications, NoLostCompletion, Announced
  <2>6. Interested'
    BY <1>0, <1>2 DEF Ownership, Interested
  <2>7. Replies'
    BY <1>0, <1>2 DEF Replies, EveryAddressTried
  <2>8. Ending'
    BY <1>0, <1>2 DEF Ending
  <2> QED  BY <2>1, <2>2, <2>3, <2>4, <2>5, <2>6, <2>7, <2>8
<1>3. ASSUME Unreachable(c, 0, refs[c] - 1, open, item, interest)
     PROVE  IInv'
  <2>1. TypeOK'
    BY <1>0, <1>3
  <2>2. Ownership'
    BY <1>0, <1>3 DEF Ownership, Jobs
  <2>3. RefsMatchOwners'
    BY <1>0, <1>3 DEF Ownership, RefsMatchOwners
  <2>4. Jobs'
    BY <1>0, <1>3 DEF Jobs
  <2>5. Notifications'
    BY <1>0, <1>3 DEF Notifications, NoLostCompletion, Announced
  <2>6. Interested'
    BY <1>0, <1>3 DEF Ownership, Interested
  <2>7. Replies'
    BY <1>0, <1>3 DEF Replies, EveryAddressTried
  <2>8. Ending'
    BY <1>0, <1>3 DEF Ending
  <2> QED  BY <2>1, <2>2, <2>3, <2>4, <2>5, <2>6, <2>7, <2>8
<1> HIDE DEF Connected, InProgress, Unreachable
<1> QED
  <2>1. /\ dnsResult[c] \in 0 .. MaxAddrs
        /\ \A l \in 0 .. dnsResult[c] - 1 : l \in 0 .. MaxAddrs
    BY <1>0
  <2>2. NextAddress(c, dnsResult[c], refs[c] - 1, open, item, interest)
    BY DEF BlockFinish, c
  <2>3. CASE dnsResult[c] > 0
    BY <1>1, <1>2, <1>3, <2>1, <2>2, <2>3 DEF NextAddress, AnyLeft, Connect
  <2>4. CASE dnsResult[c] = 0
    BY <1>3, <2>2, <2>4 DEF NextAddress, AnyLeft
  <2> QED  BY <2>1, <2>3, <2>4

(* The list is empty and the mutex released.                               *)
LEMMA BlockEndKeeps ==
    ASSUME IInv, BlockEnd
    PROVE  IInv'
<1> USE DEF BlockEnd, AllHandled, IInv, TypeOK
<1>1. TypeOK'
  OBVIOUS
<1>2. Ownership'
  BY DEF Ownership
<1>3. Jobs'
  BY DEF Jobs
<1>4. Notifications'
  BY DEF Notifications, NoLostCompletion, Announced
<1>5. Ending'
  BY DEF Ending
<1>6. RefsMatchOwners' /\ Interested' /\ Replies'
  BY DEF RefsMatchOwners, Interested, Replies, EveryAddressTried
<1> QED  BY <1>1, <1>2, <1>3, <1>4, <1>5, <1>6

(* Failed notifications are tried again.                                   *)
LEMMA RetryKeeps ==
    ASSUME NEW D \in SUBSET Conn, IInv, Retry(D)
    PROVE  IInv'
<1> USE DEF Retry, RetryDue, IInv, TypeOK
<1>1. TypeOK'
  OBVIOUS
<1>2. Ownership'
  BY DEF Ownership
<1>3. Jobs'
  BY DEF Jobs
<1>4. Notifications'
  <2> USE DEF Announced
  <2>1. mainPc = "retry" /\ mainPc' = "tail" /\ cur = NoConn /\ cur' = NoConn
    BY DEF Notifications
  <2>2. ASSUME NEW d \in D
        PROVE  /\ clientFd[d] \in Fd /\ item[clientFd[d]] = d
               /\ queued[clientFd[d]] = 0
    BY <2>1 DEF Notifications, Ownership, Jobs
  <2>3. ASSUME NEW f \in Fd, queued'[f] > 0
        PROVE  /\ queued'[f] = 1 /\ item[f] # NoConn
               /\ clientFd[item[f]] = f /\ Announced(item[f])'
    <3>1. CASE \E d \in D : clientFd[d] = f
      <4>1. PICK d \in D : clientFd[d] = f
        BY <3>1
      <4>2. queued'[f] = 1 /\ item[f] = d
        BY <2>2, <4>1
      <4>3. Announced(d)'
        BY <4>1 DEF Jobs
      <4> QED  BY <4>1, <4>2, <4>3
    <3>2. CASE ~ \E d \in D : clientFd[d] = f
      <4>1. queued'[f] = queued[f]
        BY <3>2
      <4>2. item[f] \in Conn /\ item[f] \notin D
        BY <2>1, <2>3, <3>2, <4>1 DEF Notifications
      <4> QED  BY <2>1, <2>3, <4>1, <4>2 DEF Notifications
    <3> QED  BY <3>1, <3>2
  <2>4. ASSUME NEW c \in Conn, dnsCompleted[c]
        PROVE  \/ wpc[c] \in {"notify", "flagFail"}
               \/ queued'[clientFd[c]] = 1
               \/ dnsFailed'[c]
    <3>1. CASE c \in D
      BY <2>2, <3>1
    <3>2. CASE c \notin D
      <4>1. CASE queued[clientFd[c]] = 1
        <5>1. ~ \E d \in D : clientFd[d] = clientFd[c]
           BY <2>2, <4>1
        <5> QED  BY <2>4, <4>1, <5>1 DEF Jobs, Ownership
      <4> QED  BY <2>1, <2>4, <3>2, <4>1 DEF Notifications, NoLostCompletion
    <3> QED  BY <3>1, <3>2
  <2>5. NoLostCompletion'
    BY <2>4 DEF NoLostCompletion
  <2>6. ASSUME NEW f \in Fd, queued'[f] > 0
        PROVE  /\ queued'[f] = 1 /\ item'[f] # NoConn
               /\ clientFd'[item'[f]] = f /\ Announced(item[f])'
               /\ cur' # item'[f]
    <3>1. UNCHANGED <<item, clientFd>>
      OBVIOUS
    <3> HIDE DEF Announced
    <3> QED  BY <2>1, <2>3, <2>6, <3>1
  <2> QED  BY <2>1, <2>5, <2>6 DEF Notifications
<1>5. Ending'
  BY DEF Ending
<1>6. RefsMatchOwners' /\ Interested' /\ Replies'
  BY DEF RefsMatchOwners, Interested, Replies, EveryAddressTried
<1> QED  BY <1>1, <1>2, <1>3, <1>4, <1>5, <1>6

(* An iteration of the loop ends.                                          *)
LEMMA LoopEndKeeps ==
    ASSUME IInv, LoopEnd
    PROVE  IInv'
<1> USE DEF LoopEnd, Forced, Live, IInv, TypeOK
<1>1. TypeOK'
  OBVIOUS
<1>2. Ownership'
  BY DEF Ownership
<1>3. Jobs'
  BY DEF Jobs
<1>4. Notifications'
  BY DEF Notifications, NoLostCompletion, Announced
<1>5. Ending'
  BY DEF Ending
<1>6. RefsMatchOwners' /\ Interested' /\ Replies'
  BY DEF RefsMatchOwners, Interested, Replies, EveryAddressTried
<1> QED  BY <1>1, <1>2, <1>3, <1>4, <1>5, <1>6

(* A signal arrives.                                                       *)
LEMMA SignalKeeps ==
    ASSUME IInv, Signal
    PROVE  IInv'
<1> USE DEF Signal, IInv, TypeOK
<1>1. TypeOK'
  OBVIOUS
<1>2. Ownership' /\ RefsMatchOwners' /\ Jobs' /\ Notifications' /\ Interested' /\ Replies' /\ Ending'
  BY DEF Ownership, RefsMatchOwners, Jobs, Notifications, NoLostCompletion,
     Announced, Interested, Replies, EveryAddressTried, Ending
<1> QED  BY <1>1, <1>2

(* The shutdown joins a worker and drops its job.                          *)
LEMMA WaitAllJobKeeps ==
    ASSUME NEW c \in Conn, IInv, WaitAllJob(c)
    PROVE  IInv'
<1> USE DEF WaitAllJob, CanJoin, RemoveJob, Release, Recycle, Pool, DnsJobs,
           IInv, TypeOK
<1>1. TypeOK'
  BY DEF RefsMatchOwners
<1>2. Ownership'
  BY DEF Ownership, RefsMatchOwners
<1>3. RefsMatchOwners'
  BY DEF RefsMatchOwners
<1>4. Jobs'
  BY DEF Jobs
<1>5. Notifications'
  BY DEF Notifications, NoLostCompletion, Announced
<1>6. Interested'
  BY DEF Interested
<1>7. Replies'
  BY DEF Replies, EveryAddressTried
<1>8. Ending'
  BY DEF Ending
<1> QED  BY <1>1, <1>2, <1>3, <1>4, <1>5, <1>6, <1>7, <1>8

(* No job is left.                                                         *)
LEMMA WaitAllEndKeeps ==
    ASSUME IInv, WaitAllEnd
    PROVE  IInv'
<1> USE DEF WaitAllEnd, AllJobsWaited, DnsJobs, IInv, TypeOK
<1>1. TypeOK'
  OBVIOUS
<1>2. Ownership'
  BY DEF Ownership
<1>3. Jobs'
  BY DEF Jobs
<1>4. Notifications'
  BY DEF Notifications, NoLostCompletion, Announced
<1>5. Ending'
  BY DEF Ending
<1>6. RefsMatchOwners' /\ Interested' /\ Replies'
  BY DEF RefsMatchOwners, Interested, Replies, EveryAddressTried
<1> QED  BY <1>1, <1>2, <1>3, <1>4, <1>5, <1>6

(* The selector drops a registration.                                      *)
LEMMA DestroyItemKeeps ==
    ASSUME NEW f \in Fd, IInv, DestroyItem(f)
    PROVE  IInv'
<1> USE DEF DestroyItem, Release, Recycle, Pool, SetInterest, IInv, TypeOK
<1>1. TypeOK'
  BY DEF Ownership, RefsMatchOwners
<1>2. Ownership'
  BY DEF Ownership, RefsMatchOwners
<1>3. RefsMatchOwners'
  BY DEF Ownership, RefsMatchOwners
<1>4. Jobs'
  BY DEF Jobs
<1>5. Notifications'
  BY DEF Notifications, NoLostCompletion, Announced
<1>6. Interested'
  BY DEF Interested
<1>7. Replies'
  BY DEF Replies, EveryAddressTried
<1>8. Ending'
  BY DEF Ending
<1> QED  BY <1>1, <1>2, <1>3, <1>4, <1>5, <1>6, <1>7, <1>8

(* The selector and the pool are freed.                                    *)
LEMMA DestroyEndKeeps ==
    ASSUME IInv, DestroyEnd
    PROVE  IInv'
<1> USE DEF DestroyEnd, IInv, TypeOK
<1>1. TypeOK'
  OBVIOUS
<1>2. Ownership'
  BY DEF Ownership
<1>3. RefsMatchOwners'
  BY DEF RefsMatchOwners
<1>4. Jobs'
  BY DEF Jobs
<1>5. Notifications'
  BY DEF Notifications, NoLostCompletion, Announced
<1>6. Interested'
  BY DEF Interested
<1>7. Replies'
  BY DEF Replies, EveryAddressTried
<1>8. Ending'
  BY DEF RefsMatchOwners, Jobs, Ending
<1> QED  BY <1>1, <1>2, <1>3, <1>4, <1>5, <1>6, <1>7, <1>8
(* The first state, before any connection is accepted.                     *)
LEMMA InitEstablishes == Init => IInv
<1> SUFFICES ASSUME Init PROVE IInv
  OBVIOUS
<1> USE DEF Init
<1>1. TypeOK
  <2>1. mainPc \in MainPcs /\ cur \in Conn \cup {NoConn} /\ signals \in 0 .. 2
    OBVIOUS
  <2>2. /\ mem \in [Conn -> MemStates] /\ stm \in [Conn -> States]
        /\ clientFd \in [Conn -> Fd \cup {NoFd}]
        /\ originFd \in [Conn -> Fd \cup {NoFd}]
        /\ refs \in [Conn -> 0 .. 3] /\ resolving \in [Conn -> BOOLEAN]
        /\ reply \in [Conn -> {"none", "succeeded", "failed"}]
        /\ left \in [Conn -> 0 .. MaxAddrs]
    OBVIOUS
  <2>3. /\ dnsActive \in [Conn -> BOOLEAN] /\ dnsStarted \in [Conn -> BOOLEAN]
        /\ dnsCompleted \in [Conn -> BOOLEAN] /\ dnsFailed \in [Conn -> BOOLEAN]
        /\ dnsResult \in [Conn -> 0 .. MaxAddrs] /\ wpc \in [Conn -> WorkerPcs]
    OBVIOUS
  <2>4. /\ open \subseteq Fd /\ item \in [Fd -> Conn \cup {NoConn}]
        /\ interest \in [Fd -> Interests] /\ queued \in [Fd -> Nat]
    OBVIOUS
  <2>5. closing \in BOOLEAN
    OBVIOUS
  <2> QED  BY <2>1, <2>2, <2>3, <2>4, <2>5 DEF TypeOK
<1>2. Ownership /\ Jobs /\ Interested /\ Ending
  BY DEF Ownership, Jobs, Interested, Ending
<1>3. RefsMatchOwners
  BY DEF RefsMatchOwners
<1>4. Notifications
  BY DEF Notifications, NoLostCompletion
<1>5. Replies
  BY DEF Replies, EveryAddressTried
<1> QED  BY <1>1, <1>2, <1>3, <1>4, <1>5 DEF IInv

(* A step that changes nothing.                                            *)
LEMMA StutterKeeps ==
    ASSUME IInv, UNCHANGED vars
    PROVE  IInv'
BY DEF vars, IInv, TypeOK, Ownership, RefsMatchOwners, Jobs, Notifications,
       Interested, Replies, Ending, NoLostCompletion, Announced,
       EveryAddressTried

(* Every handler of the event loop keeps the invariant.                    *)
LEMMA HandlersKeep ==
    ASSUME NEW c \in Conn, IInv, Handlers(c)
    PROVE  IInv'
BY AcceptKeeps, AcceptRefusedKeeps, NegotiateKeeps, TeardownKeeps,
   RequestRefusedKeeps, RequestAddressKeeps, ResolveInWorkerKeeps,
   ResolveWithoutWorkerKeeps, ConnectDoneKeeps, ConnectFailedKeeps,
   EnterCopyKeeps DEF Handlers

(* Every step of a worker keeps the invariant.                             *)
LEMMA WorkerKeeps ==
    ASSUME NEW c \in Conn, IInv, Worker(c)
    PROVE  IInv'
BY WorkerPublishKeeps, WorkerNotifyKeeps, WorkerNotifyFailsKeeps,
   WorkerExitKeeps DEF Worker

(* Every step of main() keeps the invariant.                               *)
LEMMA LoopKeeps ==
    ASSUME IInv, Loop
    PROVE  IInv'
BY SelectReadyKeeps, BlockStartKeeps, SelectFailsKeeps, BlockDispatchKeeps,
   BlockFinishKeeps, BlockEndKeeps, RetryKeeps, LoopEndKeeps,
   WaitAllJobKeeps, WaitAllEndKeeps, DestroyItemKeeps, DestroyEndKeeps
   DEF Loop

(* IInv is inductive.                                                      *)
LEMMA NextKeeps ==
    ASSUME IInv, [Next]_vars
    PROVE  IInv'
<1>1. CASE \E c \in Conn : Handlers(c)
  BY <1>1, HandlersKeep
<1>2. CASE \E c \in Conn : SweepKill(c)
  BY <1>2, SweepKillKeeps
<1>3. CASE \E c \in Conn : Worker(c)
  BY <1>3, WorkerKeeps
<1>4. CASE Loop
  BY <1>4, LoopKeeps
<1>5. CASE Signal
  BY <1>5, SignalKeeps
<1>6. CASE Ended \/ UNCHANGED vars
  BY <1>6, StutterKeeps DEF Ended
<1> QED  BY <1>1, <1>2, <1>3, <1>4, <1>5, <1>6 DEF Next

(* The inductive invariant holds in every reachable state.                 *)
THEOREM Invariance == Spec => []IInv
<1>1. Init => IInv
  BY InitEstablishes
<1>2. IInv /\ [Next]_vars => IInv'
  BY NextKeeps
<1> QED  BY <1>1, <1>2, PTL DEF Spec

-----------------------------------------------------------------------------
(* The properties *)

(* Every variable keeps its type; in particular no reference count exceeds *)
(* three, one per descriptor and one for the job.                          *)
THEOREM TypeCorrect == Spec => []TypeOK
<1>1. IInv => TypeOK
  BY DEF IInv
<1> QED  BY <1>1, Invariance, PTL

(* socks5_retain() and socks5_release() are balanced: the count is the     *)
(* number of owners, whatever the pool and the order of events.            *)
THEOREM CountsAreExact == Spec => []RefsMatchOwners
<1>1. IInv => RefsMatchOwners
  BY DEF IInv
<1> QED  BY <1>1, Invariance, PTL

(* No worker ever writes into a structure that was freed or recycled.      *)
THEOREM NoUseAfterRelease == Spec => []WorkerHoldsConnection
<1>1. IInv => WorkerHoldsConnection
  BY DEF IInv, TypeOK, Jobs, WorkerHoldsConnection
<1> QED  BY <1>1, Invariance, PTL

(* The hand-over from worker to loop loses no result, even when malloc()   *)
(* fails inside selector_notify_block().                                   *)
THEOREM CompletionsAreKept == Spec => []NoLostCompletion
<1>1. IInv => NoLostCompletion
  <2>1. CASE Looping
    BY <2>1 DEF IInv, Notifications
  <2>2. CASE ~Looping
    BY <2>2 DEF NoLostCompletion
  <2> QED  BY <2>1, <2>2
<1> QED  BY <1>1, Invariance, PTL

(* A queued notification finds the connection it was queued for.           *)
THEOREM NoStaleNotification == Spec => []NotificationsReachTheirOwner
<1>1. IInv => NotificationsReachTheirOwner
  <2> SUFFICES ASSUME IInv, Looping, NEW f \in Fd, queued[f] > 0
               PROVE  /\ queued[f] = 1
                      /\ \E c \in Conn : item[f] = c /\ clientFd[c] = f
                            /\ dnsCompleted[c] /\ stm[c] = "REQUEST_RESOLV"
                            /\ ~(mainPc = "join" /\ cur = c)
    BY DEF NotificationsReachTheirOwner
  <2>1. /\ queued[f] = 1 /\ item[f] \in Conn /\ clientFd[item[f]] = f
        /\ Announced(item[f]) /\ cur # item[f]
    BY DEF IInv, TypeOK, Notifications
  <2>2. dnsCompleted[item[f]] /\ stm[item[f]] = "REQUEST_RESOLV"
    BY <2>1 DEF IInv, TypeOK, Jobs, Announced
  <2> QED  BY <2>1, <2>2
<1> QED  BY <1>1, Invariance, PTL

(* The loop and a worker cannot wait for each other: no deadlock of        *)
(* pthread_join() under resolution_mutex.                                  *)
THEOREM NoJoinDeadlock == Spec => []JoinIsShort
<1>1. IInv => JoinIsShort
  BY DEF IInv, Notifications, Announced, JoinIsShort
<1> QED  BY <1>1, Invariance, PTL

(* The state machine never abort()s on an event it has no handler for.     *)
THEOREM NoAbort == Spec => []EventsHaveHandlers
<1>1. IInv => EventsHaveHandlers
  <2> SUFFICES ASSUME IInv, NEW f \in Fd, item[f] # NoConn
               PROVE  HasHandler(stm[item[f]], interest[f])
    BY DEF EventsHaveHandlers
  <2>1. item[f] \in Conn /\ (f = clientFd[item[f]] \/ f = originFd[item[f]])
    BY DEF IInv, TypeOK, Ownership
  <2>2. CASE f = clientFd[item[f]]
    BY <2>1, <2>2 DEF IInv, TypeOK, Interested, HasHandler
  <2>3. CASE f = originFd[item[f]]
    BY <2>1, <2>3 DEF IInv, TypeOK, Interested, HasHandler
  <2> QED  BY <2>1, <2>2, <2>3
<1> QED  BY <1>1, Invariance, PTL

(* No connection is left with neither a job nor an interest.               *)
THEOREM NoAbandonedConnection == Spec => []AlwaysAwaited
<1>1. IInv => AlwaysAwaited
  <2> SUFFICES ASSUME IInv, Looping, NEW c \in Conn, mem[c] = "live",
                      ~dnsActive[c]
               PROVE  \E f \in Fd : item[f] = c /\ interest[f] # "NOOP"
    BY DEF AlwaysAwaited, Live
  <2>1. /\ stm[c] \in States \ {"REQUEST_RESOLV"}
        /\ clientFd[c] \in Fd /\ item[clientFd[c]] = c
    BY DEF IInv, TypeOK, Ownership, Jobs
  <2>2. CASE stm[c] = "REQUEST_CONNECTING"
    <3>1. originFd[c] \in Fd /\ item[originFd[c]] = c
      BY <2>2 DEF IInv, TypeOK, Ownership, Interested
    <3>2. interest[originFd[c]] = "WRITE"
      BY <2>2, <3>1, ConnAssumption DEF IInv, Interested
    <3> QED  BY <3>1, <3>2
  <2>3. CASE stm[c] # "REQUEST_CONNECTING"
    BY <2>1, <2>3 DEF IInv, Interested
  <2> QED  BY <2>2, <2>3
<1> QED  BY <1>1, Invariance, PTL

(* No descriptor leaks and none is closed while it is registered.          *)
THEOREM NoDescriptorLeak == Spec => []DescriptorsHaveOwners
<1>1. IInv => DescriptorsHaveOwners
  <2> SUFFICES ASSUME IInv, mainPc \notin {"destroy", "exit"}
               PROVE  /\ open = {f \in Fd : item[f] # NoConn}
                      /\ \A c \in Conn, f \in Fd :
                            item[f] = c <=> mem[c] = "live" /\ f \in Owned(c)
    BY DEF DescriptorsHaveOwners
  <2>1. open = {f \in Fd : item[f] # NoConn}
    BY DEF IInv, TypeOK, Ownership
  <2>2. ASSUME NEW c \in Conn, NEW f \in Fd
        PROVE  item[f] = c <=> mem[c] = "live" /\ f \in Owned(c)
    BY DEF IInv, TypeOK, Ownership, Owned
  <2> QED  BY <2>1, <2>2
<1> QED  BY <1>1, Invariance, PTL

(* RF4: the client is told of a failure only after the last address.       *)
THEOREM NoEarlyFailure == Spec => []EveryAddressTried
<1>1. IInv => EveryAddressTried
  BY DEF IInv, Replies
<1> QED  BY <1>1, Invariance, PTL

(* main() returns with nothing left to free and no thread running.         *)
THEOREM NoLeakAtExit == Spec => []ExitFreesEverything
<1>1. IInv => ExitFreesEverything
  BY DEF IInv, TypeOK, Jobs, Ending, ExitFreesEverything
<1> QED  BY <1>1, Invariance, PTL

(* The structures, counts and descriptors, to the end of main().           *)
THEOREM StructuresStaySound == Spec => []StructuresAreSound
  BY TypeCorrect, CountsAreExact, NoDescriptorLeak, NoLeakAtExit, PTL DEF StructuresAreSound

(* The whole hand-over of a result.                                        *)
THEOREM HandOver == Spec => []HandOverIsSafe
  BY NoUseAfterRelease, CompletionsAreKept, NoStaleNotification, NoJoinDeadlock, PTL
     DEF HandOverIsSafe

(* No abort() and no abandoned connection.                                 *)
THEOREM InterestsStayFit == Spec => []InterestsFitState
  BY NoAbort, NoAbandonedConnection, PTL DEF InterestsFitState

-----------------------------------------------------------------------------
(* The refinement: Socks5 implements DnsService.  Whatever the threads,    *)
(* the retries and the pool do, each resolution is a job that is           *)
(* submitted, answered once and consumed once, on a structure that is in   *)
(* use all along.                                                          *)

(* What one step does to the abstract state *)

(* A step that moves neither a structure nor a job is a stutter.           *)
LEMMA Stutters ==
    ASSUME UNCHANGED <<mem, dnsActive, dnsCompleted>>
    PROVE  UNCHANGED Service!svcVars
BY DEF Service!svcVars, Live, JobState

(* Only the state of the job of c changes.                                 *)
LEMMA OneJobMoves ==
    ASSUME NEW c \in Conn, TypeOK, NEW a \in BOOLEAN, NEW d \in BOOLEAN,
           UNCHANGED mem,
           dnsActive' = [dnsActive EXCEPT ![c] = a],
           dnsCompleted' = [dnsCompleted EXCEPT ![c] = d]
    PROVE  /\ Live' = Live
           /\ JobState' = [JobState EXCEPT ![c] =
                             IF ~a THEN "none" ELSE IF d THEN "answered" ELSE "pending"]
BY DEF Live, JobState, TypeOK

(* Only the state of the structure c changes.                              *)
LEMMA OneStructureMoves ==
    ASSUME NEW c \in Conn, TypeOK, NEW m,
           mem' = [mem EXCEPT ![c] = m], UNCHANGED <<dnsActive, dnsCompleted>>
    PROVE  /\ Live' = IF m = "live" THEN Live \cup {c} ELSE Live \ {c}
           /\ JobState' = JobState
BY DEF Live, JobState, TypeOK

(* The structure and the job of a connection in the abstract state.        *)
LEMMA AbstractState ==
    ASSUME NEW c \in Conn, IInv
    PROVE  /\ c \in Live <=> mem[c] = "live"
           /\ JobState[c] = IF ~dnsActive[c] THEN "none"
                            ELSE IF dnsCompleted[c] THEN "answered" ELSE "pending"
           /\ dnsActive[c] => mem[c] = "live"
BY DEF Live, JobState, IInv, Jobs

-----------------------------------------------------------------------------
(* The steps that are not stutters *)

(* A closed connection has no job: its structure is given back.            *)
LEMMA CloseMaps ==
    ASSUME NEW c \in Conn, IInv, mem[c] = "live", ~dnsActive[c],
           mainPc \in {"iter", "tail"}, CloseBoth(c)
    PROVE  Service!GiveBack(c)
<1>1. refs[c] = Registrations(c)
  BY ConnAssumption, FdAssumption
     DEF IInv, TypeOK, RefsMatchOwners, Registrations, Bit, Ownership
<1>2. Registrations(c) \in {1, 2}
  BY DEF Registrations
<1> DEFINE m == Recycle(c, refs[c] - Registrations(c))
<1>3. m # "live"
  BY <1>1, <1>2 DEF Recycle
<1>4. /\ mem' = [mem EXCEPT ![c] = m]
      /\ UNCHANGED <<dnsActive, dnsCompleted>>
  BY DEF CloseBoth, Release, dnsVars
<1> HIDE DEF m
<1>5. Live' = Live \ {c} /\ JobState' = JobState
  BY <1>3, <1>4, OneStructureMoves DEF IInv
<1> QED  BY <1>5, AbstractState DEF Service!GiveBack

(* An accepted connection takes a structure nobody uses.                   *)
LEMMA AcceptMaps ==
    ASSUME NEW c \in Conn, NEW f \in Fd, IInv, Accept(c, f)
    PROVE  Service!Take(c)
<1>1. /\ mem' = [mem EXCEPT ![c] = "live"] /\ mem[c] # "live"
      /\ UNCHANGED <<dnsActive, dnsCompleted>>
  BY DEF Accept, Fresh, dnsVars
<1>2. Live' = Live \cup {c} /\ JobState' = JobState
  BY <1>1, OneStructureMoves DEF IInv
<1> QED  BY <1>1, <1>2, AbstractState DEF Service!Take

(* A refused connection was never in use.                                  *)
LEMMA AcceptRefusedMaps ==
    ASSUME NEW c \in Conn, IInv, AcceptRefused(c)
    PROVE  UNCHANGED Service!svcVars
<1> DEFINE m == IF Cardinality(Pool \ {c}) < PoolMax THEN "pool" ELSE "heap"
<1>1. /\ mem' = [mem EXCEPT ![c] = m] /\ mem[c] # "live" /\ m # "live"
      /\ UNCHANGED <<dnsActive, dnsCompleted>>
  BY DEF AcceptRefused, Fresh, dnsVars
<1> HIDE DEF m
<1>2. Live' = Live \ {c} /\ JobState' = JobState
  BY <1>1, OneStructureMoves DEF IInv
<1> QED  BY <1>1, <1>2, AbstractState DEF Service!svcVars

(* A connection waiting for a request has no job.                          *)
LEMMA NoJobYet ==
    ASSUME NEW c \in Conn, IInv, ClientEvent(c, "READ"), stm[c] = "REQUEST_READ"
    PROVE  mem[c] = "live" /\ ~dnsActive[c]
BY DEF IInv, Jobs, ClientEvent

(* A worker is created: the job is pending.                                *)
LEMMA ResolveInWorkerMaps ==
    ASSUME NEW c \in Conn, IInv, ResolveInWorker(c)
    PROVE  Service!Submit(c)
<1>1. /\ ClientEvent(c, "READ") /\ stm[c] = "REQUEST_READ" /\ UNCHANGED mem
      /\ dnsActive' = [dnsActive EXCEPT ![c] = TRUE]
      /\ dnsCompleted' = [dnsCompleted EXCEPT ![c] = FALSE]
  BY DEF ResolveInWorker, SubmitJob
<1>2. Live' = Live /\ JobState' = [JobState EXCEPT ![c] = "pending"]
  BY <1>1, OneJobMoves DEF IInv
<1> QED  BY <1>1, <1>2, NoJobYet, AbstractState DEF Service!Submit, Service!Move

(* No worker could be created: the job is answered at once.                *)
LEMMA ResolveWithoutWorkerMaps ==
    ASSUME NEW c \in Conn, IInv, ResolveWithoutWorker(c)
    PROVE  Service!Refuse(c)
<1>1. /\ ClientEvent(c, "READ") /\ stm[c] = "REQUEST_READ" /\ UNCHANGED mem
      /\ dnsActive' = [dnsActive EXCEPT ![c] = TRUE]
      /\ dnsCompleted' = [dnsCompleted EXCEPT ![c] = TRUE]
  BY DEF ResolveWithoutWorker, SubmitJob
<1>2. Live' = Live /\ JobState' = [JobState EXCEPT ![c] = "answered"]
  BY <1>1, OneJobMoves DEF IInv
<1> QED  BY <1>1, <1>2, NoJobYet, AbstractState DEF Service!Refuse, Service!Move

(* A worker publishes its result: the job is answered.                     *)
LEMMA WorkerPublishMaps ==
    ASSUME NEW c \in Conn, NEW n \in 0 .. MaxAddrs, IInv, WorkerPublish(c, n)
    PROVE  Service!Respond(c)
<1>1. dnsActive[c] /\ ~dnsCompleted[c]
  BY DEF WorkerPublish, IInv, Jobs
<1>2. /\ UNCHANGED mem
      /\ dnsActive' = [dnsActive EXCEPT ![c] = TRUE]
      /\ dnsCompleted' = [dnsCompleted EXCEPT ![c] = TRUE]
  BY <1>1 DEF WorkerPublish, connVars, IInv, TypeOK
<1>3. Live' = Live /\ JobState' = [JobState EXCEPT ![c] = "answered"]
  BY <1>2, OneJobMoves DEF IInv
<1> QED  BY <1>1, <1>3, AbstractState DEF Service!Respond, Service!Move

(* A completed job is removed: it is consumed.                             *)
LEMMA RemoveMaps ==
    ASSUME NEW c \in Conn, IInv, dnsActive[c], dnsCompleted[c],
           UNCHANGED mem, RemoveJob(c)
    PROVE  Service!Consume(c)
<1>1. Live' = Live /\ JobState' = [JobState EXCEPT ![c] = "none"]
  BY OneJobMoves DEF RemoveJob, IInv
<1> QED  BY <1>1, AbstractState DEF Service!Consume, Service!Move

(* The loop joined a worker and acts on its result.                        *)
LEMMA BlockFinishMaps ==
    ASSUME IInv, BlockFinish
    PROVE  Service!Consume(cur)
<1>1. cur \in Conn /\ dnsActive[cur] /\ dnsCompleted[cur]
  BY DEF BlockFinish, IInv, Notifications, Announced
<1> QED  BY <1>1, RemoveMaps DEF BlockFinish

(* The shutdown joins a worker: the client's registration is still there,  *)
(* so the structure stays in use.                                          *)
LEMMA WaitAllJobMaps ==
    ASSUME NEW c \in Conn, IInv, WaitAllJob(c)
    PROVE  Service!Consume(c)
<1>1. dnsActive[c] /\ dnsCompleted[c]
  BY DEF WaitAllJob, DnsJobs, CanJoin, IInv, Jobs
<1>2. refs[c] = 2
  BY <1>1, ConnAssumption, FdAssumption
     DEF WaitAllJob, IInv, TypeOK, Jobs, RefsMatchOwners, Bit, Ownership
<1>3. UNCHANGED mem
  BY <1>2 DEF WaitAllJob, Release, Recycle, IInv, TypeOK
<1> QED  BY <1>1, <1>3, RemoveMaps DEF WaitAllJob

(* The selector drops a registration, perhaps the last of its owner.       *)
LEMMA DestroyItemMaps ==
    ASSUME NEW f \in Fd, IInv, DestroyItem(f)
    PROVE  Service!GiveBack(item[f]) \/ UNCHANGED Service!svcVars
<1> DEFINE c == item[f]
           m == Recycle(c, refs[c] - 1)
<1>1. /\ c \in Conn /\ mem[c] = "live" /\ ~dnsActive[c]
      /\ mem' = [mem EXCEPT ![c] = m]
      /\ UNCHANGED <<dnsActive, dnsCompleted>>
  BY DEF DestroyItem, Release, dnsVars, IInv, TypeOK, Ownership, Jobs
<1> HIDE DEF m
<1>2. /\ Live' = IF m = "live" THEN Live \cup {c} ELSE Live \ {c}
      /\ JobState' = JobState
  BY <1>1, OneStructureMoves DEF IInv
<1>3. /\ c \in Live
      /\ JobState[c] = "none"
  BY <1>1, AbstractState
<1> QED  BY <1>1, <1>2, <1>3 DEF Service!GiveBack, Service!svcVars

(* The selector and the pool are freed: no structure in use is touched.    *)
LEMMA DestroyEndMaps ==
    ASSUME IInv, DestroyEnd
    PROVE  UNCHANGED Service!svcVars
<1>1. /\ mem' = [c \in Conn |-> IF mem[c] = "pool" THEN "heap" ELSE mem[c]]
      /\ UNCHANGED <<dnsActive, dnsCompleted>>
  BY DEF DestroyEnd, dnsVars
<1> QED  BY <1>1 DEF Service!svcVars, Live, JobState

-----------------------------------------------------------------------------
(* The refinement *)

(* Every handler of the event loop maps to a step or a stutter.            *)
LEMMA HandlersMap ==
    ASSUME NEW c \in Conn, IInv, Handlers(c)
    PROVE  [Service!Next]_Service!svcVars
<1>1. ASSUME NEW f \in Fd, Accept(c, f)
      PROVE  [Service!Next]_Service!svcVars
  BY <1>1, AcceptMaps DEF Service!Next
<1>2. CASE AcceptRefused(c)
  BY <1>2, AcceptRefusedMaps
<1>3. CASE Teardown(c)
  <2>1. mem[c] = "live" /\ ~dnsActive[c] /\ mainPc = "iter" /\ CloseBoth(c)
    <3>1. mem[c] = "live" /\ mainPc = "iter" /\ CloseBoth(c)
      BY <1>3 DEF Teardown, ClientEvent
    <3>2. stm[c] # "REQUEST_RESOLV"
      BY <1>3, <3>1, ConnAssumption
         DEF Teardown, ClientEvent, IInv, Ownership, Interested,
             ReadStates, WriteStates, ClientInterest
    <3> QED  BY <3>1, <3>2 DEF IInv, TypeOK, Jobs
  <2> QED  BY <2>1, CloseMaps DEF Service!Next
<1>4. CASE ResolveInWorker(c)
  BY <1>4, ResolveInWorkerMaps DEF Service!Next
<1>5. CASE ResolveWithoutWorker(c)
  BY <1>5, ResolveWithoutWorkerMaps DEF Service!Next
<1>6. CASE \/ \E s \in States : Negotiate(c, s)
           \/ RequestRefused(c) \/ RequestAddress(c)
           \/ ConnectDone(c) \/ ConnectFailed(c) \/ EnterCopy(c)
  BY <1>6, Stutters DEF Negotiate, RequestRefused, RequestAddress, ConnectDone,
     ConnectFailed, EnterCopy, dnsVars
<1> QED  BY <1>1, <1>2, <1>3, <1>4, <1>5, <1>6 DEF Handlers

(* Every step of a worker maps to a step or a stutter.                     *)
LEMMA WorkerMaps ==
    ASSUME NEW c \in Conn, IInv, Worker(c)
    PROVE  [Service!Next]_Service!svcVars
<1>1. ASSUME NEW n \in 0 .. MaxAddrs, WorkerPublish(c, n)
      PROVE  [Service!Next]_Service!svcVars
  BY <1>1, WorkerPublishMaps DEF Service!Next
<1>2. CASE WorkerNotify(c) \/ WorkerNotifyFails(c) \/ WorkerExit(c)
  BY <1>2, Stutters DEF WorkerNotify, WorkerNotifyFails, WorkerExit, connVars
<1> QED  BY <1>1, <1>2 DEF Worker

(* Every step of main() maps to a step or a stutter.                       *)
LEMMA LoopMaps ==
    ASSUME IInv, Loop
    PROVE  [Service!Next]_Service!svcVars
<1>1. CASE BlockFinish
  <2>1. cur \in Conn
    BY <1>1 DEF BlockFinish, IInv, Notifications
  <2> QED  BY <1>1, <2>1, BlockFinishMaps DEF Service!Next
<1>2. ASSUME NEW c \in Conn, WaitAllJob(c)
      PROVE  [Service!Next]_Service!svcVars
  BY <1>2, WaitAllJobMaps DEF Service!Next
<1>3. ASSUME NEW f \in Fd, DestroyItem(f)
      PROVE  [Service!Next]_Service!svcVars
  <2>1. item[f] \in Conn
    BY <1>3 DEF DestroyItem, IInv, TypeOK
  <2> QED  BY <1>3, <2>1, DestroyItemMaps DEF Service!Next
<1>4. CASE DestroyEnd
  BY <1>4, DestroyEndMaps
<1>5. ASSUME NEW f \in Fd, BlockDispatch(f)
      PROVE  [Service!Next]_Service!svcVars
  BY <1>5, Stutters DEF BlockDispatch, connVars, dnsVars
<1>6. ASSUME NEW D \in SUBSET Conn, Retry(D)
      PROVE  [Service!Next]_Service!svcVars
  BY <1>6, Stutters DEF Retry, connVars
<1>7. CASE SelectReady \/ BlockStart \/ SelectFails \/ BlockEnd \/ LoopEnd
           \/ WaitAllEnd
  BY <1>7, Stutters DEF SelectReady, BlockStart, SelectFails, BlockEnd, LoopEnd,
     WaitAllEnd, connVars, dnsVars
<1> QED  BY <1>1, <1>2, <1>3, <1>4, <1>5, <1>6, <1>7 DEF Loop

(* Every step of Socks5 maps to a step of the service or a stutter.        *)
LEMMA StepMaps ==
    ASSUME IInv, [Next]_vars
    PROVE  [Service!Next]_Service!svcVars
<1>1. ASSUME NEW c \in Conn, SweepKill(c)
      PROVE  [Service!Next]_Service!svcVars
  <2>1. mem[c] = "live" /\ ~dnsActive[c] /\ mainPc = "tail" /\ CloseBoth(c)
    BY <1>1 DEF SweepKill, Sweepable, IInv, Jobs
  <2> QED  BY <2>1, CloseMaps DEF Service!Next
<1>2. CASE Signal
  BY <1>2, Stutters DEF Signal, connVars, dnsVars
<1>3. CASE Ended \/ UNCHANGED vars
  BY <1>3, Stutters DEF Ended, vars, connVars, dnsVars
<1> QED  BY <1>1, <1>2, <1>3, HandlersMap, WorkerMaps, LoopMaps DEF Next

(* No structure is in use and no job exists before the first connection.   *)
LEMMA InitMaps == Init => Service!Init
BY DEF Init, Service!Init, Live, JobState

(* The resolution machinery implements the service: a job is submitted for *)
(* a structure in use, answered once and consumed once, and the structure  *)
(* stays with its connection meanwhile.                                    *)
THEOREM Refinement == Spec => ImplementsService
<1>1. Init => Service!Init
  BY InitMaps
<1>2. IInv /\ [Next]_vars => [Service!Next]_Service!svcVars
  BY StepMaps
<1> QED  BY <1>1, <1>2, Invariance, PTL DEF Spec, ImplementsService, Service!Spec
=============================================================================
