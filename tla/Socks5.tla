------------------------------- MODULE Socks5 -------------------------------
(***************************************************************************)
(* The life of a proxied SOCKS5 connection: socks5.c, states/request.c,    *)
(* the block notifications of utils/selector.c and the main loop of        *)
(* server.c.                                                               *)
(*                                                                         *)
(* One thread runs the event loop.  Every name resolution runs in a worker *)
(* thread of its own, which writes into the connection's structure, queues *)
(* a notification on the selector and exits; the loop joins it.  What is   *)
(* modelled: who keeps a struct socks5 alive (its reference count), which  *)
(* descriptor belongs to whom, which events a descriptor asks for, the     *)
(* hand-over of a result from worker to loop, the pool that recycles       *)
(* structures, the timeout sweep and both kinds of shutdown.               *)
(*                                                                         *)
(* Bytes are not modelled: the outcome of parsing, recv(2), send(2) and    *)
(* connect(2) is a choice.  Dispatching an event that only reads or writes *)
(* part of a message changes nothing here and is a stuttering step.        *)
(***************************************************************************)
EXTENDS Naturals, FiniteSets

CONSTANTS
    Conn,      \* the addresses of struct socks5
    Fd,        \* the descriptor numbers the process may hold
    NoConn,    \* an unused item of the selector
    NoFd,      \* -1
    PoolMax,   \* POOL_MAX
    MaxAddrs   \* the longest list getaddrinfo() returns

ASSUME ConnAssumption == NoConn \notin Conn
ASSUME FdAssumption   == NoFd \notin Fd
ASSUME SizeAssumption == PoolMax \in Nat /\ MaxAddrs \in Nat \ {0}

VARIABLES
    \* main(): where the loop is, the job it is joining, signals seen, closing
    mainPc, cur, signals, closing,
    \* struct socks5
    mem, stm, clientFd, originFd, refs, resolving, reply, left,
    \* the DNS job of a connection, and its worker
    dnsActive, dnsStarted, dnsCompleted, dnsFailed, dnsResult, wpc,
    \* the process's descriptors, and the selector: items and resolution_jobs
    open, item, interest, queued

loopVars == <<mainPc, cur, signals, closing>>
connVars == <<mem, stm, clientFd, originFd, refs, resolving, reply, left>>
dnsVars  == <<dnsActive, dnsStarted, dnsCompleted, dnsFailed, dnsResult, wpc>>
selVars  == <<open, item, interest, queued>>
vars     == <<loopVars, connVars, dnsVars, selVars>>

ReadStates  == {"HELLO_READ", "AUTH_READ", "REQUEST_READ"}
WriteStates == {"HELLO_WRITE", "AUTH_WRITE", "REQUEST_WRITE"}
States      == ReadStates \cup WriteStates
                 \cup {"REQUEST_RESOLV", "REQUEST_CONNECTING", "COPY"}

(* "RELAY" stands for whatever relay_compute_interests() asked for last.   *)
Interests == {"NOOP", "READ", "WRITE", "RELAY"}

(* A struct is unallocated (or freed), live, or cached in the free list.   *)
MemStates == {"heap", "live", "pool"}

(* A worker is inside getaddrinfo(), about to call selector_notify_block(),*)
(* about to record whether that worked, or finished and not yet joined.    *)
WorkerPcs == {"none", "lookup", "notify", "flagOk", "flagFail", "exited"}

MainPcs == {"select", "iter", "block", "join", "retry", "tail",
            "waitall", "destroy", "exit"}

Live == {c \in Conn : mem[c] = "live"}
Pool == {c \in Conn : mem[c] = "pool"}

(* dns_jobs: the connections with a job in flight.                         *)
DnsJobs == {c \in Conn : dnsActive[c]}

Init ==
    /\ mainPc = "select" /\ cur = NoConn /\ signals = 0 /\ closing = FALSE
    /\ mem = [c \in Conn |-> "heap"]
    /\ stm = [c \in Conn |-> "HELLO_READ"]
    /\ clientFd = [c \in Conn |-> NoFd]
    /\ originFd = [c \in Conn |-> NoFd]
    /\ refs = [c \in Conn |-> 0]
    /\ resolving = [c \in Conn |-> FALSE]
    /\ reply = [c \in Conn |-> "none"]
    /\ left = [c \in Conn |-> 0]
    /\ dnsActive = [c \in Conn |-> FALSE]
    /\ dnsStarted = [c \in Conn |-> FALSE]
    /\ dnsCompleted = [c \in Conn |-> FALSE]
    /\ dnsFailed = [c \in Conn |-> FALSE]
    /\ dnsResult = [c \in Conn |-> 0]
    /\ wpc = [c \in Conn |-> "none"]
    /\ open = {}
    /\ item = [f \in Fd |-> NoConn]
    /\ interest = [f \in Fd |-> "NOOP"]
    /\ queued = [f \in Fd |-> 0]

-----------------------------------------------------------------------------
(* References and descriptors *)

(* Where socks5_release() sends a structure whose count is n.              *)
Recycle(c, n) ==
    IF n > 0 THEN mem[c]
    ELSE IF Cardinality(Pool) < PoolMax THEN "pool" ELSE "heap"

(* socks5_release(), n times.                                              *)
Release(c, n) ==
    /\ refs' = [refs EXCEPT ![c] = @ - n]
    /\ mem'  = [mem EXCEPT ![c] = Recycle(c, refs[c] - n)]

(* The descriptors of c that socks5_done() and socks5_kill() close.        *)
Owned(c) == {clientFd[c], originFd[c]} \ {NoFd}

(* How many registrations, each with its reference, a connection has.      *)
Registrations(c) == IF originFd[c] = NoFd THEN 1 ELSE 2

(* selector_unregister_fd() and close() for both descriptors: each         *)
(* registered one gives its reference back through handle_close.           *)
CloseBoth(c) ==
    /\ item' = [f \in Fd |-> IF f \in Owned(c) THEN NoConn ELSE item[f]]
    /\ interest' = [f \in Fd |-> IF f \in Owned(c) THEN "NOOP" ELSE interest[f]]
    /\ open' = open \ Owned(c)
    /\ Release(c, Registrations(c))
    /\ UNCHANGED <<stm, clientFd, originFd, resolving, reply, left, dnsVars, queued>>

(* selector_select() found the client's descriptor ready and item->interest*)
(* still asks for the event.                                               *)
ClientEvent(c, i) ==
    /\ mainPc = "iter"
    /\ mem[c] = "live"
    /\ item[clientFd[c]] = c
    /\ interest[clientFd[c]] = i

SetInterest(f, i) == interest' = [interest EXCEPT ![f] = i]

-----------------------------------------------------------------------------
(* Accepting and negotiating *)

(* socks5_new(): the free list first, malloc() when it is empty.           *)
Fresh(c) == mem[c] = IF Pool = {} THEN "heap" ELSE "pool"

(* socks5_passive_accept()                                                 *)
Accept(c, f) ==
    /\ mainPc = "iter" /\ ~closing
    /\ Fresh(c) /\ f \notin open
    /\ mem' = [mem EXCEPT ![c] = "live"]
    /\ stm' = [stm EXCEPT ![c] = "HELLO_READ"]
    /\ clientFd' = [clientFd EXCEPT ![c] = f]
    /\ originFd' = [originFd EXCEPT ![c] = NoFd]
    /\ refs' = [refs EXCEPT ![c] = 1]
    /\ resolving' = [resolving EXCEPT ![c] = FALSE]
    /\ reply' = [reply EXCEPT ![c] = "none"]
    /\ left' = [left EXCEPT ![c] = 0]
    /\ open' = open \cup {f}
    /\ item' = [item EXCEPT ![f] = c]
    /\ SetInterest(f, "READ")
    /\ UNCHANGED <<loopVars, dnsVars, queued>>

(* The same, when selector_register() refuses the descriptor: the new      *)
(* structure is released at once and ends in the free list or is freed.    *)
AcceptRefused(c) ==
    /\ mainPc = "iter" /\ ~closing
    /\ Fresh(c)
    /\ mem' = [mem EXCEPT ![c] =
                 IF Cardinality(Pool \ {c}) < PoolMax THEN "pool" ELSE "heap"]
    /\ UNCHANGED <<loopVars, stm, clientFd, originFd, refs, resolving, reply,
                   left, dnsVars, selVars>>

(* The negotiation moves that complete a message and stay within it.       *)
NegotiationMoves ==
    {<<"HELLO_READ", "HELLO_WRITE">>, <<"HELLO_WRITE", "AUTH_READ">>,
     <<"HELLO_WRITE", "REQUEST_READ">>, <<"AUTH_READ", "AUTH_WRITE">>,
     <<"AUTH_WRITE", "REQUEST_READ">>}

EventOf(s) == IF s \in ReadStates THEN "READ" ELSE "WRITE"

Negotiate(c, s) ==
    /\ ClientEvent(c, EventOf(stm[c]))
    /\ <<stm[c], s>> \in NegotiationMoves
    /\ stm' = [stm EXCEPT ![c] = s]
    /\ SetInterest(clientFd[c], EventOf(s))
    /\ UNCHANGED <<loopVars, mem, clientFd, originFd, refs, resolving, reply,
                   left, dnsVars, open, item, queued>>

(* A handler returned ERROR or DONE, so socks5_done() closes everything: a *)
(* failed or refused negotiation, an error reply sent, a relay that ended. *)
Teardown(c) ==
    /\ \/ ClientEvent(c, EventOf(stm[c]))
          /\ stm[c] \in ReadStates \cup WriteStates
       \/ ClientEvent(c, "RELAY")
    /\ CloseBoth(c)
    /\ UNCHANGED loopVars

-----------------------------------------------------------------------------
(* The request *)

(* Faulty: the client is left without interest in writing.                 *)
NotAsked(c, of, in) ==
    [f \in Fd |-> IF f \in {clientFd[c], of} THEN "NOOP" ELSE in[f]]

(* The interests request_reply() sets.                                     *)
AskToWrite(c, of, in) ==
    [f \in Fd |-> IF f = clientFd[c] THEN "WRITE"
                  ELSE IF f = of THEN "NOOP" ELSE in[f]]

(* request_reply(): the answer goes to the client, the origin waits.       *)
Answer(c, r, of, it, in) ==
    /\ reply' = [reply EXCEPT ![c] = r]
    /\ stm' = [stm EXCEPT ![c] = "REQUEST_WRITE"]
    /\ item' = it
    /\ interest' = AskToWrite(c, of, in)

(* An attempt got a descriptor f, registered it with a reference of its    *)
(* own, and leaves l further addresses.  r, op and it are the reference    *)
(* count, the open descriptors and the items before it.                    *)
NewOrigin(c, f, l, r, op) ==
    /\ f \in Fd \ op
    /\ open' = op \cup {f}
    /\ originFd' = [originFd EXCEPT ![c] = f]
    /\ refs' = [refs EXCEPT ![c] = r + 1]
    /\ left' = [left EXCEPT ![c] = l]

(* connect() succeeded at once.                                            *)
Connected(c, f, l, r, op, it, in) ==
    /\ NewOrigin(c, f, l, r, op)
    /\ Answer(c, "succeeded", f, [it EXCEPT ![f] = c], in)

(* connect() is in progress.                                               *)
InProgress(c, f, l, r, op, it, in) ==
    /\ NewOrigin(c, f, l, r, op)
    /\ stm' = [stm EXCEPT ![c] = "REQUEST_CONNECTING"]
    /\ item' = [it EXCEPT ![f] = c]
    /\ interest' = [in EXCEPT ![clientFd[c]] = "NOOP", ![f] = "WRITE"]
    /\ UNCHANGED reply

(* No attempt is left; n addresses were not tried.                         *)
Unreachable(c, n, r, op, it, in) ==
    /\ Answer(c, "failed", NoFd, it, in)
    /\ open' = op
    /\ originFd' = [originFd EXCEPT ![c] = NoFd]
    /\ refs' = [refs EXCEPT ![c] = r]
    /\ left' = [left EXCEPT ![c] = n]

(* request_connect() and request_connect_fail(), which call one another    *)
(* until an address answers, is in progress, or none is left.  n addresses *)
(* follow the one tried first; in holds the interests on entry.            *)
Connect(c, n, r, op, it, in) ==
    \/ \E f \in Fd, l \in 0 .. n : Connected(c, f, l, r, op, it, in)
    \/ \E f \in Fd, l \in 0 .. n : InProgress(c, f, l, r, op, it, in)
    \/ Unreachable(c, 0, r, op, it, in)

(* request_on_read_ready(): a malformed request, or a command other than   *)
(* CONNECT.                                                                *)
RequestRefused(c) ==
    /\ ClientEvent(c, "READ") /\ stm[c] = "REQUEST_READ"
    /\ Answer(c, "failed", originFd[c], item, interest)
    /\ UNCHANGED <<loopVars, mem, clientFd, originFd, refs, resolving, left,
                   dnsVars, open, queued>>

(* request_on_read_ready(): the destination is an IP address.              *)
RequestAddress(c) ==
    /\ ClientEvent(c, "READ") /\ stm[c] = "REQUEST_READ"
    /\ Connect(c, left[c], refs[c], open, item, interest)
    /\ UNCHANGED <<loopVars, mem, clientFd, resolving, dnsVars, queued>>

(* Faulty: the first failure is final, the other addresses are not tried.  *)
NoneLeft(n) == FALSE

(* request_pick_next() has another address.                                *)
AnyLeft(n) == n > 0

(* request_pick_next(): n addresses are left to try.  The next one is      *)
(* tried, or the failure of the last one is answered.                      *)
NextAddress(c, n, r, op, it, in) ==
    IF AnyLeft(n)
    THEN Connect(c, n - 1, r, op, it, in)
    ELSE Unreachable(c, n, r, op, it, in)

(* request_connecting_on_write_ready(): SO_ERROR is zero.                  *)
ConnectDone(c) ==
    /\ mainPc = "iter" /\ mem[c] = "live" /\ stm[c] = "REQUEST_CONNECTING"
    /\ item[originFd[c]] = c /\ interest[originFd[c]] = "WRITE"
    /\ Answer(c, "succeeded", originFd[c], item, interest)
    /\ UNCHANGED <<loopVars, mem, clientFd, originFd, refs, resolving, left,
                   dnsVars, open, queued>>

(* close()                                                                 *)
Closed(f) == open \ {f}

(* The same, when the attempt failed: the descriptor is unregistered and   *)
(* closed, its reference given back, and the next address is tried.        *)
ConnectFailed(c) ==
    /\ mainPc = "iter" /\ mem[c] = "live" /\ stm[c] = "REQUEST_CONNECTING"
    /\ item[originFd[c]] = c /\ interest[originFd[c]] = "WRITE"
    /\ NextAddress(c, left[c], refs[c] - 1, Closed(originFd[c]),
                   [item EXCEPT ![originFd[c]] = NoConn],
                   [interest EXCEPT ![originFd[c]] = "NOOP"])
    /\ UNCHANGED <<loopVars, mem, clientFd, resolving, dnsVars, queued>>

(* request_write_on_write_ready() sent a success reply; relay_on_arrival().*)
EnterCopy(c) ==
    /\ ClientEvent(c, "WRITE") /\ stm[c] = "REQUEST_WRITE"
    /\ reply[c] = "succeeded"
    /\ stm' = [stm EXCEPT ![c] = "COPY"]
    /\ interest' = [interest EXCEPT ![clientFd[c]] = "RELAY",
                                    ![originFd[c]] = "RELAY"]
    /\ UNCHANGED <<loopVars, mem, clientFd, originFd, refs, resolving, reply,
                   left, dnsVars, open, item, queued>>

-----------------------------------------------------------------------------
(* Resolving a name *)

(* selector_notify_block() when malloc() succeeds.  resolution_jobs may    *)
(* hold several notifications; only how many per descriptor matters here.  *)
Enqueue(f) == queued' = [queued EXCEPT ![f] = @ + 1]

(* The loop holds resolution_mutex while it handles the notifications.     *)
ResolutionMutexFree == mainPc \notin {"block", "join"}

(* Faulty: the job takes no reference of its own.                          *)
NotRetained(c) == UNCHANGED refs

(* socks5_retain()                                                         *)
Retain(c) == refs' = [refs EXCEPT ![c] = @ + 1]

(* selector_set_interest_key(key, OP_NOOP)                                 *)
Quieten(c) == SetInterest(clientFd[c], "NOOP")

(* What both outcomes of request_resolv_on_arrival() have in common.       *)
SubmitJob(c) ==
    /\ ClientEvent(c, "READ") /\ stm[c] = "REQUEST_READ"
    /\ stm' = [stm EXCEPT ![c] = "REQUEST_RESOLV"]
    /\ resolving' = [resolving EXCEPT ![c] = TRUE]
    /\ Quieten(c)
    /\ dnsActive' = [dnsActive EXCEPT ![c] = TRUE]
    /\ dnsResult' = [dnsResult EXCEPT ![c] = 0]
    /\ Retain(c)
    /\ UNCHANGED <<loopVars, mem, clientFd, originFd, reply, left, open, item>>

(* A worker was created for the job.                                       *)
ResolveInWorker(c) ==
    /\ SubmitJob(c)
    /\ dnsStarted' = [dnsStarted EXCEPT ![c] = TRUE]
    /\ dnsCompleted' = [dnsCompleted EXCEPT ![c] = FALSE]
    /\ dnsFailed' = [dnsFailed EXCEPT ![c] = FALSE]
    /\ wpc' = [wpc EXCEPT ![c] = "lookup"]
    /\ UNCHANGED queued

(* pthread_create() failed: the job is completed without a result and the  *)
(* loop notifies itself, which may fail as well.                           *)
ResolveWithoutWorker(c) ==
    /\ SubmitJob(c)
    /\ dnsStarted' = [dnsStarted EXCEPT ![c] = FALSE]
    /\ dnsCompleted' = [dnsCompleted EXCEPT ![c] = TRUE]
    /\ \/ Enqueue(clientFd[c]) /\ dnsFailed' = [dnsFailed EXCEPT ![c] = FALSE]
       \/ UNCHANGED queued /\ dnsFailed' = [dnsFailed EXCEPT ![c] = TRUE]
    /\ UNCHANGED wpc

(* request_resolv_thread(): getaddrinfo() returned, with n addresses or an *)
(* error (n = 0), and the result is published under dns_jobs_mutex.        *)
WorkerPublish(c, n) ==
    /\ wpc[c] = "lookup"
    /\ dnsResult' = [dnsResult EXCEPT ![c] = n]
    /\ dnsCompleted' = [dnsCompleted EXCEPT ![c] = TRUE]
    /\ wpc' = [wpc EXCEPT ![c] = "notify"]
    /\ UNCHANGED <<loopVars, connVars, dnsActive, dnsStarted, dnsFailed, selVars>>

(* dns_job_notify(), first half: selector_notify_block() queued the node.  *)
WorkerNotify(c) ==
    /\ wpc[c] = "notify" /\ ResolutionMutexFree
    /\ Enqueue(clientFd[c])
    /\ wpc' = [wpc EXCEPT ![c] = "flagOk"]
    /\ UNCHANGED <<loopVars, connVars, dnsActive, dnsStarted, dnsCompleted,
                   dnsFailed, dnsResult, open, item, interest>>

(* The same, when malloc() failed: SELECTOR_ENOMEM.                        *)
WorkerNotifyFails(c) ==
    /\ wpc[c] = "notify"
    /\ wpc' = [wpc EXCEPT ![c] = "flagFail"]
    /\ UNCHANGED <<loopVars, connVars, dnsActive, dnsStarted, dnsCompleted,
                   dnsFailed, dnsResult, selVars>>

(* What dns_job_notify() leaves in dns_notification_failed.                *)
Outcome(c) == IF dnsActive[c] THEN wpc[c] = "flagFail" ELSE dnsFailed[c]

(* dns_job_notify(), second half, and the end of the thread.               *)
WorkerExit(c) ==
    /\ wpc[c] \in {"flagOk", "flagFail"}
    /\ dnsFailed' = [dnsFailed EXCEPT ![c] = Outcome(c)]
    /\ wpc' = [wpc EXCEPT ![c] = "exited"]
    /\ UNCHANGED <<loopVars, connVars, dnsActive, dnsStarted, dnsCompleted,
                   dnsResult, selVars>>

(* Faulty: the join is forgotten, as if the thread were detached.          *)
CanJoinAlways(c) == dnsStarted[c] => wpc[c] # "none"

(* pthread_join() returns.                                                 *)
CanJoin(c) == dnsStarted[c] => wpc[c] = "exited"

(* dns_job_remove_locked() and the assignments that follow it.  The join   *)
(* before it reaped the worker, if there was one and it had ended.         *)
RemoveJob(c) ==
    /\ wpc' = [wpc EXCEPT ![c] = IF @ = "exited" THEN "none" ELSE @]
    /\ dnsActive' = [dnsActive EXCEPT ![c] = FALSE]
    /\ dnsStarted' = [dnsStarted EXCEPT ![c] = FALSE]
    /\ dnsCompleted' = [dnsCompleted EXCEPT ![c] = FALSE]
    /\ dnsFailed' = [dnsFailed EXCEPT ![c] = FALSE]
    /\ dnsResult' = [dnsResult EXCEPT ![c] = 0]
    /\ resolving' = [resolving EXCEPT ![c] = FALSE]

-----------------------------------------------------------------------------
(* The event loop *)

(* pselect() reports ready descriptors.                                    *)
SelectReady ==
    /\ mainPc = "select" /\ mainPc' = "iter"
    /\ UNCHANGED <<cur, signals, closing, connVars, dnsVars, selVars>>

(* pselect() returned EINTR, or handle_iteration() reached its last        *)
(* descriptor: handle_block_notifications() takes resolution_mutex.        *)
BlockStart ==
    /\ mainPc \in {"select", "iter"} /\ mainPc' = "block"
    /\ UNCHANGED <<cur, signals, closing, connVars, dnsVars, selVars>>

(* pselect() failed for another reason and main() leaves the loop.         *)
SelectFails ==
    /\ mainPc = "select" /\ mainPc' = "waitall"
    /\ UNCHANGED <<cur, signals, closing, connVars, dnsVars, selVars>>

(* One iteration of handle_block_notifications(): whatever connection has  *)
(* the descriptor now gets the event, and request_resolv_on_block_ready()  *)
(* ignores it unless its job is completed.                                 *)
BlockDispatch(f) ==
    /\ mainPc = "block" /\ queued[f] > 0
    /\ queued' = [queued EXCEPT ![f] = @ - 1]
    /\ IF item[f] # NoConn /\ dnsActive[item[f]] /\ dnsCompleted[item[f]]
       THEN mainPc' = "join" /\ cur' = item[f]
       ELSE UNCHANGED <<mainPc, cur>>
    /\ UNCHANGED <<signals, closing, connVars, dnsVars, open, item, interest>>

(* The rest of request_resolv_on_block_ready(), once the join returned.    *)
BlockFinish ==
    /\ mainPc = "join" /\ CanJoin(cur)
    /\ mainPc' = "block" /\ cur' = NoConn
    /\ RemoveJob(cur)
    /\ NextAddress(cur, dnsResult[cur], refs[cur] - 1, open, item, interest)
    /\ UNCHANGED <<signals, closing, mem, clientFd, queued>>

(* Faulty: the list is emptied with notifications still in it.             *)
SomeHandled == TRUE

AllHandled == \A f \in Fd : queued[f] = 0

(* The list is set to empty and resolution_mutex released.                 *)
BlockEnd ==
    /\ mainPc = "block" /\ AllHandled
    /\ mainPc' = "retry"
    /\ queued' = [f \in Fd |-> 0]
    /\ UNCHANGED <<cur, signals, closing, connVars, dnsVars, open, item, interest>>

(* Faulty: every completed job is notified again, failed or not.           *)
AnyCompleted(c) == dnsActive[c] /\ dnsCompleted[c]

(* The jobs request_resolv_retry_notifications() notifies again.           *)
RetryDue(c) == dnsActive[c] /\ dnsCompleted[c] /\ dnsFailed[c]

(* request_resolv_retry_notifications(), in one step: dns_jobs_mutex is    *)
(* held throughout.  D is the set of jobs malloc() had a node for.         *)
Retry(D) ==
    /\ mainPc = "retry" /\ mainPc' = "tail"
    /\ \A c \in D : RetryDue(c)
    /\ queued' = [f \in Fd |->
                    IF \E c \in D : clientFd[c] = f THEN queued[f] + 1 ELSE queued[f]]
    /\ dnsFailed' = [c \in Conn |-> dnsFailed[c] /\ c \notin D]
    /\ UNCHANGED <<cur, signals, closing, connVars, dnsActive, dnsStarted,
                   dnsCompleted, dnsResult, wpc, open, item, interest>>

(* The sweep closes a connection it finds idle, never one being resolved.  *)
Sweepable(c) == mem[c] = "live" /\ ~resolving[c]

SweepKill(c) ==
    /\ mainPc = "tail" /\ Sweepable(c)
    /\ CloseBoth(c)
    /\ UNCHANGED loopVars

(* Faulty: the second signal is treated like the first.                    *)
NeverForced == FALSE

Forced == signals >= 2

(* The end of an iteration of main(): the second signal leaves the loop,   *)
(* the first one closes the passive sockets, and when closing the loop is  *)
(* left once no connection is active.  (It may go on even then: monitoring *)
(* sessions, which this module leaves out, keep it alive too.)             *)
LoopEnd ==
    /\ mainPc = "tail"
    /\ IF Forced
       THEN mainPc' = "waitall" /\ UNCHANGED closing
       ELSE /\ closing' = (closing \/ signals >= 1)
            /\ \/ mainPc' = "select"
               \/ closing' /\ Live = {} /\ mainPc' = "waitall"
    /\ UNCHANGED <<cur, signals, connVars, dnsVars, selVars>>

(* shutdown_handler(); signals after the second change nothing.            *)
Signal ==
    /\ mainPc \notin {"waitall", "destroy", "exit"} /\ signals < 2
    /\ signals' = signals + 1
    /\ UNCHANGED <<mainPc, cur, closing, connVars, dnsVars, selVars>>

(* request_resolv_wait_all(): one job.                                     *)
WaitAllJob(c) ==
    /\ mainPc = "waitall" /\ c \in DnsJobs /\ CanJoin(c)
    /\ RemoveJob(c)
    /\ Release(c, 1)
    /\ UNCHANGED <<loopVars, stm, clientFd, originFd, reply, left, selVars>>

AllJobsWaited == DnsJobs = {}

WaitAllEnd ==
    /\ mainPc = "waitall" /\ AllJobsWaited
    /\ mainPc' = "destroy"
    /\ UNCHANGED <<cur, signals, closing, connVars, dnsVars, selVars>>

(* selector_destroy(): one registered descriptor.  It is not closed: the   *)
(* process is about to end.                                                *)
DestroyItem(f) ==
    /\ mainPc = "destroy" /\ item[f] # NoConn
    /\ Release(item[f], 1)
    /\ item' = [item EXCEPT ![f] = NoConn]
    /\ SetInterest(f, "NOOP")
    /\ UNCHANGED <<loopVars, stm, clientFd, originFd, resolving, reply, left,
                   dnsVars, open, queued>>

(* The rest of selector_destroy(), and socks5_pool_destroy().              *)
DestroyEnd ==
    /\ mainPc = "destroy" /\ \A f \in Fd : item[f] = NoConn
    /\ mainPc' = "exit"
    /\ queued' = [f \in Fd |-> 0]
    /\ mem' = [c \in Conn |-> IF mem[c] = "pool" THEN "heap" ELSE mem[c]]
    /\ UNCHANGED <<cur, signals, closing, stm, clientFd, originFd, refs,
                   resolving, reply, left, dnsVars, open, item, interest>>

(* The process has ended.                                                  *)
Ended == mainPc = "exit" /\ UNCHANGED vars

-----------------------------------------------------------------------------
Handlers(c) ==
    \/ \E f \in Fd : Accept(c, f)
    \/ AcceptRefused(c)
    \/ \E s \in States : Negotiate(c, s)
    \/ Teardown(c)
    \/ RequestRefused(c)
    \/ RequestAddress(c)
    \/ ResolveInWorker(c)
    \/ ResolveWithoutWorker(c)
    \/ ConnectDone(c)
    \/ ConnectFailed(c)
    \/ EnterCopy(c)

Worker(c) ==
    \/ \E n \in 0 .. MaxAddrs : WorkerPublish(c, n)
    \/ WorkerNotify(c)
    \/ WorkerNotifyFails(c)
    \/ WorkerExit(c)

Loop ==
    \/ SelectReady
    \/ BlockStart
    \/ SelectFails
    \/ \E f \in Fd : BlockDispatch(f)
    \/ BlockFinish
    \/ BlockEnd
    \/ \E D \in SUBSET Conn : Retry(D)
    \/ LoopEnd
    \/ \E c \in Conn : WaitAllJob(c)
    \/ WaitAllEnd
    \/ \E f \in Fd : DestroyItem(f)
    \/ DestroyEnd

Next ==
    \/ \E c \in Conn : Handlers(c)
    \/ \E c \in Conn : SweepKill(c)
    \/ \E c \in Conn : Worker(c)
    \/ Loop
    \/ Signal
    \/ Ended

Spec == Init /\ [][Next]_vars

(* The loop never stops by itself, the scheduler lets every worker run,    *)
(* getaddrinfo() returns (its resolver times out), and malloc() does not   *)
(* fail in every retry forever.                                            *)
RetryAll == Retry({c \in Conn : RetryDue(c)})

FairSpec ==
    /\ Spec
    /\ WF_vars(Loop)
    /\ \A c \in Conn : WF_vars(Worker(c))
    /\ SF_vars(RetryAll)

-----------------------------------------------------------------------------
(* Properties *)

TypeOK ==
    /\ mainPc \in MainPcs /\ cur \in Conn \cup {NoConn}
    /\ signals \in 0 .. 2 /\ closing \in BOOLEAN
    /\ mem \in [Conn -> MemStates] /\ stm \in [Conn -> States]
    /\ clientFd \in [Conn -> Fd \cup {NoFd}]
    /\ originFd \in [Conn -> Fd \cup {NoFd}]
    /\ refs \in [Conn -> 0 .. 3] /\ resolving \in [Conn -> BOOLEAN]
    /\ reply \in [Conn -> {"none", "succeeded", "failed"}]
    /\ left \in [Conn -> 0 .. MaxAddrs]
    /\ dnsActive \in [Conn -> BOOLEAN] /\ dnsStarted \in [Conn -> BOOLEAN]
    /\ dnsCompleted \in [Conn -> BOOLEAN] /\ dnsFailed \in [Conn -> BOOLEAN]
    /\ dnsResult \in [Conn -> 0 .. MaxAddrs] /\ wpc \in [Conn -> WorkerPcs]
    /\ open \subseteq Fd /\ item \in [Fd -> Conn \cup {NoConn}]
    /\ interest \in [Fd -> Interests] /\ queued \in [Fd -> Nat]

(* The loop may still handle events: main() has not left it.               *)
Looping == mainPc \notin {"waitall", "destroy", "exit"}

Bit(b) == IF b THEN 1 ELSE 0

(* The count of a structure is the number of its registered descriptors    *)
(* plus its DNS job, and it is live exactly while that is not zero: no     *)
(* owner is left with a recycled structure and none is counted twice.      *)
RefsMatchOwners ==
    \A c \in Conn :
       /\ refs[c] = Bit(\E f \in Fd : f = clientFd[c] /\ item[f] = c)
                    + Bit(\E f \in Fd : f = originFd[c] /\ item[f] = c)
                    + Bit(dnsActive[c])
       /\ mem[c] = "live" <=> refs[c] > 0

(* While a worker runs, or has run and was not joined, the structure it    *)
(* writes to is live and still belongs to the connection that started it.  *)
WorkerHoldsConnection ==
    \A c \in Conn : wpc[c] # "none" =>
       mem[c] = "live" /\ dnsActive[c] /\ dnsStarted[c]
         /\ (Looping => resolving[c] /\ stm[c] = "REQUEST_RESOLV")

(* A completed job is never forgotten: its worker has yet to notify, or a  *)
(* notification is queued, or the loop will retry it, or is handling it.   *)
NoLostCompletion ==
    \A c \in Conn : dnsCompleted[c] /\ Looping =>
       \/ wpc[c] \in {"notify", "flagFail"}
       \/ queued[clientFd[c]] = 1
       \/ dnsFailed[c]
       \/ mainPc = "join" /\ cur = c

(* A notification reaches the connection whose job it announces, in the    *)
(* state that handles it, and only once.                                   *)
NotificationsReachTheirOwner ==
    Looping => \A f \in Fd : queued[f] > 0 =>
       /\ queued[f] = 1
       /\ \E c \in Conn : item[f] = c /\ clientFd[c] = f /\ dnsCompleted[c]
                            /\ stm[c] = "REQUEST_RESOLV"
                            /\ ~(mainPc = "join" /\ cur = c)

(* The loop joins a worker while it holds resolution_mutex: that worker    *)
(* must be past its need of it, or both wait forever ("este join no espera *)
(* al getaddrinfo()", request.c:366).                                      *)
JoinIsShort ==
    mainPc = "join" => wpc[cur] \notin {"lookup", "notify"}

(* stm_handler_read/write/block() abort() the process when the current     *)
(* state has no handler: no descriptor ever asks for such an event.        *)
HasHandler(s, i) ==
    /\ i = "READ"  => s \in ReadStates
    /\ i = "WRITE" => s \in WriteStates \cup {"REQUEST_CONNECTING"}
    /\ i = "RELAY" => s = "COPY"

EventsHaveHandlers ==
    \A f \in Fd : item[f] # NoConn => HasHandler(stm[item[f]], interest[f])

(* A connection is never abandoned with nothing to wake it: it has a DNS   *)
(* job in flight or some descriptor of it asks for an event.               *)
AlwaysAwaited ==
    Looping => \A c \in Live :
       dnsActive[c] \/ \E f \in Fd : item[f] = c /\ interest[f] # "NOOP"

(* Until selector_destroy(), the open descriptors are those the live       *)
(* connections own, each registered for its owner: none leaks, and none is *)
(* closed while registered (pselect() would fail with EBADF).              *)
DescriptorsHaveOwners ==
    mainPc \notin {"destroy", "exit"} =>
       /\ open = {f \in Fd : item[f] # NoConn}
       /\ \A c \in Conn, f \in Fd :
             item[f] = c <=> mem[c] = "live" /\ f \in Owned(c)

(* A failure is reported only when no resolved address is left to try      *)
(* (RF4).                                                                  *)
EveryAddressTried == \A c \in Conn : reply[c] = "failed" => left[c] = 0

(* When main() returns, every structure was freed and every worker joined. *)
ExitFreesEverything ==
    mainPc = "exit" => \A c \in Conn : mem[c] = "heap" /\ wpc[c] = "none"

(* Memory and descriptors have exactly the owners the code believes they   *)
(* have, from socks5_new() to the end of main(), whatever the order in     *)
(* which descriptors, jobs, the sweep and the exit let go of them.         *)
StructuresAreSound ==
    TypeOK /\ RefsMatchOwners /\ DescriptorsHaveOwners /\ ExitFreesEverything

(* The hand-over of a resolution from the worker to the loop, step by step *)
(* and with each step failing (dns_job_notify(),                           *)
(* request_resolv_retry_notifications(),                                   *)
(* request_resolv_on_block_ready()): neither the structure nor the result  *)
(* is lost, the right connection gets it once, and nobody waits for ever.  *)
HandOverIsSafe ==
    /\ WorkerHoldsConnection /\ NoLostCompletion
    /\ NotificationsReachTheirOwner /\ JoinIsShort

(* Whatever transition was taken last, a connection asks for some event,   *)
(* and for none that its state cannot handle.                              *)
InterestsFitState == EventsHaveHandlers /\ AlwaysAwaited

(* Every resolution ends: it is consumed, or dropped by the shutdown.      *)
ResolutionEnds == \A c \in Conn : dnsActive[c] ~> ~dnsActive[c]

(* The second signal ends the process, whatever the workers are doing.     *)
ForcedExit == signals = 2 ~> mainPc = "exit"

(* The resolution machinery implements the service it promises.            *)
JobState == [c \in Conn |-> IF ~dnsActive[c] THEN "none"
                            ELSE IF dnsCompleted[c] THEN "answered" ELSE "pending"]

Service == INSTANCE DnsService WITH held <- Live, job <- JobState
ImplementsService == Service!Spec
=============================================================================
