------------------------------ MODULE Sessions ------------------------------
(***************************************************************************)
(* Where the structures of the monitoring sessions live, and when the      *)
(* process ends: the free list and the doubly linked list of monitor.c,    *)
(* the loops that walk the latter while they take elements out of it, the  *)
(* descriptors, and the main loop of server.c with its two signals.        *)
(*                                                                         *)
(* Of a session only the bytes of an answer that are still to be sent are  *)
(* kept (module Monitor has the rest), and of the SOCKS5 connections their *)
(* number (module Socks5 has the rest).  The free list is a sequence, its  *)
(* head first; the other list keeps its pointers, and the history variable *)
(* order is the sequence they stand for.                                   *)
(***************************************************************************)
EXTENDS Naturals, Sequences, FiniteSets

CONSTANTS
    Structs,      \* what malloc() may give
    Fds,          \* what accept() may give
    Null,
    MaxSessions,  \* MNG_MAX_CONNECTIONS
    PoolMax,      \* MNG_POOL_MAX
    MaxAnswer,    \* bound: the length of an answer
    MaxConns      \* bound: the SOCKS5 connections at one time

ASSUME SessionsAssumption ==
    /\ Null \notin Structs \cup Fds
    /\ {MaxSessions, PoolMax, MaxAnswer, MaxConns} \subseteq Nat

VARIABLES
    active,                      \* the structures whose flag active is set
    activeList, anext, aprev,    \* active_list, active_next, active_prev
    activeCount,
    pool,
    fd, left, stale, spared,     \* per session; stale: idle for idle_timeout
    open, registered,            \* the descriptors, and what the selector has
    conns,                       \* socks5_active_connections()
    idleOn,                      \* idle_timeout > 0
    signals, closing,            \* shutdown_signals, and main()'s closing
    pc, cur,                     \* where the loop is, and cur of its walks
    order                        \* history: the list, the newest first

listVars == <<active, activeList, anext, aprev, activeCount, order>>
fdVars   == <<fd, open, registered>>
loopVars == <<signals, closing, pc, cur>>
vars == <<listVars, pool, fdVars, left, stale, spared, conns, idleOn, loopVars>>

Elements(q) == {q[i] : i \in DOMAIN q}

(* What is neither a session nor in the free list.                         *)
Heap == Structs \ (active \cup Elements(pool))

Init ==
    /\ active = {} /\ activeList = Null /\ activeCount = 0
    /\ anext = [s \in Structs |-> Null] /\ aprev = [s \in Structs |-> Null]
    /\ pool = <<>> /\ order = <<>>
    /\ fd = [s \in Structs |-> Null]
    /\ left = [s \in Structs |-> 0]
    /\ stale = [s \in Structs |-> FALSE] /\ spared = [s \in Structs |-> FALSE]
    /\ open = {} /\ registered = [f \in Fds |-> Null]
    /\ conns = 0 /\ idleOn = TRUE
    /\ signals = 0 /\ closing = FALSE
    /\ pc = "select" /\ cur = Null

-----------------------------------------------------------------------------
(* The two lists *)

(* active_add()                                                            *)
Linked(c) ==
    /\ active' = active \cup {c}
    /\ activeList' = c /\ activeCount' = activeCount + 1
    /\ anext' = [anext EXCEPT ![c] = activeList]
    /\ aprev' = [s \in Structs |-> IF s = c THEN Null
                                ELSE IF s = activeList THEN c ELSE aprev[s]]
    /\ order' = <<c>> \o order

Without(q, i) == [j \in 1 .. Len(q) - 1 |-> IF j < i THEN q[j] ELSE q[j + 1]]

Position(c) == CHOOSE i \in DOMAIN order : order[i] = c

(* Faulty: a session at the head leaves no head.                           *)
HeadLost(c) == IF aprev[c] # Null THEN activeList ELSE Null

HeadWithout(c) == IF aprev[c] # Null THEN activeList ELSE anext[c]

(* Faulty: the next session keeps its pointer to the one that leaves.      *)
PrevKept(c) == [s \in Structs |-> IF s = c THEN Null ELSE aprev[s]]

PrevWithout(c) ==
    [s \in Structs |-> IF s = c THEN Null
                       ELSE IF s = anext[c] THEN aprev[c] ELSE aprev[s]]

NextWithout(c) ==
    [s \in Structs |-> IF s = c THEN Null
                       ELSE IF s = aprev[c] THEN anext[c] ELSE anext[s]]

(* active_remove()                                                         *)
Unlinked(c) ==
    /\ active' = active \ {c}
    /\ activeList' = HeadWithout(c) /\ activeCount' = activeCount - 1
    /\ anext' = NextWithout(c) /\ aprev' = PrevWithout(c)
    /\ order' = Without(order, Position(c))

(* mng_new(): the head of the free list, or malloc().                      *)
New(c) == IF pool = <<>> THEN c \in Heap ELSE c = Head(pool)

(* The free list without the structure that mng_new() returned.            *)
Rest(c) == IF c \in Elements(pool) THEN Tail(pool) ELSE pool

(* mng_destroy(): back to the free list, unless it is full.                *)
Returned(c, free) == IF Len(free) < PoolMax THEN <<c>> \o free ELSE free

Closed(f) == open \ {f}

(* mng_kill() and mng_done(): the selector calls mng_close(), which ends   *)
(* in mng_destroy(), and the descriptor is closed.  What else the          *)
(* structure holds is dead: mng_new() clears it.                           *)
Kill(c) ==
    /\ Unlinked(c)
    /\ pool' = Returned(c, pool)
    /\ registered' = [registered EXCEPT ![fd[c]] = Null]
    /\ open' = Closed(fd[c])
    /\ fd' = [fd EXCEPT ![c] = Null]
    /\ left' = [left EXCEPT ![c] = 0]
    /\ stale' = [stale EXCEPT ![c] = FALSE]
    /\ spared' = [spared EXCEPT ![c] = FALSE]

Keeps == UNCHANGED <<listVars, pool, fdVars>>

-----------------------------------------------------------------------------
(* What the selector dispatches *)

(* mng_passive_accept().  A connection over the limit, or one that          *)
(* selector_fd_set_nio() or malloc() fails for, is closed at once: nothing *)
(* changes.                                                                *)
Accept(c, f) ==
    /\ pc = "select" /\ ~closing /\ activeCount < MaxSessions
    /\ New(c) /\ f \notin open
    /\ Linked(c)
    /\ pool' = Rest(c)
    /\ fd' = [fd EXCEPT ![c] = f]
    /\ open' = open \cup {f}
    /\ registered' = [registered EXCEPT ![f] = c]
    /\ UNCHANGED <<left, stale, spared, conns, idleOn, loopVars>>

(* selector_register() fails.                                              *)
AcceptFails(c) ==
    /\ pc = "select" /\ ~closing /\ activeCount < MaxSessions
    /\ New(c)
    /\ pool' = Returned(c, Rest(c))
    /\ UNCHANGED <<listVars, fdVars, left, stale, spared, conns, idleOn, loopVars>>

(* mng_read(): a part of a message, or a whole one and its answer.  A      *)
(* command may be SET_TIMEOUT.                                             *)
Receive(c) ==
    /\ pc = "select" /\ c \in active /\ left[c] = 0
    /\ stale' = [stale EXCEPT ![c] = FALSE]
    /\ \/ UNCHANGED <<left, idleOn>>
       \/ \E n \in 1 .. MaxAnswer, on \in BOOLEAN :
             left' = [left EXCEPT ![c] = n] /\ idleOn' = on
    /\ Keeps /\ UNCHANGED <<spared, conns, loopVars>>

(* mng_write(): n bytes of the answer.                                     *)
Send(c, n) ==
    /\ pc = "select" /\ c \in active /\ n \in 1 .. left[c]
    /\ n < left[c] \/ ~spared[c]
    /\ left' = [left EXCEPT ![c] = @ - n]
    /\ stale' = [stale EXCEPT ![c] = FALSE]
    /\ Keeps /\ UNCHANGED <<spared, conns, idleOn, loopVars>>

(* The last byte of a session that is to end, the end of the stream, a     *)
(* failed call.                                                            *)
Leave(c) ==
    /\ pc = "select" /\ c \in active
    /\ Kill(c)
    /\ UNCHANGED <<conns, idleOn, loopVars>>

(* Time: the session has been idle for idle_timeout.                       *)
Age(c) ==
    /\ pc = "select" /\ c \in active /\ ~stale[c]
    /\ stale' = [stale EXCEPT ![c] = TRUE]
    /\ Keeps /\ UNCHANGED <<left, spared, conns, idleOn, loopVars>>

(* SOCKS5 connections (see Socks5).                                        *)
ConnOpens ==
    /\ pc = "select" /\ ~closing /\ conns < MaxConns
    /\ conns' = conns + 1
    /\ Keeps /\ UNCHANGED <<left, stale, spared, idleOn, loopVars>>

ConnCloses ==
    /\ pc \in {"select", "sweep"} /\ conns > 0
    /\ conns' = conns - 1
    /\ Keeps /\ UNCHANGED <<left, stale, spared, idleOn, loopVars>>

-----------------------------------------------------------------------------
(* The main loop *)

(* shutdown_handler()                                                      *)
Signal ==
    /\ pc # "exit" /\ signals < 2
    /\ signals' = signals + 1
    /\ Keeps /\ UNCHANGED <<left, stale, spared, conns, idleOn, closing, pc, cur>>

Goes(to, at) ==
    /\ pc' = to /\ cur' = at
    /\ UNCHANGED signals

(* selector_select() returns: the sweep is due or not, or it failed.       *)
Due ==
    /\ pc = "select"
    /\ Goes("sweep", activeList)
    /\ Keeps /\ UNCHANGED <<left, stale, spared, conns, idleOn, closing>>

NotDue ==
    /\ pc = "select"
    /\ Goes("signals", Null)
    /\ Keeps /\ UNCHANGED <<left, stale, spared, conns, idleOn, closing>>

SelectFails ==
    /\ pc = "select"
    /\ Goes("finally", Null)
    /\ Keeps /\ UNCHANGED <<left, stale, spared, conns, idleOn, closing>>

Killed(c) == IF pc = "sweep" THEN idleOn /\ stale[c] ELSE left[c] = 0

(* Faulty: the next one is read after the session was killed, when its     *)
(* pointers are cleared, or its memory links the free list.                *)
FollowingLate(c) == IF Killed(c) THEN Null ELSE anext[c]

(* The next one, read before the session may be killed.                    *)
Following(c) == anext[c]

(* One turn of mng_sweep_timeouts().                                       *)
Sweep ==
    /\ pc = "sweep" /\ cur # Null
    /\ \/ Killed(cur) /\ Kill(cur)
       \/ ~Killed(cur) /\ Keeps /\ UNCHANGED <<left, stale, spared>>
    /\ Goes("sweep", Following(cur))
    /\ UNCHANGED <<conns, idleOn, closing>>

Swept ==
    /\ pc = "sweep" /\ cur = Null
    /\ Goes("signals", Null)
    /\ Keeps /\ UNCHANGED <<left, stale, spared, conns, idleOn, closing>>

Forced == signals = 2

(* The first signal closes both ports and begins mng_begin_shutdown(), the *)
(* second one leaves the loop.                                             *)
Signals ==
    /\ pc = "signals"
    /\ \/ Forced /\ Goes("finally", Null) /\ UNCHANGED closing
       \/ /\ ~Forced /\ signals > 0 /\ ~closing
          /\ Goes("begin", activeList) /\ closing' = TRUE
       \/ /\ ~Forced /\ (signals = 0 \/ closing)
          /\ Goes("check", Null) /\ UNCHANGED closing
    /\ Keeps /\ UNCHANGED <<left, stale, spared, conns, idleOn>>

(* One turn of mng_begin_shutdown().  selector_set_interest() does not     *)
(* fail, for the session is registered.                                    *)
Begin ==
    /\ pc = "begin" /\ cur # Null
    /\ \/ /\ ~Killed(cur)
          /\ spared' = [spared EXCEPT ![cur] = TRUE]
          /\ Keeps /\ UNCHANGED <<left, stale>>
       \/ Killed(cur) /\ Kill(cur)
    /\ Goes("begin", Following(cur))
    /\ UNCHANGED <<conns, idleOn, closing>>

Begun ==
    /\ pc = "begin" /\ cur = Null
    /\ Goes("check", Null)
    /\ Keeps /\ UNCHANGED <<left, stale, spared, conns, idleOn, closing>>

NothingActive == conns = 0 /\ activeCount = 0

Check ==
    /\ pc = "check"
    /\ \/ closing /\ NothingActive /\ Goes("finally", Null)
       \/ ~(closing /\ NothingActive) /\ Goes("select", Null)
    /\ Keeps /\ UNCHANGED <<left, stale, spared, conns, idleOn, closing>>

(* request_resolv_wait_all() returns.                                      *)
Waited ==
    /\ pc = "finally"
    /\ Goes("force", Null)
    /\ Keeps /\ UNCHANGED <<left, stale, spared, conns, idleOn, closing>>

(* One turn of mng_force_close_all().                                      *)
ForceClose ==
    /\ pc = "force" /\ activeList # Null
    /\ Kill(activeList)
    /\ Goes("force", Null)
    /\ UNCHANGED <<conns, idleOn, closing>>

(* selector_destroy() ends the SOCKS5 connections; then both free lists.   *)
Destroy ==
    /\ pc = "force" /\ activeList = Null
    /\ Goes("exit", Null)
    /\ conns' = 0
    /\ pool' = <<>>
    /\ UNCHANGED <<listVars, fdVars, left, stale, spared, idleOn, closing>>

Exited == pc = "exit" /\ UNCHANGED vars

Loop ==
    \/ NotDue \/ Sweep \/ Swept \/ Signals \/ Begin \/ Begun
    \/ Check \/ Waited \/ ForceClose \/ Destroy

Next ==
    \/ Loop \/ Due \/ SelectFails \/ Signal \/ Exited \/ ConnOpens \/ ConnCloses
    \/ \E c \in Structs :
          \/ \E f \in Fds : Accept(c, f)
          \/ AcceptFails(c) \/ Receive(c) \/ Leave(c) \/ Age(c)
          \/ \E n \in 1 .. MaxAnswer : Send(c, n)

Spec == Init /\ [][Next]_vars

(* select() never waits forever, the sweep is due again and again, time    *)
(* passes, and the SOCKS5 connections end.                                 *)
FairSpec ==
    /\ Spec
    /\ WF_vars(Loop) /\ SF_vars(Due) /\ SF_vars(ConnCloses)
    /\ \A c \in Structs : SF_vars(Age(c))

-----------------------------------------------------------------------------
(* Properties *)

ListsTypeOK ==
    /\ active \subseteq Structs /\ activeList \in Structs \cup {Null}
    /\ anext \in [Structs -> Structs \cup {Null}]
    /\ aprev \in [Structs -> Structs \cup {Null}]
    /\ activeCount \in Nat
    /\ pool \in Seq(Structs) /\ order \in Seq(Structs)

SessionsTypeOK ==
    /\ fd \in [Structs -> Fds \cup {Null}]
    /\ left \in [Structs -> 0 .. MaxAnswer]
    /\ stale \in [Structs -> BOOLEAN] /\ spared \in [Structs -> BOOLEAN]
    /\ open \subseteq Fds /\ registered \in [Fds -> Structs \cup {Null}]

(* What is not a session has no links, no descriptor and nothing to do.    *)
IdleAreBlank ==
    \A c \in Structs \ active :
        /\ anext[c] = Null /\ aprev[c] = Null /\ fd[c] = Null
        /\ left[c] = 0 /\ ~stale[c] /\ ~spared[c]

LoopTypeOK ==
    /\ conns \in 0 .. MaxConns /\ idleOn \in BOOLEAN
    /\ signals \in 0 .. 2 /\ closing \in BOOLEAN
    /\ pc \in {"select", "sweep", "signals", "begin", "check", "finally", "force", "exit"}
    /\ cur \in Structs \cup {Null}

TypeOK == ListsTypeOK /\ SessionsTypeOK /\ IdleAreBlank /\ LoopTypeOK

At(q, i) == IF i \in DOMAIN q THEN q[i] ELSE Null

Distinct(q) == \A i, j \in DOMAIN q : q[i] = q[j] => i = j

(* The pointers are one doubly linked list of the registered sessions,     *)
(* each of them once, and active_count is its length (active_add(),        *)
(* active_remove()), whichever session leaves from whatever position.      *)
ListIsSound ==
    /\ Distinct(order) /\ Elements(order) = active
    /\ activeList = At(order, 1) /\ activeCount = Len(order)
    /\ \A i \in DOMAIN order :
          /\ anext[order[i]] = At(order, i + 1)
          /\ aprev[order[i]] = At(order, i - 1)

(* A structure is a session's, or in the free list once, or not            *)
(* allocated: none is used after it was released, or released twice        *)
(* (mng_new(), mng_destroy() and the failure path of                       *)
(* mng_passive_accept()).                                                  *)
OnePlace ==
    /\ Distinct(pool) /\ Elements(pool) \cap active = {}
    /\ Len(pool) <= PoolMax

(* Structures are allocated for MNG_MAX_CONNECTIONS sessions at most,      *)
(* however many come and go: malloc() is the last resort of mng_new().     *)
MemoryIsBounded == activeCount + Len(pool) <= MaxSessions

(* The open descriptors are those of the sessions, each registered for its *)
(* own (mng_kill(), mng_done(), the failure path of mng_passive_accept()). *)
DescriptorsOwned ==
    /\ open = {fd[c] : c \in active}
    /\ \A c \in active : fd[c] \in Fds /\ registered[fd[c]] = c
    /\ \A f \in Fds : registered[f] # Null => registered[f] \in active /\ fd[registered[f]] = f

(* A walk over the list stands on a session, though the walk itself takes  *)
(* sessions out of the list (mng_sweep_timeouts(), mng_begin_shutdown()).  *)
WalkIsSafe == cur # Null => cur \in active

(* Sessions come from and go to every place of the list, also under the    *)
(* walks over it, and the failure path of mng_passive_accept() gives back  *)
(* what it took: list, free list, count and descriptors fit together.      *)
StructuresAreSound ==
    /\ TypeOK /\ ListIsSound /\ OnePlace /\ MemoryIsBounded
    /\ DescriptorsOwned /\ WalkIsSafe

(* When the sweep has passed, no session is left that was idle too long.   *)
SweepIsComplete ==
    [][pc = "sweep" /\ pc' = "signals" /\ idleOn => \A c \in active : ~stale[c]]_vars

(* Once the walk of mng_begin_shutdown() is over, the sessions that are    *)
(* left have an answer to finish and end with it.                          *)
OnlyAnswersRemain ==
    closing /\ pc # "begin" => \A c \in active : spared[c] /\ left[c] > 0

(* The process does not leave its loop for the first signal while a        *)
(* session or a connection is served (server.c:214).                       *)
GracefulExit ==
    [][pc = "check" /\ pc' = "finally" => active = {} /\ conns = 0]_vars

(* At the exit everything is given back.                                   *)
ExitIsClean == pc = "exit" => active = {} /\ pool = <<>> /\ open = {} /\ conns = 0

(* From mng_begin_shutdown() to the end of main(): no session waits for a  *)
(* command, no answer is cut, and nothing is left behind.                  *)
ShutdownIsClean == OnlyAnswersRemain /\ ExitIsClean

(* With a timeout, the first signal is enough: peers that do not take      *)
(* their answer are swept.                                                 *)
ShutdownEnds == (closing /\ idleOn) ~> (pc = "exit")
=============================================================================
