------------------------------ MODULE Timeouts ------------------------------
(***************************************************************************)
(* Time in the main loop (server.c:168-219): pselect() with its limit, the *)
(* sweep of idle connections (socks5.c, monitor.c), the signals that are   *)
(* to interrupt the wait, and the whole seconds of time().                 *)
(*                                                                         *)
(* A connection is a SOCKS5 connection or a monitoring session; a SOCKS5   *)
(* connection may be resolving a name.  Time passes in pselect() only: the *)
(* body of the loop takes none.                                            *)
(***************************************************************************)
EXTENDS Integers

CONSTANTS
    Conns,
    Second,             \* ticks of the clock in a second
    SELECTOR_TIMEOUT, SWEEP_INTERVAL,   \* in seconds
    Timeouts,           \* values of idle_timeout, in seconds; 0: none
    MaxNow              \* bound: the ticks that pass

ASSUME TimeoutsAssumption ==
    /\ {Second, SELECTOR_TIMEOUT, SWEEP_INTERVAL} \subseteq Nat \ {0}
    /\ Timeouts \subseteq Nat /\ Timeouts # {} /\ MaxNow \in Nat

Never == -1

VARIABLES
    now,                \* the clock, in ticks
    pc, deadline,       \* where the loop is; the end of its wait
    last_sweep,
    live, resolving,
    done,               \* results of resolutions in resolution_jobs, SIGUSR1 pending
    last_activity,      \* in seconds
    idle_timeout,
    interrupted,        \* a signal has ended the wait
    signal, closing,    \* the first SIGINT or SIGTERM, in ticks, or Never
    touched, changed    \* history: the last activity, and the last change of
                        \* idle_timeout, in ticks

loopVars == <<pc, deadline, interrupted>>
connVars == <<live, resolving, done, last_activity, touched>>
vars == <<now, loopVars, last_sweep, connVars, idle_timeout, signal, closing, changed>>

(* time(NULL)                                                              *)
Time == now \div Second

Init ==
    /\ now = 0 /\ pc = "select" /\ deadline = SELECTOR_TIMEOUT * Second
    /\ last_sweep = 0
    /\ live = {} /\ resolving = {} /\ done = {}
    /\ last_activity = [c \in Conns |-> 0] /\ touched = [c \in Conns |-> 0] /\ changed = 0
    /\ idle_timeout \in Timeouts
    /\ interrupted = FALSE /\ signal = Never /\ closing = FALSE

-----------------------------------------------------------------------------
(* In pselect() *)

Tick ==
    /\ pc = "select" /\ ~interrupted /\ now < deadline /\ now < MaxNow
    /\ now' = now + 1
    /\ UNCHANGED <<loopVars, last_sweep, connVars, idle_timeout, signal, closing, changed>>

(* Events on the connections of C.  The results that have arrived are      *)
(* looked at before selector_select() returns.                             *)
Returns(C) ==
    /\ pc = "select" /\ pc' = "sweep"
    /\ interrupted' = FALSE
    /\ done' = {}
    /\ last_activity' = [c \in Conns |-> IF c \in C \cup done THEN Time ELSE last_activity[c]]
    /\ touched' = [c \in Conns |-> IF c \in C \cup done THEN now ELSE touched[c]]
    /\ UNCHANGED <<now, deadline, last_sweep, signal, closing>>

(* The limit, a signal, or an event that concerns no connection.           *)
Wakes ==
    /\ Returns({})
    /\ resolving' = resolving \ done
    /\ UNCHANGED <<live, idle_timeout, changed>>

Opens(c) ==
    /\ c \notin live /\ ~closing /\ ~interrupted
    /\ Returns({c})
    /\ live' = live \cup {c} /\ resolving' = resolving \ done
    /\ UNCHANGED <<idle_timeout, changed>>

(* A connection reads or writes; it may then start a resolution.           *)
Acts(c) ==
    /\ c \in live \ resolving /\ ~interrupted
    /\ Returns({c})
    /\ resolving' \in {resolving \ done, (resolving \ done) \cup {c}}
    /\ UNCHANGED <<live, idle_timeout, changed>>

Ends(c) ==
    /\ c \in live \ resolving /\ ~interrupted
    /\ Returns({})
    /\ live' = live \ {c} /\ resolving' = resolving \ done
    /\ UNCHANGED <<idle_timeout, changed>>

(* SET_TIMEOUT, which a monitoring session reads.                          *)
SetsTimeout(c, t) ==
    /\ c \in live \ resolving /\ ~interrupted /\ t \in Timeouts
    /\ Returns({c})
    /\ idle_timeout' = t /\ changed' = now
    /\ resolving' = resolving \ done
    /\ UNCHANGED live

-----------------------------------------------------------------------------
(* The body of the loop *)

(* Faulty: the time of the last sweep is set at every turn.                *)
SweptAlways == Time

Swept == IF Time - last_sweep >= SWEEP_INTERVAL THEN Time ELSE last_sweep

(* Faulty: a connection that resolves is closed with the others.           *)
IdleAll(c) == idle_timeout > 0 /\ Time - last_activity[c] >= idle_timeout

(* The condition of socks5_sweep_timeouts(), and, for a monitoring         *)
(* session, which never resolves, of mng_sweep_timeouts().                 *)
Idle(c) ==
    /\ idle_timeout > 0 /\ c \notin resolving
    /\ Time - last_activity[c] >= idle_timeout

Sweep ==
    /\ pc = "sweep" /\ pc' = "signals"
    /\ last_sweep' = Swept
    /\ live' = IF Time - last_sweep >= SWEEP_INTERVAL THEN {c \in live : ~Idle(c)} ELSE live
    /\ UNCHANGED <<now, deadline, interrupted, resolving, done, last_activity, touched,
                   idle_timeout, signal, closing, changed>>

(* Faulty: the signals are looked at in the branch of the sweep.           *)
HeardInSweep == signal # Never /\ last_sweep = Time

Heard == signal # Never

Signals ==
    /\ pc = "signals" /\ pc' = "enter"
    /\ closing' = (closing \/ Heard)
    /\ UNCHANGED <<now, deadline, interrupted, last_sweep, connVars, idle_timeout, signal, changed>>

(* Faulty: SIGUSR1 is not blocked, and was handled before pselect().       *)
PendingLost == FALSE

(* SIGUSR1 is blocked outside pselect() (selector.c:73-80), SIGINT and     *)
(* SIGTERM are not: what came before the wait began does not end it.       *)
Pending == done # {}

Enter ==
    /\ pc = "enter" /\ pc' = "select"
    /\ deadline' = now + SELECTOR_TIMEOUT * Second
    /\ interrupted' = Pending
    /\ UNCHANGED <<now, last_sweep, connVars, idle_timeout, signal, closing, changed>>

-----------------------------------------------------------------------------
(* At any moment *)

(* shutdown_handler()                                                      *)
Signal ==
    /\ signal = Never
    /\ signal' = now
    /\ interrupted' = (interrupted \/ pc = "select")
    /\ UNCHANGED <<now, pc, deadline, last_sweep, connVars, idle_timeout, closing, changed>>

(* A worker: selector_notify_block().                                      *)
Resolved(c) ==
    /\ c \in resolving \ done
    /\ done' = done \cup {c}
    /\ interrupted' = (interrupted \/ pc = "select")
    /\ UNCHANGED <<now, pc, deadline, last_sweep, live, resolving, last_activity, touched,
                   idle_timeout, signal, closing, changed>>

Next ==
    \/ Tick \/ Wakes \/ Sweep \/ Signals \/ Enter \/ Signal
    \/ \E c \in Conns :
          Opens(c) \/ Acts(c) \/ Ends(c) \/ Resolved(c) \/ \E t \in Timeouts : SetsTimeout(c, t)

Spec == Init /\ [][Next]_vars

-----------------------------------------------------------------------------
(* Properties *)

(* Types; what resolves is not closed, and its result is its own.          *)
TypeOK ==
    /\ now \in 0 .. MaxNow /\ deadline \in Nat
    /\ pc \in {"select", "sweep", "signals", "enter"}
    /\ last_sweep \in Nat
    /\ live \subseteq Conns /\ resolving \subseteq live /\ done \subseteq resolving
    /\ last_activity \in [Conns -> Nat] /\ touched \in [Conns -> Nat]
    /\ changed \in Nat
    /\ idle_timeout \in Timeouts
    /\ interrupted \in BOOLEAN /\ closing \in BOOLEAN
    /\ signal \in Nat \cup {Never}

(* How long a connection may be idle, counted from the last change of      *)
(* idle_timeout if that is later: the sweep is due SWEEP_INTERVAL after    *)
(* the last one, and the loop may then be in a wait that has just begun    *)
(* (server.c:186, SELECTOR_TIMEOUT).  The last sweep that spared it saw at *)
(* most idle_timeout - 1 whole seconds.                                    *)
IdleIsBounded ==
    \A c \in live \ resolving :
        LET bound == (idle_timeout - 1 + SWEEP_INTERVAL + SELECTOR_TIMEOUT) * Second
        IN idle_timeout > 0 => now - touched[c] < bound \/ now - changed < bound

(* The sweep closes only what was idle for idle_timeout, less the part of  *)
(* a second that time() drops, and no connection that resolves             *)
(* (socks5.c:221, monitor.c:634).                                          *)
NotTooEarly ==
    [][pc = "sweep" => \A c \in live \ live' :
            /\ c \notin resolving /\ idle_timeout > 0
            /\ now - touched[c] > (idle_timeout - 1) * Second]_vars

(* No time passes while a result that was queued waits: the signal that    *)
(* announces it cannot be lost between the loop and the wait               *)
(* (selector.c:73-80, pselect()).  A worker whose notification found no    *)
(* memory queued none: that path is in Socks5.                             *)
ResultsAtOnce == [][now' # now => done = {}]_vars

(* The first signal is answered after one wait at most.                    *)
ReactionIsBounded ==
    signal # Never /\ ~closing => now - signal <= SELECTOR_TIMEOUT * Second
=============================================================================
