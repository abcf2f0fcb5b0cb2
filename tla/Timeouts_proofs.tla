-------------------------- MODULE Timeouts_proofs --------------------------
(***************************************************************************)
(* Proofs about Timeouts, for every length of a second and every interval. *)
(* The inductive invariant says when the last sweep was, what it spared,   *)
(* and what can end the wait that has begun.                               *)
(***************************************************************************)
EXTENDS Timeouts, TLAPS

Wait == SELECTOR_TIMEOUT * Second

-----------------------------------------------------------------------------
(* Arithmetic *)

(* Lengths in seconds are multiples of Second.                             *)
LEMMA Sum ==
    ASSUME NEW a \in Int, NEW b \in Int
    PROVE  (a + b) * Second = a * Second + b * Second
BY TimeoutsAssumption

LEMMA Order ==
    ASSUME NEW a \in Int, NEW b \in Int
    PROVE  /\ a <= b => a * Second <= b * Second
           /\ a < b => a * Second + Second <= b * Second
<1>1. \A n \in Nat : n * Second >= 0 BY TimeoutsAssumption
<1>2. CASE a <= b
  <2>1. b - a \in Nat /\ b = a + (b - a) BY <1>2
  <2>2. b * Second = a * Second + (b - a) * Second BY <2>1, Sum
  <2>3. (b - a) * Second >= 0 BY <1>1, <2>1
  <2>4. a < b => (b - a) * Second >= Second
    <3>1. SUFFICES ASSUME a < b PROVE (b - a) * Second >= Second OBVIOUS
    <3>2. b - a - 1 \in Nat /\ b - a = (b - a - 1) + 1 BY <3>1
    <3>3. (b - a) * Second = (b - a - 1) * Second + 1 * Second BY <3>2, Sum
    <3>4. (b - a - 1) * Second >= 0 BY <1>1, <3>2
    <3>5. (b - a - 1) * Second \in Int /\ 1 * Second = Second BY <3>2, TimeoutsAssumption
    <3> QED BY <3>3, <3>4, <3>5, TimeoutsAssumption
  <2>5. a * Second \in Int /\ (b - a) * Second \in Int BY TimeoutsAssumption
  <2> QED BY <2>2, <2>3, <2>4, <2>5, TimeoutsAssumption
<1> QED BY <1>2

(* time() drops the part of a second.                                      *)
LEMMA WholeSeconds ==
    ASSUME NEW n \in Nat
    PROVE  /\ n \div Second \in Nat
           /\ (n \div Second) * Second <= n
           /\ n < (n \div Second) * Second + Second
BY TimeoutsAssumption

LEMMA Lengths ==
    /\ Wait \in Nat /\ SWEEP_INTERVAL * Second \in Nat
    /\ SWEEP_INTERVAL * Second > 0
<1>1. SWEEP_INTERVAL >= 1 /\ SWEEP_INTERVAL \in Int BY TimeoutsAssumption
<1>2. 1 * Second <= SWEEP_INTERVAL * Second BY <1>1, Order
<1> QED BY <1>2, TimeoutsAssumption DEF Wait

-----------------------------------------------------------------------------
(* The inductive invariant *)

(* last_activity is the history touched in whole seconds.                  *)
Ages == \A c \in Conns : last_activity[c] = touched[c] \div Second

(* A wait begins within SWEEP_INTERVAL of the last sweep.                  *)
SweepIsDue ==
    /\ now <= deadline
    /\ last_sweep * Second <= now
    /\ deadline < (last_sweep + SWEEP_INTERVAL) * Second + Wait
    /\ pc \in {"signals", "enter"} => now < (last_sweep + SWEEP_INTERVAL) * Second

(* The last sweep spared a connection because of what it had done, or the  *)
(* idle_timeout was another.                                               *)
Spared ==
    \A c \in live \ resolving :
        idle_timeout > 0 =>
            \/ last_sweep < last_activity[c] + idle_timeout
            \/ last_sweep * Second <= changed

(* A signal that is not yet heard has ended the wait, or came just before  *)
(* the wait began.                                                         *)
Unheard ==
    signal # Never /\ ~closing =>
        /\ signal \in Nat
        /\ now <= signal + Wait
        /\ pc = "enter" => now = signal
        /\ pc = "select" /\ ~interrupted => deadline <= signal + Wait

(* A result that is there when the loop waits has ended the wait.          *)
Noticed == pc = "select" /\ done # {} => interrupted

Inv == TypeOK /\ Ages /\ SweepIsDue /\ Spared /\ Unheard /\ Noticed

(* What the actions of pselect() have in common.                           *)
Turn(C) ==
    /\ Returns(C)
    /\ live' \subseteq Conns /\ resolving' \subseteq live'
    /\ live' \ resolving' \subseteq (live \ resolving) \cup C \cup done
    /\ idle_timeout' \in Timeouts /\ changed' \in Nat
    /\ UNCHANGED <<idle_timeout, changed>> \/ changed' = now

LEMMA Initially == ASSUME Init PROVE Inv
<1>1. SELECTOR_TIMEOUT * Second = Wait /\ Wait \in Nat BY Lengths DEF Wait
<1>2. \A n \in {0} : n \div Second = 0
  <2>1. 0 \div Second \in Nat /\ (0 \div Second) * Second <= 0 BY WholeSeconds
  <2>2. 0 < 0 \div Second => 0 * Second + Second <= (0 \div Second) * Second BY <2>1, Order
  <2> QED BY <2>1, <2>2, TimeoutsAssumption
<1>3. 0 * Second = 0 /\ (0 + SWEEP_INTERVAL) * Second = SWEEP_INTERVAL * Second
    BY TimeoutsAssumption
<1>4. TypeOK
  <2>1. now \in 0 .. MaxNow /\ idle_timeout \in Timeouts
      BY TimeoutsAssumption DEF Init
  <2>2. deadline \in Nat BY <1>1 DEF Init
  <2> QED BY <2>1, <2>2 DEF Init, TypeOK
<1>5. Ages BY <1>2 DEF Init, Ages
<1>6. SweepIsDue BY <1>1, <1>3, Lengths DEF Init, SweepIsDue
<1>7. Spared /\ Unheard /\ Noticed BY DEF Init, Spared, Unheard, Noticed
<1> QED BY <1>4, <1>5, <1>6, <1>7 DEF Inv

LEMMA Turns ==
    ASSUME TypeOK,
           \/ Wakes
           \/ \E c \in Conns : Opens(c) \/ Acts(c) \/ Ends(c)
                                   \/ \E t \in Timeouts : SetsTimeout(c, t)
    PROVE  \E C \in SUBSET Conns : Turn(C)
<1>1. CASE Wakes
  <2>1. Turn({}) BY <1>1 DEF Wakes, Turn, Returns, TypeOK
  <2> QED BY <2>1
<1>2. ASSUME NEW c \in Conns, Opens(c) PROVE Turn({c})
    BY <1>2 DEF Opens, Turn, Returns, TypeOK
<1>3. ASSUME NEW c \in Conns, Acts(c) PROVE Turn({c})
    BY <1>3 DEF Acts, Turn, Returns, TypeOK
<1>4. ASSUME NEW c \in Conns, Ends(c) PROVE Turn({})
    BY <1>4 DEF Ends, Turn, Returns, TypeOK
<1>5. ASSUME NEW c \in Conns, NEW t \in Timeouts, SetsTimeout(c, t) PROVE Turn({c})
    BY <1>5 DEF SetsTimeout, Turn, Returns, TypeOK
<1>6. \A c \in Conns : {c} \in SUBSET Conns /\ {} \in SUBSET Conns OBVIOUS
<1> QED BY <1>1, <1>2, <1>3, <1>4, <1>5, <1>6

LEMMA TurnStep ==
    ASSUME Inv, NEW C \in SUBSET Conns, Turn(C)
    PROVE  Inv'
<1> USE DEF Inv
<1>1. Time \in Nat /\ Time = now \div Second /\ Time * Second <= now /\ now < Time * Second + Second
    BY WholeSeconds DEF TypeOK, Time
<1>2. TypeOK'
  <2>1. (last_activity \in [Conns -> Nat])' BY <1>1 DEF Turn, Returns, TypeOK
  <2>2. (touched \in [Conns -> Nat])' BY DEF Turn, Returns, TypeOK
  <2> QED BY <2>1, <2>2 DEF Turn, Returns, TypeOK
<1>3. Ages'
  <2> SUFFICES ASSUME NEW c \in Conns PROVE (last_activity[c] = touched[c] \div Second)'
      BY DEF Ages
  <2>1. CASE c \in C \cup done
      BY <2>1, <1>1 DEF Turn, Returns, TypeOK
  <2>2. CASE c \notin C \cup done
      BY <2>2 DEF Turn, Returns, TypeOK, Ages
  <2> QED BY <2>1, <2>2
<1>4. SweepIsDue'
    BY DEF Turn, Returns, SweepIsDue
<1>5. Spared'
  <2> SUFFICES ASSUME NEW c \in live' \ resolving', idle_timeout' > 0
               PROVE  \/ last_sweep < last_activity'[c] + idle_timeout'
                      \/ last_sweep * Second <= changed'
      BY DEF Spared, Turn, Returns
  <2>1. CASE changed' = now
      BY <2>1 DEF SweepIsDue
  <2>2. CASE UNCHANGED <<idle_timeout, changed>> /\ c \in C \cup done
    <3>1. last_sweep <= Time
      <4>1. Time < last_sweep => Time * Second + Second <= last_sweep * Second
          BY <1>1, Order DEF TypeOK
      <4>2. last_sweep * Second \in Int /\ Time * Second \in Int
          BY <1>1, TimeoutsAssumption DEF TypeOK
      <4> QED BY <4>1, <4>2, <1>1, TimeoutsAssumption DEF SweepIsDue, TypeOK
    <3>2. last_activity'[c] = Time
        BY <2>2, <1>2 DEF Turn, Returns, TypeOK
    <3>3. idle_timeout \in Nat /\ last_sweep \in Nat BY TimeoutsAssumption DEF TypeOK
    <3> QED BY <3>1, <3>2, <3>3, <2>2, <1>1
  <2>3. CASE UNCHANGED <<idle_timeout, changed>> /\ c \notin C \cup done
    <3>1. c \in live \ resolving /\ last_activity'[c] = last_activity[c]
        BY <2>3 DEF Turn, Returns, TypeOK
    <3> QED BY <3>1, <2>3 DEF Spared
  <2> QED BY <2>1, <2>2, <2>3 DEF Turn
<1>6. Unheard'
    BY DEF Turn, Returns, Unheard
<1>7. Noticed'
    BY DEF Turn, Returns, Noticed
<1> QED BY <1>2, <1>3, <1>4, <1>5, <1>6, <1>7

LEMMA SweepStep ==
    ASSUME Inv, Sweep
    PROVE  Inv'
<1> USE DEF Inv
<1>1. /\ Time \in Nat /\ Time * Second \in Int
      /\ Time * Second <= now /\ now < Time * Second + Second
  <2>1. Time \in Nat /\ Time * Second <= now /\ now < Time * Second + Second
      BY WholeSeconds DEF TypeOK, Time
  <2>2. \A t \in Nat : t * Second \in Int BY TimeoutsAssumption
  <2> QED BY <2>1, <2>2
<1>2. TypeOK' BY <1>1 DEF Sweep, Swept, Idle, TypeOK
<1>3. Ages' BY DEF Sweep, Ages
<1>4. SweepIsDue'
  <2>1. CASE Time - last_sweep >= SWEEP_INTERVAL
    <3>1. last_sweep' = Time BY <2>1 DEF Sweep, Swept
    <3>2. (Time + SWEEP_INTERVAL) * Second = Time * Second + SWEEP_INTERVAL * Second
        BY <1>1, Sum, TimeoutsAssumption
    <3>3. (last_sweep + SWEEP_INTERVAL) * Second <= (Time + SWEEP_INTERVAL) * Second
      <4>1. last_sweep + SWEEP_INTERVAL <= Time + SWEEP_INTERVAL
          BY <2>1, <1>1, TimeoutsAssumption DEF TypeOK
      <4> QED BY <4>1, <1>1, Order, TimeoutsAssumption DEF TypeOK
    <3>4. Second <= SWEEP_INTERVAL * Second
      <4>1. 1 \in Int /\ 1 <= SWEEP_INTERVAL /\ SWEEP_INTERVAL \in Int BY TimeoutsAssumption
      <4>2. 1 * Second <= SWEEP_INTERVAL * Second BY <4>1, Order
      <4> QED BY <4>2, TimeoutsAssumption
    <3>5. (last_sweep + SWEEP_INTERVAL) * Second \in Int
        BY TimeoutsAssumption DEF TypeOK
    <3> QED BY <3>1, <3>2, <3>3, <3>4, <3>5, <1>1, Lengths, TimeoutsAssumption
            DEF Sweep, SweepIsDue, TypeOK
  <2>2. CASE Time - last_sweep < SWEEP_INTERVAL
    <3>1. last_sweep' = last_sweep BY <2>2, <1>1, TimeoutsAssumption DEF Sweep, Swept, TypeOK
    <3>2. Time * Second + Second <= (last_sweep + SWEEP_INTERVAL) * Second
      <4>1. Time < last_sweep + SWEEP_INTERVAL BY <2>2, <1>1, TimeoutsAssumption DEF TypeOK
      <4> QED BY <4>1, <1>1, Order, TimeoutsAssumption DEF TypeOK
    <3>3. (last_sweep + SWEEP_INTERVAL) * Second \in Int
        BY TimeoutsAssumption DEF TypeOK
    <3> QED BY <3>1, <3>2, <3>3, <1>1, TimeoutsAssumption DEF Sweep, SweepIsDue, TypeOK
  <2> QED BY <2>1, <2>2, <1>1, TimeoutsAssumption DEF TypeOK
<1>5. Spared'
  <2> SUFFICES ASSUME NEW c \in live' \ resolving, idle_timeout > 0
               PROVE  \/ last_sweep' < last_activity[c] + idle_timeout
                      \/ last_sweep' * Second <= changed
      BY DEF Spared, Sweep
  <2>1. c \in live \ resolving BY DEF Sweep
  <2>2. CASE Time - last_sweep >= SWEEP_INTERVAL
    <3>1. ~Idle(c) /\ last_sweep' = Time BY <2>2 DEF Sweep, Swept
    <3>2. c \in Conns /\ last_activity[c] \in Nat /\ idle_timeout \in Nat
        BY <2>1, TimeoutsAssumption DEF TypeOK
    <3>3. Time - last_activity[c] < idle_timeout
        BY <2>1, <3>1, <3>2, <1>1 DEF Idle
    <3> QED BY <3>1, <3>2, <3>3, <1>1
  <2>3. CASE Time - last_sweep < SWEEP_INTERVAL
    <3>1. last_sweep' = last_sweep BY <2>3, <1>1, TimeoutsAssumption DEF Sweep, Swept, TypeOK
    <3> QED BY <2>1, <3>1 DEF Spared
  <2> QED BY <2>2, <2>3, <1>1, TimeoutsAssumption DEF TypeOK
<1>6. Unheard' BY DEF Sweep, Unheard
<1>7. Noticed' BY DEF Sweep, Noticed
<1> QED BY <1>2, <1>3, <1>4, <1>5, <1>6, <1>7

(* The steps that are neither a return of pselect() nor a sweep.           *)
LEMMA OtherSteps ==
    ASSUME Inv, Tick \/ Signals \/ Enter \/ Signal \/ \E c \in Conns : Resolved(c)
    PROVE  Inv'
<1> USE DEF Inv
<1>1. Ages' BY DEF Tick, Signals, Enter, Signal, Resolved, Ages, connVars
<1>2. Spared' BY DEF Tick, Signals, Enter, Signal, Resolved, Spared, connVars
<1>3. now \in Nat /\ MaxNow \in Nat /\ Wait \in Nat BY Lengths, TimeoutsAssumption DEF TypeOK
<1>9. SELECTOR_TIMEOUT * Second = Wait BY DEF Wait
<1>4. CASE Tick
  <2>1. TypeOK' BY <1>3, <1>4 DEF Tick, TypeOK, loopVars, connVars
  <2>2. SweepIsDue' BY <1>4, <1>3, TimeoutsAssumption DEF Tick, SweepIsDue, TypeOK, loopVars
  <2>3. Unheard' BY <1>4, <1>3 DEF Tick, Unheard, TypeOK, loopVars
  <2>4. Noticed' BY <1>4 DEF Tick, Noticed, loopVars, connVars
  <2> QED BY <1>1, <1>2, <2>1, <2>2, <2>3, <2>4
<1>5. CASE Signals
  <2>1. TypeOK' BY <1>5 DEF Signals, Heard, TypeOK, connVars
  <2>2. SweepIsDue' BY <1>5 DEF Signals, SweepIsDue
  <2>3. Unheard' BY <1>5 DEF Signals, Heard, Unheard
  <2>4. Noticed' BY <1>5 DEF Signals, Noticed
  <2> QED BY <1>1, <1>2, <2>1, <2>2, <2>3, <2>4
<1>6. CASE Enter
  <2>1. TypeOK' BY <1>6, <1>3, <1>9 DEF Enter, Pending, TypeOK, connVars
  <2>2. SweepIsDue'
    <3>1. (last_sweep + SWEEP_INTERVAL) * Second \in Int BY TimeoutsAssumption DEF TypeOK
    <3> QED BY <1>6, <1>3, <1>9, <3>1 DEF Enter, SweepIsDue
  <2>3. Unheard' BY <1>6, <1>3, <1>9 DEF Enter, Unheard
  <2>4. Noticed' BY <1>6 DEF Enter, Pending, Noticed, connVars
  <2> QED BY <1>1, <1>2, <2>1, <2>2, <2>3, <2>4
<1>7. CASE Signal
  <2>1. TypeOK' BY <1>7, <1>3 DEF Signal, TypeOK, connVars
  <2>2. SweepIsDue' BY <1>7 DEF Signal, SweepIsDue
  <2>3. Unheard'
    <3>1. signal' = now /\ now' = now /\ pc' = pc BY <1>7 DEF Signal
    <3>2. pc = "select" => interrupted' BY <1>7 DEF Signal
    <3>3. now <= now + Wait BY <1>3
    <3> QED BY <1>3, <3>1, <3>2, <3>3 DEF Unheard
  <2>4. Noticed' BY <1>7 DEF Signal, Noticed, connVars
  <2> QED BY <1>1, <1>2, <2>1, <2>2, <2>3, <2>4
<1>8. CASE \E c \in Conns : Resolved(c)
  <2>1. TypeOK' BY <1>8 DEF Resolved, TypeOK
  <2>2. SweepIsDue' BY <1>8 DEF Resolved, SweepIsDue
  <2>3. Unheard' BY <1>8 DEF Resolved, Unheard, TypeOK
  <2>4. Noticed' BY <1>8 DEF Resolved, Noticed
  <2> QED BY <1>1, <1>2, <2>1, <2>2, <2>3, <2>4
<1> QED BY <1>4, <1>5, <1>6, <1>7, <1>8

LEMMA Inductive == ASSUME Inv, [Next]_vars PROVE Inv'
<1>1. CASE UNCHANGED vars
    BY <1>1 DEF Inv, TypeOK, Ages, SweepIsDue, Spared, Unheard, Noticed, vars, loopVars, connVars
<1>2. CASE Next
  <2>1. CASE \/ Wakes
             \/ \E c \in Conns : Opens(c) \/ Acts(c) \/ Ends(c)
                                     \/ \E t \in Timeouts : SetsTimeout(c, t)
      BY <2>1, Turns, TurnStep DEF Inv
  <2>2. CASE Sweep BY <2>2, SweepStep
  <2>3. CASE Tick \/ Signals \/ Enter \/ Signal \/ \E c \in Conns : Resolved(c)
      BY <2>3, OtherSteps
  <2> QED BY <1>2, <2>1, <2>2, <2>3 DEF Next
<1> QED BY <1>1, <1>2

THEOREM Invariance == Spec => []Inv
<1>1. Init => Inv BY Initially
<1>2. Inv /\ [Next]_vars => Inv' BY Inductive
<1> QED BY <1>1, <1>2, PTL DEF Spec

-----------------------------------------------------------------------------
(* The theorems *)

(* Types; no connection that resolves is closed by the sweep or by its     *)
(* events (socks5.c:221).                                                  *)
THEOREM TypesAreCorrect == Spec => []TypeOK
<1>1. Inv => TypeOK BY DEF Inv
<1> QED BY <1>1, Invariance, PTL

(* A connection may be idle for idle_timeout - 1, one SWEEP_INTERVAL and   *)
(* one SELECTOR_TIMEOUT, and no longer (server.c:186).                     *)
THEOREM IdlenessIsBounded == Spec => []IdleIsBounded
<1>1. ASSUME Inv, NEW c \in live \ resolving, idle_timeout > 0
      PROVE  LET bound == (idle_timeout - 1 + SWEEP_INTERVAL + SELECTOR_TIMEOUT) * Second
             IN  now - touched[c] < bound \/ now - changed < bound
  <2> DEFINE bound == (idle_timeout - 1 + SWEEP_INTERVAL + SELECTOR_TIMEOUT) * Second
             early == (idle_timeout - 1) * Second
             interval == SWEEP_INTERVAL * Second
  <2>1. /\ idle_timeout \in Nat /\ idle_timeout - 1 \in Nat /\ c \in Conns
        /\ touched[c] \in Nat /\ last_activity[c] \in Nat /\ now \in Nat /\ changed \in Nat
        /\ last_sweep \in Nat /\ deadline \in Nat
      BY <1>1, TimeoutsAssumption DEF Inv, TypeOK
  <2>2. bound = early + interval + Wait
    <3>1. bound = (idle_timeout - 1 + SWEEP_INTERVAL) * Second + Wait
        BY <2>1, Sum, TimeoutsAssumption DEF Wait
    <3>2. (idle_timeout - 1 + SWEEP_INTERVAL) * Second = early + interval
        BY <2>1, Sum, TimeoutsAssumption
    <3> QED BY <3>1, <3>2
  <2>3. now < last_sweep * Second + interval + Wait
    <3>1. (last_sweep + SWEEP_INTERVAL) * Second = last_sweep * Second + interval
        BY <2>1, Sum, TimeoutsAssumption
    <3>2. last_sweep * Second \in Int /\ interval \in Int /\ Wait \in Int
        BY <2>1, Lengths, TimeoutsAssumption
    <3> QED BY <1>1, <2>1, <3>1, <3>2 DEF Inv, SweepIsDue
  <2>4. early \in Int /\ early >= 0 /\ interval \in Int /\ Wait \in Int /\ last_sweep * Second \in Int
    <3>1. 0 * Second <= early BY <2>1, Order
    <3> QED BY <2>1, <3>1, Lengths, TimeoutsAssumption
  <2>5. CASE last_sweep * Second <= changed
    <3>1. now - changed < bound BY <2>1, <2>2, <2>3, <2>4, <2>5
    <3> QED BY <3>1
  <2>6. CASE last_sweep < last_activity[c] + idle_timeout
    <3>1. last_sweep * Second <= (last_activity[c] + (idle_timeout - 1)) * Second
      <4>1. last_sweep <= last_activity[c] + (idle_timeout - 1) BY <2>1, <2>6
      <4> QED BY <4>1, <2>1, Order
    <3>2. (last_activity[c] + (idle_timeout - 1)) * Second = last_activity[c] * Second + early
      <4>1. \A a, b \in Int : (a + b) * Second = a * Second + b * Second BY Sum
      <4>2. last_activity[c] \in Int /\ idle_timeout - 1 \in Int BY <2>1
      <4> QED BY <4>1, <4>2, Zenon
    <3>3. last_activity[c] * Second <= touched[c]
        BY <1>1, <2>1, WholeSeconds DEF Inv, Ages
    <3>4. last_activity[c] * Second \in Int BY <2>1, TimeoutsAssumption
    <3>5. now - touched[c] < bound BY <2>1, <2>2, <2>3, <2>4, <3>1, <3>2, <3>3, <3>4
    <3> QED BY <3>5
  <2> QED BY <1>1, <2>5, <2>6 DEF Inv, Spared
<1>2. Inv => IdleIsBounded BY <1>1 DEF IdleIsBounded
<1> QED BY <1>2, Invariance, PTL

(* The first signal is heard after one wait at most, wherever the loop is  *)
(* when it comes (server.c:192).                                           *)
THEOREM SignalsAreHeard == Spec => []ReactionIsBounded
<1>1. Inv => ReactionIsBounded
  <2> SUFFICES ASSUME Inv, signal # Never, ~closing
               PROVE  now - signal <= SELECTOR_TIMEOUT * Second
      BY DEF ReactionIsBounded
  <2>1. now \in Nat /\ signal \in Nat /\ now <= signal + Wait /\ Wait \in Nat
      BY Lengths DEF Inv, Unheard, TypeOK
  <2> QED BY <2>1 DEF Wait
<1> QED BY <1>1, Invariance, PTL

(* No time passes while the result of a resolution waits in the queue of   *)
(* selector_notify_block() (selector.c:73-80).                             *)
THEOREM ResultsDoNotWait == Spec => ResultsAtOnce
<1>1. ASSUME Inv, [Next]_vars, now' # now PROVE done = {}
  <2>1. Tick
      BY <1>1 DEF Next, vars, Wakes, Opens, Acts, Ends, SetsTimeout, Returns, Sweep, Signals,
                  Enter, Signal, Resolved
  <2> QED BY <1>1, <2>1 DEF Tick, Inv, Noticed
<1>2. Inv /\ [Next]_vars => [now' # now => done = {}]_vars BY <1>1
<1> QED BY <1>2, Invariance, PTL DEF Spec, ResultsAtOnce

(* The sweep closes no connection that resolves, and none that was active  *)
(* for less than idle_timeout and the part of a second that time() drops   *)
(* (socks5.c:221, monitor.c:634).                                          *)
THEOREM SweepSparesTheActive == Spec => NotTooEarly
<1>1. ASSUME Inv, [Next]_vars, ~UNCHANGED vars, pc = "sweep", NEW c \in live \ live'
      PROVE  c \notin resolving /\ idle_timeout > 0 /\ now - touched[c] > (idle_timeout - 1) * Second
  <2>1. Sweep
      BY <1>1 DEF Next, Tick, Wakes, Opens, Acts, Ends, SetsTimeout, Returns, Signals,
                  Enter, Signal, Resolved, connVars
  <2>2. Idle(c) BY <2>1, <1>1 DEF Sweep
  <2>3. /\ idle_timeout \in Nat /\ c \in Conns /\ touched[c] \in Nat /\ now \in Nat
        /\ last_activity[c] \in Nat /\ Time \in Nat
    <3>1. idle_timeout \in Nat /\ c \in Conns /\ now \in Nat
        BY <1>1, TimeoutsAssumption DEF Inv, TypeOK
    <3>2. touched[c] \in Nat /\ last_activity[c] \in Nat BY <1>1, <3>1 DEF Inv, TypeOK
    <3>3. Time \in Nat BY <3>1, WholeSeconds DEF Time
    <3> QED BY <3>1, <3>2, <3>3
  <2>4. (last_activity[c] + idle_timeout) * Second <= Time * Second
      BY <2>2, <2>3, Order DEF Idle
  <2>5. (last_activity[c] + idle_timeout) * Second
            = last_activity[c] * Second + (idle_timeout - 1) * Second + Second
    <3>1. (last_activity[c] + idle_timeout) * Second
              = last_activity[c] * Second + idle_timeout * Second
        BY <2>3, Sum
    <3>2. ((idle_timeout - 1) + 1) * Second = (idle_timeout - 1) * Second + 1 * Second
        BY <2>3, Sum
    <3>3. (idle_timeout - 1) + 1 = idle_timeout /\ 1 * Second = Second
        BY <2>3, TimeoutsAssumption
    <3>4. idle_timeout * Second = (idle_timeout - 1) * Second + Second BY <3>2, <3>3
    <3>5. /\ last_activity[c] * Second \in Int /\ (idle_timeout - 1) * Second \in Int
          /\ Second \in Int
        BY <2>3, TimeoutsAssumption
    <3> QED BY <3>1, <3>4, <3>5
  <2>6. touched[c] < last_activity[c] * Second + Second
      BY <1>1, <2>3, WholeSeconds DEF Inv, Ages
  <2>7. Time * Second <= now BY <1>1, <2>3, WholeSeconds DEF Time
  <2>8. /\ last_activity[c] * Second \in Int /\ (idle_timeout - 1) * Second \in Int
        /\ Time * Second \in Int /\ Second \in Int
      BY <2>3, TimeoutsAssumption
  <2> HIDE DEF Time
  <2>9. now - touched[c] > (idle_timeout - 1) * Second
      BY <2>3, <2>4, <2>5, <2>6, <2>7, <2>8
  <2> QED BY <2>2, <2>9 DEF Idle
<1>2. Inv /\ [Next]_vars =>
          [pc = "sweep" => \A c \in live \ live' :
              /\ c \notin resolving /\ idle_timeout > 0
              /\ now - touched[c] > (idle_timeout - 1) * Second]_vars
    BY <1>1
<1> QED BY <1>2, Invariance, PTL DEF Spec, NotTooEarly
=============================================================================
