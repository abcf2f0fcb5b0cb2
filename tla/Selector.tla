------------------------------ MODULE Selector ------------------------------
(***************************************************************************)
(* The selector (utils/selector.c): the table of descriptors and its       *)
(* growth, the sets for pselect(), and an iteration over the descriptors   *)
(* that were reported, while the handlers it calls register, unregister    *)
(* and reopen descriptors.                                                 *)
(*                                                                         *)
(* The handlers are those of the SOCKS5 connections, reduced to what they  *)
(* ask of the selector and of the kernel, which gives the lowest free      *)
(* number to a new descriptor.  Names and notifications are in Socks5.     *)
(***************************************************************************)
EXTENDS Naturals, FiniteSets

CONSTANTS
    ITEMS_MAX_SIZE,      \* FD_SETSIZE
    Initial,             \* selector_new(Initial)
    Numbers,             \* the descriptors the kernel may give
    Conns,               \* connections
    Passive, None,
    CopyInterests,       \* what the relay may ask for: <<client, origin>>
    MaxReported          \* bound: the events of one iteration

ASSUME SelectorAssumption ==
    /\ ITEMS_MAX_SIZE \in Nat \ {0} /\ Initial \in 0 .. ITEMS_MAX_SIZE
    /\ Numbers \subseteq Nat /\ 0 \in Numbers
    /\ Passive \notin Conns /\ None \notin Conns \cup Numbers \cup {Passive}
    /\ MaxReported \in Nat
    /\ CopyInterests \subseteq (SUBSET {"r", "w"}) \X (SUBSET {"r", "w"})

VARIABLES
    sel,                 \* the fdselector: size, item, max, and its sets r, w
    slave_r, slave_w,    \* what pselect() reported
    i, n, pc,            \* the iteration: place, last place, phase
    client, origin,      \* the descriptors of a connection
    state,               \* of a connection
    tcp,                 \* its connection to the origin: none, pending, made, failed
    owed,                \* history: reported, and neither handled nor void
    reopened             \* history: connections whose origin got a reported number

selVars  == <<sel, slave_r, slave_w, i, n, pc>>
connVars == <<client, origin, state, tcp>>
vars == <<selVars, connVars, owed, reopened>>

Unused == [owner |-> None, interest |-> {}]

(* ITEM_USED                                                               *)
Used(s) == {f \in Numbers : s.item[f].owner # None}

-----------------------------------------------------------------------------
(* The table *)

(* The smallest power of two above k.                                      *)
PowerAbove(k) == 2 ^ (CHOOSE b \in 0 .. k : 2 ^ b > k /\ \A a \in 0 .. b - 1 : 2 ^ a <= k)

NextCapacity(k) ==
    IF PowerAbove(k) > ITEMS_MAX_SIZE THEN ITEMS_MAX_SIZE + 1 ELSE PowerAbove(k) + 1

(* The server makes its selector for 1024 descriptors, FD_SETSIZE          *)
(* (server.c:145): the first table has every place an fd_set has.          *)
ASSUME WholeTableAssumption == PowerAbove(Initial) > ITEMS_MAX_SIZE

(* ensure_capacity(); calloc() and realloc() do not fail.                  *)
Ensured(s, k) ==
    IF k < s.size \/ k > ITEMS_MAX_SIZE THEN s
    ELSE [s EXCEPT !.size = NextCapacity(k),
                   !.item = [f \in Numbers |->
                       IF f \in s.size .. NextCapacity(k) - 1 THEN Unused ELSE s.item[f]]]

(* selector_new()                                                          *)
New == Ensured([size |-> 0, item |-> [f \in Numbers |-> Unused], max |-> 0,
                r |-> {}, w |-> {}], Initial)

(* items_max_fd()                                                          *)
Highest(s) == CHOOSE m \in Numbers :
    /\ m = 0 \/ m \in {f \in Used(s) : f <= s.max}
    /\ \A f \in Used(s) : f <= s.max => f <= m

(* Faulty: what is no longer of interest stays in the sets.                *)
RefreshedSticky(s, f) ==
    [s EXCEPT !.r = @ \cup (IF "r" \in s.item[f].interest THEN {f} ELSE {}),
              !.w = @ \cup (IF "w" \in s.item[f].interest THEN {f} ELSE {})]

(* items_update_fdset_for_fd()                                             *)
Refreshed(s, f) ==
    [s EXCEPT !.r = (@ \ {f}) \cup (IF "r" \in s.item[f].interest THEN {f} ELSE {}),
              !.w = (@ \ {f}) \cup (IF "w" \in s.item[f].interest THEN {f} ELSE {})]

(* INVALID_FD                                                              *)
Invalid(f) == f >= ITEMS_MAX_SIZE

(* selector_register() grows the table for a number above its size only.   *)
Grown(s, f) == IF f > s.size THEN Ensured(s, f) ELSE s

Registers(s, f) == ~Invalid(f) /\ f \notin Used(Grown(s, f))

Registered(s, f, owner, interest) ==
    LET g == [Grown(s, f) EXCEPT !.item[f] = [owner |-> owner, interest |-> interest]]
    IN Refreshed([g EXCEPT !.max = IF f > @ THEN f ELSE @], f)

(* selector_unregister_fd(): the sets, the item, the greatest number.      *)
Unregistered(s, f) ==
    IF Invalid(f) \/ f \notin Used(s) THEN s
    ELSE LET quiet == Refreshed([s EXCEPT !.item[f].interest = {}], f)
             without == [quiet EXCEPT !.item[f] = Unused]
         IN [without EXCEPT !.max = Highest(without)]

(* selector_set_interest()                                                 *)
Interested(s, f, interest) ==
    IF Invalid(f) \/ f \notin Used(s) THEN s
    ELSE Refreshed([s EXCEPT !.item[f].interest = interest], f)

-----------------------------------------------------------------------------
(* The handlers *)

Held == {0} \cup {client[c] : c \in Conns} \cup {origin[c] : c \in Conns}

(* The number of the next descriptor when those of held are taken.         *)
Lowest(held) == CHOOSE f \in Numbers \ held : \A g \in Numbers \ held : f <= g

Opens(held) == Numbers \ held # {}

Init ==
    /\ sel = Registered(New, 0, Passive, {"r"})
    /\ slave_r = {} /\ slave_w = {} /\ i = 0 /\ n = 0 /\ pc = "select"
    /\ client = [c \in Conns |-> None] /\ origin = [c \in Conns |-> None]
    /\ state = [c \in Conns |-> "none"] /\ tcp = [c \in Conns |-> "none"]
    /\ owed = {} /\ reopened = {}

(* What is void: the descriptor was given back, or the event is no longer  *)
(* of interest.                                                            *)
StillOwed(s, done) ==
    {e \in owed \ {done} : e[1] \in Used(s) /\ e[2] \in s.item[e[1]].interest}

Quiet == UNCHANGED <<slave_r, slave_w, i, n>>

(* socks5_passive_accept(): a structure, a descriptor and its registration *)
(* or, when one of them is missing, the new descriptor is closed.          *)
Accept ==
    /\ \/ \E c \in Conns :
             /\ state[c] = "none" /\ Opens(Held) /\ Registers(sel, Lowest(Held))
             /\ client' = [client EXCEPT ![c] = Lowest(Held)]
             /\ sel' = Registered(sel, Lowest(Held), c, {"r"})
             /\ state' = [state EXCEPT ![c] = "request"]
       \/ UNCHANGED <<sel, client, state>>
    /\ UNCHANGED <<origin, tcp, reopened>>

(* socks5_done(), socks5_kill(): both descriptors, the client's first.     *)
Leave(c) ==
    /\ sel' = IF origin[c] = None THEN Unregistered(sel, client[c])
              ELSE Unregistered(Unregistered(sel, client[c]), origin[c])
    /\ client' = [client EXCEPT ![c] = None] /\ origin' = [origin EXCEPT ![c] = None]
    /\ state' = [state EXCEPT ![c] = "none"] /\ tcp' = [tcp EXCEPT ![c] = "none"]
    /\ reopened' = reopened \ {c}

(* request_reply(), from the selector s the handler has left behind.       *)
Replied(s, c, o) ==
    Interested(IF o = None THEN s ELSE Interested(s, o, {}), client[c], {"w"})

(* request_connect(): from the selector s, with the numbers held.  It is   *)
(* in progress, made at once, or has failed, for the last address.         *)
Connect(c, s, held) ==
    LET o == Lowest(held)
        r == Registered(s, o, c, {"w"})
    IN \/ /\ Opens(held) /\ Registers(s, o)
          /\ origin' = [origin EXCEPT ![c] = o]
          /\ reopened' = IF o \in slave_w THEN reopened \cup {c} ELSE reopened \ {c}
          /\ \/ /\ tcp' = [tcp EXCEPT ![c] = "pending"]
                /\ state' = [state EXCEPT ![c] = "connecting"]
                /\ sel' = Interested(Interested(r, client[c], {}), o, {"w"})
             \/ /\ tcp' = [tcp EXCEPT ![c] = "made"]
                /\ state' = [state EXCEPT ![c] = "succeeded"]
                /\ sel' = Replied(r, c, o)
       \/ /\ origin' = [origin EXCEPT ![c] = None]
          /\ tcp' = [tcp EXCEPT ![c] = "none"]
          /\ state' = [state EXCEPT ![c] = "refused"]
          /\ sel' = Replied(s, c, None)
          /\ reopened' = reopened \ {c}

(* The bytes before the request (see Negotiation), and its last one.       *)
Request(c) ==
    \/ UNCHANGED <<sel, origin, state, tcp, reopened>>
    \/ Connect(c, sel, Held)

Judged(c) == Unregistered(sel, origin[c])

(* request_connecting_on_write_ready(): SO_ERROR of a connection that is   *)
(* still in progress is 0, as that of one that was made.                   *)
Connecting(c) ==
    \/ /\ tcp[c] # "failed"
       /\ state' = [state EXCEPT ![c] = "succeeded"]
       /\ sel' = Replied(sel, c, origin[c])
       /\ UNCHANGED <<origin, tcp, reopened>>
    \/ /\ tcp[c] = "failed"
       /\ Connect(c, Judged(c), Held \ {origin[c]})

(* request_write_on_write_ready(), relay_on_arrival()                      *)
Answer(c) ==
    \/ UNCHANGED <<sel, state>>
    \/ /\ state[c] = "succeeded"
       /\ state' = [state EXCEPT ![c] = "copy"]
       /\ sel' = Interested(Interested(sel, client[c], {"r"}), origin[c], {"r"})

(* relay_update_interests()                                                *)
Copy(c) ==
    \E x \in CopyInterests :
        sel' = Interested(Interested(sel, client[c], x[1]), origin[c], x[2])

(* The handler of descriptor f for the event op.                           *)
Handle(f, op) ==
    LET c == sel.item[f].owner
    IN /\ \/ c = Passive /\ Accept
          \/ c # Passive /\ Leave(c)
          \/ c # Passive /\ state[c] = "request" /\ Request(c) /\ UNCHANGED client
          \/ c # Passive /\ state[c] = "connecting" /\ Connecting(c) /\ UNCHANGED client
          \/ /\ c # Passive /\ state[c] \in {"succeeded", "refused"}
             /\ Answer(c) /\ UNCHANGED <<client, origin, tcp, reopened>>
          \/ /\ c # Passive /\ state[c] = "copy"
             /\ Copy(c) /\ UNCHANGED <<connVars, reopened>>
       /\ owed' = StillOwed(sel', <<f, op>>)

-----------------------------------------------------------------------------
(* selector_select() and the main loop *)

(* A descriptor of a connection in progress is not writable.               *)
Writable == sel.w \ {origin[c] : c \in {d \in Conns : tcp[d] = "pending"}}

(* pselect()                                                               *)
Select(r, w) ==
    /\ pc = "select" /\ r \subseteq sel.r /\ w \subseteq Writable
    /\ Cardinality(r) + Cardinality(w) <= MaxReported
    /\ slave_r' = r /\ slave_w' = w
    /\ i' = 0 /\ n' = sel.max /\ pc' = "read"
    /\ owed' = (r \X {"r"}) \cup (w \X {"w"})
    /\ UNCHANGED <<sel, connVars, reopened>>

(* Faulty: the last place is not looked at.                                *)
BeforeEnd == i < n

Inside == i <= n

(* Faulty: what was reported is not looked at.                             *)
DispatchesAll(op, reported) == Inside /\ i \in Used(sel) /\ op \in sel.item[i].interest

(* handle_iteration(): descriptor i, its reading and then its writing.     *)
Dispatches(op, reported) ==
    Inside /\ i \in Used(sel) /\ i \in reported /\ op \in sel.item[i].interest

Read ==
    /\ pc = "read" /\ Inside
    /\ \/ Dispatches("r", slave_r) /\ Handle(i, "r")
       \/ ~Dispatches("r", slave_r) /\ UNCHANGED <<sel, connVars, owed, reopened>>
    /\ pc' = "write" /\ Quiet

Write ==
    /\ pc = "write"
    /\ \/ Dispatches("w", slave_w) /\ Handle(i, "w")
       \/ ~Dispatches("w", slave_w) /\ UNCHANGED <<sel, connVars, owed, reopened>>
    /\ pc' = "read" /\ i' = i + 1
    /\ UNCHANGED <<slave_r, slave_w, n>>

(* The end of the iteration; the main loop.                                *)
Iterated ==
    /\ pc = "read" /\ ~Inside
    /\ pc' = "loop" /\ slave_r' = {} /\ slave_w' = {} /\ i' = 0 /\ n' = 0
    /\ UNCHANGED <<sel, connVars, owed, reopened>>

(* socks5_sweep_timeouts() closes some connections.                        *)
Sweep(c) ==
    /\ pc = "loop" /\ state[c] # "none"
    /\ Leave(c)
    /\ UNCHANGED <<slave_r, slave_w, i, n, pc, owed>>

Loop ==
    /\ pc = "loop"
    /\ pc' = "select"
    /\ UNCHANGED <<sel, slave_r, slave_w, i, n, connVars, owed, reopened>>

(* The connection to the origin is made, or fails.                         *)
Network(c) ==
    /\ tcp[c] = "pending"
    /\ \E x \in {"made", "failed"} : tcp' = [tcp EXCEPT ![c] = x]
    /\ UNCHANGED <<selVars, client, origin, state, owed, reopened>>

Next ==
    \/ \E r \in SUBSET sel.r, w \in SUBSET sel.w : Select(r, w)
    \/ Read \/ Write \/ Iterated \/ Loop
    \/ \E c \in Conns : Sweep(c) \/ Network(c)

Spec == Init /\ [][Next]_vars

-----------------------------------------------------------------------------
(* Properties *)

TypeOK ==
    /\ sel.size \in 0 .. ITEMS_MAX_SIZE + 1 /\ sel.max \in Numbers
    /\ sel.item \in [Numbers -> [owner : Conns \cup {Passive, None}, interest : SUBSET {"r", "w"}]]
    /\ sel.r \subseteq Numbers /\ sel.w \subseteq Numbers
    /\ slave_r \subseteq Numbers /\ slave_w \subseteq Numbers
    /\ pc \in {"select", "read", "write", "loop"}
    /\ client \in [Conns -> Numbers \cup {None}] /\ origin \in [Conns -> Numbers \cup {None}]
    /\ state \in [Conns -> {"none", "request", "connecting", "succeeded", "refused", "copy"}]
    /\ tcp \in [Conns -> {"none", "pending", "made", "failed"}]
    /\ owed \subseteq Numbers \X {"r", "w"} /\ reopened \subseteq Conns

(* What is given to pselect() is what the items say, and the greatest      *)
(* number is that of a registered descriptor, after every sequence of      *)
(* registrations, changes of interest and removals                         *)
(* (items_update_fdset_for_fd(), items_max_fd()).                          *)
SetsMatchItems ==
    /\ sel.r = {f \in Used(sel) : "r" \in sel.item[f].interest}
    /\ sel.w = {f \in Used(sel) : "w" \in sel.item[f].interest}
    /\ sel.max \in Used(sel) /\ \A f \in Used(sel) : f <= sel.max

(* A registered descriptor has a place in the table and in an fd_set       *)
(* (selector.c:136, fd_size is the number of places of fds).               *)
InBounds == \A f \in Used(sel) : f < sel.size /\ f < ITEMS_MAX_SIZE

(* The registered descriptors are those the connections hold, each with    *)
(* its own connection as data: a number is never closed while registered,  *)
(* or registered for another connection (request_connect_fail(),           *)
(* request_connecting_on_write_ready(), socks5_done(), socks5_kill()).     *)
ItemsMatchHolders ==
    /\ Used(sel) = Held \ {None}
    /\ \A c \in Conns : \A f \in {client[c], origin[c]} \ {None} : sel.item[f].owner = c

(* Whatever the handlers of an iteration register, unregister and reopen,  *)
(* up to the limit of an fd_set: table, sets and holders agree.            *)
TableIsSound == TypeOK /\ SetsMatchItems /\ InBounds /\ ItemsMatchHolders

(* No event is lost: whatever was reported has been handled when the       *)
(* iteration ends, unless its descriptor was given back or the event is no *)
(* longer of interest (handle_iteration()).                                *)
NothingOwed == pc \in {"loop", "select"} => owed = {}

(* A reply of success to a connection that is not made has one cause: the  *)
(* new descriptor got a number that pselect() had reported for another one *)
(* in the same iteration (selector.c:471, request.c:504).                  *)
OnlyReuseIsPremature ==
    \A c \in Conns : state[c] \in {"succeeded", "copy"} /\ tcp[c] # "made" => c \in reopened

(* In COPY the connection to the origin is established: "registrar acceso  *)
(* al entrar en COPY (conexión establecida con éxito)" (relay.c:58).       *)
CopyIsConnected == \A c \in Conns : state[c] = "copy" => tcp[c] = "made"
=============================================================================
