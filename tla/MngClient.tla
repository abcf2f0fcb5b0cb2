----------------------------- MODULE MngClient -----------------------------
(***************************************************************************)
(* The peers of the sessions of module Monitor.  Some are the monitoring   *)
(* client (src/client/client.c): connect, handshake, one command, its      *)
(* answer, CLOSE.  Others speak the protocol on their own: they say what   *)
(* they have to say at once, wait for nothing and may leave at any time.   *)
(*                                                                         *)
(* write_all() puts a whole message into the stream, which the server      *)
(* takes in parts.  read_all() blocks for the bytes it needs or for the    *)
(* end of the stream; what happens between two calls of it is invisible to *)
(* the server, so that a client reads an answer in one step, when it is    *)
(* all there.  A client whose server is gone may be killed by SIGPIPE      *)
(* while it says CLOSE: it has reported by then.                           *)
(***************************************************************************)
EXTENDS Monitor

CONSTANT
    Casts         \* who the peers may be: functions from Peers to roles

(* What a peer may be.  An argument of a command line has no NUL in it and *)
(* any length; cmd_set_timeout() takes a uint32_t.                         *)
Roles ==
    LET Accounts == [name : Seq(1 .. 255), pass : Seq(1 .. 255)]
    IN  [do : {"add-user", "del-user", "users", "stats", "set-timeout", "log", "unknown",
               "speak", "browse", "absent"},
         account : Accounts, seconds : Nat, cred : Accounts, words : Seq(Byte)]

ASSUME CastsAssumption ==
    /\ Casts \subseteq [Peers -> Roles]
    /\ \A cast \in Casts : \A c \in Peers : FitsIn(cast[c].seconds, 4)

(* A client has a command line: what to do and the credential of -A.       *)
(* Another peer has words, or uses the proxy instead, or never comes.      *)
IsClient(role) == role.do \notin {"speak", "browse", "absent"}

VARIABLES
    task,         \* the role of each peer
    cpc,          \* where main() is: start, auth, answer, bye, exit
    seen,         \* how many bytes of got it has read
    report        \* what it printed

clientVars == <<task, cpc, seen, report>>
allVars == <<vars, clientVars>>

NoReport == [told |-> FALSE, status |-> OK, data |-> <<>>]
GaveUp   == [told |-> FALSE, status |-> BadArgs, data |-> <<>>]
Told(status, data) == [told |-> TRUE, status |-> status, data |-> data]

-----------------------------------------------------------------------------
(* Messages *)

(* A length is a uint8_t, and as many bytes follow.                        *)
String(s) == <<Len(s) % 256>> \o SubSeq(s, 1, Len(s) % 256)

(* do_handshake()                                                          *)
Credential(a) == <<Version>> \o String(a.name) \o String(a.pass)

(* cmd_stats(), cmd_users(), cmd_add_user(), cmd_del_user(),               *)
(* cmd_set_timeout(), cmd_log(): what each of them sends.                  *)
Request(k) ==
    CASE k.do = "add-user"    -> <<AddUser>> \o String(k.account.name) \o String(k.account.pass)
      [] k.do = "del-user"    -> <<DelUser>> \o String(k.account.name)
      [] k.do = "users"       -> <<ListUsers>>
      [] k.do = "stats"       -> <<GetStats>>
      [] k.do = "set-timeout" -> <<SetTimeout>> \o BigEndian(k.seconds, 4)
      [] k.do = "log"         -> <<GetLog>>

Usable(k) == k.do # "unknown"

(* rd_u16(), rd_u32(), rd_u64()                                            *)
Value(s) == FoldLeft(LAMBDA v, b : 256 * v + b, 0, s)

(* What a function that reads has got, or that it needs more bytes.        *)
More == [enough |-> FALSE, used |-> 0, status |-> OK, data |-> <<>>]
Enough(n, status, data) ==
    [enough |-> TRUE, used |-> n, status |-> status, data |-> data]

(* n strings, each behind its length in w bytes, after the first h bytes   *)
(* of s.  The client has room for 511 bytes of an entry of the log.        *)
Strings(s, h, n, w) ==
    FoldLeft(LAMBDA r, i :
        LET len == Min({511, Value(SubSeq(s, r.used + 1, r.used + w))})
        IN  IF ~r.enough \/ Len(s) < r.used + w THEN More
            ELSE IF Len(s) < r.used + w + len THEN More
            ELSE Enough(r.used + w + len, OK,
                        Append(r.data, SubSeq(s, r.used + w + 1, r.used + w + len))),
        Enough(h, OK, <<>>), [i \in 1 .. n |-> i])

(* A status, a count that ends at byte h, and the strings.                 *)
ListRead(s, h, w) ==
    IF s = <<>> THEN More
    ELSE IF s[1] # OK THEN Enough(1, s[1], <<>>)
    ELSE IF Len(s) < h THEN More
    ELSE Strings(s, h, Value(SubSeq(s, 2, h)), w)

(* The four numbers behind the status of cmd_stats().                      *)
Numbers(s) ==
    <<Value(SubSeq(s, 2, 9)), Value(SubSeq(s, 10, 13)),
      Value(SubSeq(s, 14, 21)), Value(SubSeq(s, 22, 29))>>

(* What each command reads of the bytes s that have arrived.               *)
AnswerRead(k, s) ==
    CASE k.do = "users" -> ListRead(s, 2, 1)
      [] k.do = "log"   -> ListRead(s, 3, 2)
      [] k.do = "stats" -> IF Len(s) < 29 THEN More ELSE Enough(29, s[1], Numbers(s))
      [] OTHER          -> IF s = <<>> THEN More ELSE Enough(1, s[1], <<>>)

-----------------------------------------------------------------------------
ClientInit ==
    /\ Init
    /\ task \in Casts
    /\ cpc = [c \in Peers |-> IF IsClient(task[c]) THEN "start" ELSE "exit"]
    /\ seen = [c \in Peers |-> 0]
    /\ report = [c \in Peers |-> NoReport]

(* The bytes that have arrived and were not read.                          *)
Arrived(c) == SubSeq(got[c], seen[c] + 1, Len(got[c]))

AtEnd(c) == stm[c] = "CLOSED"

Steps(c, to) == cpc' = [cpc EXCEPT ![c] = to]

Sends(c, m) ==
    /\ said' = [said EXCEPT ![c] = @ \o m]
    /\ UNCHANGED <<serverVars, world, closing, fin, sessionVars>>

(* close(fd) on the way out.                                               *)
Leaves(c) ==
    /\ Steps(c, "exit")
    /\ Finish(c)

Reads(c, n) == seen' = [seen EXCEPT ![c] = @ + n]

Reports(c, r) == report' = [report EXCEPT ![c] = r]

(* tcp_connect() and the sending half of do_handshake().                   *)
Dial(c) ==
    /\ cpc[c] = "start"
    /\ \/ /\ Connect(c, Credential(task[c].cred))
          /\ Steps(c, "auth") /\ UNCHANGED report
       \/ /\ closing
          /\ Steps(c, "exit") /\ Reports(c, GaveUp) /\ UNCHANGED vars
    /\ UNCHANGED <<task, seen>>

(* The rest of do_handshake(), and the command if it succeeded.  A command *)
(* that is unknown or lacks an argument is an error after the handshake.   *)
Authenticate(c) ==
    /\ cpc[c] = "auth" /\ Len(Arrived(c)) >= 2
    /\ Reads(c, 2)
    /\ \/ /\ SubSeq(Arrived(c), 1, 2) = <<Version, AuthOK>> /\ Usable(task[c])
          /\ Sends(c, Request(task[c])) /\ Steps(c, "answer") /\ UNCHANGED report
       \/ /\ SubSeq(Arrived(c), 1, 2) = <<Version, AuthOK>> /\ ~Usable(task[c])
          /\ Sends(c, <<Close>>) /\ Steps(c, "bye") /\ Reports(c, GaveUp)
       \/ /\ SubSeq(Arrived(c), 1, 2) # <<Version, AuthOK>>
          /\ Leaves(c) /\ Reports(c, GaveUp)
    /\ UNCHANGED task

(* The answer is all there: it is printed, and send_close() begins.        *)
ReadAnswer(c) ==
    /\ cpc[c] = "answer"
    /\ LET r == AnswerRead(task[c], Arrived(c))
       IN  r.enough /\ Reads(c, r.used) /\ Reports(c, Told(r.status, r.data))
    /\ Sends(c, <<Close>>) /\ Steps(c, "bye")
    /\ UNCHANGED task

(* send_close() has its status.                                            *)
ReadBye(c) ==
    /\ cpc[c] = "bye" /\ Arrived(c) # <<>>
    /\ Reads(c, 1) /\ Leaves(c)
    /\ UNCHANGED <<task, report>>

(* read() returned 0 before read_all() had what it needs.                  *)
Short(c) ==
    CASE cpc[c] = "auth"   -> Len(Arrived(c)) < 2
      [] cpc[c] = "answer" -> ~AnswerRead(task[c], Arrived(c)).enough
      [] cpc[c] = "bye"    -> Arrived(c) = <<>>
      [] OTHER             -> FALSE

HungUp(c) ==
    /\ AtEnd(c) /\ Short(c)
    /\ Leaves(c)
    /\ Reports(c, IF cpc[c] = "bye" THEN report[c] ELSE GaveUp)
    /\ UNCHANGED <<task, seen>>

Client(c) == Dial(c) \/ Authenticate(c) \/ ReadAnswer(c) \/ ReadBye(c) \/ HungUp(c)

Server(c) == Session(c) /\ UNCHANGED clientVars

Failure(c) == Fail(c) /\ UNCHANGED clientVars

(* A peer that is not the client.                                          *)
Stranger(c) ==
    /\ task[c].do = "speak"
    /\ Connect(c, task[c].words) \/ Finish(c)
    /\ UNCHANGED clientVars

Browses(c) ==
    /\ task[c].do = "browse"
    /\ Traffic /\ UNCHANGED clientVars

ClientsEnded ==
    /\ closing /\ \A c \in Peers : stm[c] \in {"OUTSIDE", "CLOSED"} /\ cpc[c] = "exit"
    /\ UNCHANGED allVars

ClientNext ==
    \/ BeginShutdown /\ UNCHANGED clientVars
    \/ ClientsEnded
    \/ \E c \in Peers : Client(c) \/ Stranger(c) \/ Browses(c) \/ Server(c) \/ Failure(c)

ClientSpec == ClientInit /\ [][ClientNext]_allVars

(* select() reports what is ready; the client is a process of its own.     *)
FairSpec ==
    /\ ClientSpec
    /\ \A c \in Peers : WF_allVars(Client(c)) /\ WF_allVars(Server(c))

-----------------------------------------------------------------------------
(* Properties *)

AddOutcome(t, a, status) ==
    /\ status = NotFound <=> T!Named(t, a.name) # {}
    /\ status = OK <=> T!Named(t, a.name) = {} /\ T!InUse(t) # T!Slots

(* The report r of a client that was asked for k, and what the server did  *)
(* for it.                                                                 *)
TrueOf(k, r, d) ==
    /\ Encoded(d.q) = Request(k)
    /\ k.do = "add-user" => AddOutcome(d.users, k.account, r.status)
    /\ k.do = "del-user" => (r.status = OK <=> T!Named(d.users, k.account.name) # {})
    /\ k.do = "users" =>
          /\ ToSet(r.data) = {a.name : a \in T!UsersOf(d.users)}
          /\ Len(r.data) = Cardinality(T!InUse(d.users))
    /\ k.do = "stats" =>
          r.data = <<d.world.hist, d.world.curr, d.world.sent, d.world.recv>>
    /\ k.do = "set-timeout" => d.q.timeout = k.seconds
    /\ k.do = "log" => r.data = d.world.log

(* What the client prints is what the server did, at the moment it did it: *)
(* the command it was asked for, with the table, the counters and the log  *)
(* of that moment (exec_command() and the functions of client.c that read  *)
(* its answer).  And unless a call failed, a client that gave up was not   *)
(* served at all: a shutdown, the limit of sessions or a wrong credential  *)
(* never leave a command done and unreported (mng_begin_shutdown() spares  *)
(* the sessions with an answer to send).                                   *)
ReportIsTrue ==
    \A c \in Peers :
      /\ report[c] = GaveUp /\ Usable(task[c]) /\ c \notin failed => did[c] = <<>>
      /\ report[c].told => did[c] # <<>> /\ TrueOf(task[c], report[c], did[c][1])

How(k, status) ==
    CASE status = OK                            -> "ok"
      [] status = Full                          -> "full"
      [] status = NotFound /\ k.do = "add-user" -> "taken"
      [] status = NotFound /\ k.do = "del-user" -> "missing"

NamesIn(k, names) == IF k.do = "users" THEN names ELSE {}

Phase(c) ==
    CASE report[c].told                         -> "told"
      [] report[c] = GaveUp                     -> "gaveUp"
      [] /\ report[c] = NoReport
         /\ IsClient(task[c]) /\ did[c] # <<>>   -> "performed"
      [] OTHER                                  -> "asked"

OutcomeOf(c) ==
    IF report[c].told
    THEN [how   |-> How(task[c], report[c].status),
          names |-> NamesIn(task[c], ToSet(report[c].data))]
    ELSE IF did[c] # <<>> /\ Usable(task[c]) /\ IsClient(task[c])
    THEN [how   |-> How(task[c], answers[c][2][1]),
          names |-> NamesIn(task[c], {a.name : a \in T!UsersOf(did[c][1].users)})]
    ELSE [how |-> "unknown", names |-> {}]

Remote == INSTANCE RemoteCommands WITH
    Clients <- Peers, Assignments <- Casts, MaxAccounts <- MaxUsers,
    Starts <- {ToSet(line) : line \in CommandLines},
    accounts <- T!UsersOf(users), command <- task,
    phase <- [c \in Peers |-> Phase(c)], outcome <- [c \in Peers |-> OutcomeOf(c)]

(* Whatever the clients, the other peers and the server meet, the commands *)
(* are atomic operations on one set of accounts, each performed once at    *)
(* most.                                                                   *)
ImplementsCommands == Remote!Spec

(* Every client exits: it is answered, refused, or told that the server is *)
(* gone.                                                                   *)
ClientsEnd == \A c \in Peers : <>(cpc[c] = "exit")
=============================================================================
