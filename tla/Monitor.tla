------------------------------ MODULE Monitor ------------------------------
(***************************************************************************)
(* The sessions of the monitoring protocol, byte by byte (monitor.c):      *)
(* MNG_AUTH_READ, MNG_AUTH_WRITE, then MNG_CMD_READ and MNG_RESP_WRITE in  *)
(* turn.  Several sessions change one table of users.                      *)
(*                                                                         *)
(* What a peer has said is a sequence of bytes: how much of it recv()      *)
(* takes, and when, is the network's choice.  Module MngClient adds the    *)
(* peers.  Where the structures of the sessions live, and time, are in     *)
(* modules Sessions and Timeouts.                                          *)
(*                                                                         *)
(* Both buffers are empty and at their beginning whenever they are filled  *)
(* (RoomToRead), so they are sequences here.                               *)
(***************************************************************************)
EXTENDS Naturals, SequencesExt

CONSTANTS
    MaxUsers, CommandLines, NoUser,  \* see UserTable
    Peers,        \* the connections to the monitoring port
    MaxSessions,  \* MNG_MAX_CONNECTIONS
    ReadSize,     \* MNG_READ_SIZE
    AnswerSize,   \* MNG_WRITE_SIZE
    Admins,       \* the credential of -A, or nothing
    Worlds        \* what GET_STATS and GET_LOG may find

Byte == 0 .. 255

(* What a name or a password may be: a C string in an array of 256.        *)
CStrings == {s \in Seq(1 .. 255) : Len(s) <= 255}

VARIABLES
    users, timeout, world,  \* the table, both idle_timeouts, counters and log
    closing,                \* the first signal was handled
    said, fin, got,         \* per peer: its bytes, its end of stream, what it got
    taken, rbuf, wbuf,      \* bytes that recv() took, and the two buffers
    stm, p,                 \* the state and its parser
    authenticated, closeAfter, shuttingDown,
    did, answers, failed    \* history: commands executed, answers composed,
                            \* the peers whose session a failure ended

peerVars    == <<said, fin>>
serverVars  == <<users, timeout>>
sessionVars == <<got, taken, rbuf, wbuf, stm, p, authenticated, closeAfter,
                 shuttingDown, did, answers, failed>>
vars == <<serverVars, world, closing, peerVars, sessionVars>>

T == INSTANCE UserTable WITH Names <- CStrings, Passwords <- CStrings

Version     == 1
AuthOK      == 0
AuthFail    == 1
Unsupported == 255

OK       == 0
NotFound == 1
Full     == 2
BadArgs  == 3

AddUser    == 1    \* MNG_CMD_*
DelUser    == 2
ListUsers  == 3
GetStats   == 4
SetTimeout == 5
GetLog     == 6
Close      == 7

ReadStates  == {"AUTH_READ", "CMD_READ"}
WriteStates == {"AUTH_WRITE", "RESP_WRITE"}

(* The registered sessions.                                                *)
Active == {c \in Peers : stm[c] \in ReadStates \cup WriteStates}

-----------------------------------------------------------------------------
(* The parsers.  left counts the bytes a field still misses. *)

Zeroed(at) == [at |-> at, left |-> 0, cmd |-> 0, uname |-> <<>>, passwd |-> <<>>,
               timeout |-> 0]

(* Faulty: a string has one byte at least.                                 *)
CountedSome(q, b, field, next) == [q EXCEPT !.left = b, !.at = field]

(* A length byte: an empty string has no bytes to wait for.                *)
Counted(q, b, field, next) ==
    [q EXCEPT !.left = b, !.at = IF b = 0 THEN next ELSE field]

(* Faulty: a string ends one byte late.                                    *)
KeptLong(q, field, b, next) ==
    [q EXCEPT ![field] = Append(@, b), !.left = @ - 1,
              !.at = IF q.left = 0 THEN next ELSE @]

(* A byte of a string.                                                     *)
Kept(q, field, b, next) ==
    [q EXCEPT ![field] = Append(@, b), !.left = @ - 1,
              !.at = IF q.left = 1 THEN next ELSE @]

(* auth_feed()                                                             *)
AuthFeed(q, b) ==
    CASE q.at = "VER"    -> [q EXCEPT !.at = IF b = Version THEN "ULEN" ELSE "ERROR"]
      [] q.at = "ULEN"   -> Counted(q, b, "UNAME", "PLEN")
      [] q.at = "UNAME"  -> Kept(q, "uname", b, "PLEN")
      [] q.at = "PLEN"   -> Counted(q, b, "PASSWD", "DONE")
      [] q.at = "PASSWD" -> Kept(q, "passwd", b, "DONE")

AfterName(q) == IF q.cmd = AddUser THEN "PLEN" ELSE "DONE"

(* cmd_feed()                                                              *)
CmdFeed(q, b) ==
    CASE q.at = "CMD" ->
            [q EXCEPT !.cmd = b,
                      !.left = IF b = SetTimeout THEN 4 ELSE 0,
                      !.at = CASE b \in {AddUser, DelUser} -> "ULEN"
                               [] b = SetTimeout -> "TIMEOUT"
                               [] b \in {ListUsers, GetStats, GetLog, Close} -> "DONE"
                               [] OTHER -> "ERROR"]
      [] q.at = "ULEN"    -> Counted(q, b, "UNAME", AfterName(q))
      [] q.at = "UNAME"   -> Kept(q, "uname", b, AfterName(q))
      [] q.at = "PLEN"    -> Counted(q, b, "PASSWD", "DONE")
      [] q.at = "PASSWD"  -> Kept(q, "passwd", b, "DONE")
      [] q.at = "TIMEOUT" -> [q EXCEPT !.timeout = 256 * @ + b, !.left = @ - 1,
                                       !.at = IF q.left = 1 THEN "DONE" ELSE @]

Feed(state, q, b) == IF state = "AUTH_READ" THEN AuthFeed(q, b) ELSE CmdFeed(q, b)

Over(q) == q.at \in {"DONE", "ERROR"}

(* The loop of both read handlers over the bytes s: where the parser got   *)
(* to, and how many bytes it used.                                         *)
Parse(state, q, s) ==
    FoldLeft(LAMBDA acc, b : IF Over(acc.q) THEN acc
                             ELSE [q |-> Feed(state, acc.q, b), used |-> acc.used + 1],
             [q |-> q, used |-> 0], s)

(* A name or a password is a C string: it ends at its first NUL.           *)
CString(s) ==
    LET nul == {i \in DOMAIN s : s[i] = 0}
    IN  IF nul = {} THEN s ELSE SubSeq(s, 1, T!First(nul) - 1)

Account(q) == [name |-> CString(q.uname), pass |-> CString(q.passwd)]

-----------------------------------------------------------------------------
(* The answers *)

(* v >> 8 * k, for each k up to n.                                         *)
Shifted(v, n) ==
    LET shifted[k \in 0 .. n] == IF k = 0 THEN v ELSE shifted[k - 1] \div 256
    IN  shifted

(* write_u16(), write_u32(), write_u64(): v in n bytes.                    *)
BigEndian(v, n) == [i \in 1 .. n |-> Shifted(v, n)[n - i] % 256]

(* A number of n bytes.                                                    *)
FitsIn(v, n) == v \in Nat /\ Shifted(v, n)[n] = 0

(* A string behind its length in n bytes.                                  *)
Sized(s, n) == BigEndian(Len(s), n) \o s

Sizeds(ss, n) == FlattenSeq([i \in DOMAIN ss |-> Sized(ss[i], n)])

(* socks5_list_users(): the names, in the order of the slots.              *)
Listed(t) ==
    FlattenSeq([i \in T!Slots |-> IF t[i] = NoUser THEN <<>> ELSE <<t[i].name>>])

(* Faulty: a table that is full is noticed before a name that is taken.    *)
AddStatusFull(t, a) ==
    IF T!InUse(t) = T!Slots THEN Full
    ELSE IF T!Named(t, a.name) # {} THEN NotFound ELSE OK

(* socks5_add_user() searches the name first.                              *)
AddStatus(t, a) ==
    IF T!Named(t, a.name) # {} THEN NotFound
    ELSE IF T!InUse(t) = T!Slots THEN Full ELSE OK

DelStatus(t, n) == IF T!Named(t, n) = {} THEN NotFound ELSE OK

(* What exec_command() writes for the command q.                           *)
Answer(q) ==
    CASE q.cmd = AddUser   -> <<AddStatus(users, Account(q))>>
      [] q.cmd = DelUser   -> <<DelStatus(users, CString(q.uname))>>
      [] q.cmd = ListUsers -> <<OK>> \o BigEndian(Len(Listed(users)), 1) \o Sizeds(Listed(users), 1)
      [] q.cmd = GetStats  -> <<OK>> \o BigEndian(world.hist, 8) \o BigEndian(world.curr, 4)
                                     \o BigEndian(world.sent, 8) \o BigEndian(world.recv, 8)
      [] q.cmd = GetLog    -> <<OK>> \o BigEndian(Len(world.log), 2) \o Sizeds(world.log, 2)
      [] OTHER             -> <<OK>>

(* buffer_write() drops what does not fit.                                 *)
Fitting(s) == SubSeq(s, 1, Min({Len(s), AnswerSize}))

-----------------------------------------------------------------------------
(* In the code a table has 10 names of at most 255 bytes, the log 100      *)
(* lines of at most 511, and an answer has room for 65536 bytes: with them *)
(* every answer fits, and so does each count in its bytes, which these     *)
(* assumptions say of any such constants.  Counters have their C types.    *)

ASSUME UsersAssumption ==
    /\ MaxUsers \in Byte /\ NoUser \notin T!Accounts
    /\ \A c \in CommandLines : c \in Seq(T!Accounts) /\ Len(c) <= MaxUsers

ASSUME SizesAssumption ==
    /\ MaxSessions \in Nat /\ {ReadSize, AnswerSize} \subseteq Nat \ {0}
    /\ AnswerSize >= 29 /\ AnswerSize >= 2 + 256 * MaxUsers

ASSUME WorldsAssumption ==
    \A w \in Worlds :
        /\ FitsIn(w.hist, 8) /\ FitsIn(w.curr, 4) /\ FitsIn(w.sent, 8) /\ FitsIn(w.recv, 8)
        /\ w.log \in Seq(Seq(Byte)) /\ FitsIn(Len(w.log), 2)
        /\ \A i \in DOMAIN w.log : Len(w.log[i]) <= 511
        /\ 3 + Len(Sizeds(w.log, 2)) <= AnswerSize

-----------------------------------------------------------------------------
Init ==
    /\ T!TableInit
    /\ timeout = 60 /\ world \in Worlds
    /\ closing = FALSE
    /\ said = [c \in Peers |-> <<>>] /\ fin = [c \in Peers |-> FALSE]
    /\ got = [c \in Peers |-> <<>>] /\ taken = [c \in Peers |-> 0]
    /\ rbuf = [c \in Peers |-> <<>>] /\ wbuf = [c \in Peers |-> <<>>]
    /\ stm = [c \in Peers |-> "OUTSIDE"]
    /\ p = [c \in Peers |-> Zeroed("VER")]
    /\ authenticated = [c \in Peers |-> FALSE]
    /\ closeAfter = [c \in Peers |-> FALSE]
    /\ shuttingDown = [c \in Peers |-> FALSE]
    /\ did = [c \in Peers |-> <<>>] /\ answers = [c \in Peers |-> <<>>]
    /\ failed = {}

-----------------------------------------------------------------------------
(* The peer, and the proxy's own traffic *)

Goes(c, state) == stm' = [stm EXCEPT ![c] = state]

(* The kernel completes a connection while the port listens.               *)
Connect(c, m) ==
    /\ stm[c] = "OUTSIDE" /\ ~closing
    /\ Goes(c, "BACKLOG")
    /\ said' = [said EXCEPT ![c] = m]
    /\ UNCHANGED <<serverVars, world, closing, fin, got, taken, rbuf, wbuf, p,
                   authenticated, closeAfter, shuttingDown, did, answers, failed>>

Finish(c) ==
    /\ stm[c] # "OUTSIDE" /\ ~fin[c]
    /\ fin' = [fin EXCEPT ![c] = TRUE]
    /\ UNCHANGED <<serverVars, world, closing, said, sessionVars>>

Traffic ==
    /\ world' \in Worlds \ {world}
    /\ UNCHANGED <<serverVars, closing, peerVars, sessionVars>>

-----------------------------------------------------------------------------
(* The server *)

RoomForSession == Cardinality(Active) < MaxSessions

(* mng_passive_accept(): one session more, or closed without a word.       *)
Accept(c) ==
    /\ stm[c] = "BACKLOG"
    /\ Goes(c, IF RoomForSession THEN "AUTH_READ" ELSE "CLOSED")
    /\ UNCHANGED <<serverVars, world, closing, peerVars, got, taken, rbuf, wbuf, p,
                   authenticated, closeAfter, shuttingDown, did, answers, failed>>

Admitted(q) == Account(q) \in Admins

(* The handler writes the answer s and waits to send it.                   *)
Answering(c, q, s, state) ==
    /\ wbuf' = [wbuf EXCEPT ![c] = Fitting(s)]
    /\ answers' = [answers EXCEPT ![c] = Append(@, s)]
    /\ p' = [p EXCEPT ![c] = q]
    /\ Goes(c, state)

KeepReading(c, q) ==
    /\ p' = [p EXCEPT ![c] = q]
    /\ UNCHANGED <<serverVars, stm, wbuf, authenticated, closeAfter, did, answers>>

(* mng_auth_read_on_read_ready(), its parser stopped at q.                 *)
AuthRead(c, q) ==
    \/ ~Over(q) /\ KeepReading(c, q)
    \/ /\ Over(q)
       /\ Answering(c, q, <<Version, IF q.at = "ERROR" THEN Unsupported
                                     ELSE IF Admitted(q) THEN AuthOK ELSE AuthFail>>,
                    "AUTH_WRITE")
       /\ authenticated' = [authenticated EXCEPT ![c] = q.at = "DONE" /\ Admitted(q)]
       /\ UNCHANGED <<serverVars, closeAfter, did>>

(* exec_command()                                                          *)
Execute(c, q) ==
    /\ Answering(c, q, Answer(q), "RESP_WRITE")
    /\ users' = CASE q.cmd = AddUser -> T!Added(users, Account(q))
                  [] q.cmd = DelUser -> T!Deleted(users, CString(q.uname))
                  [] OTHER           -> users
    /\ timeout' = IF q.cmd = SetTimeout THEN q.timeout ELSE timeout
    /\ closeAfter' = [closeAfter EXCEPT ![c] = @ \/ q.cmd = Close]
    /\ did' = [did EXCEPT ![c] = Append(@, [q |-> q, users |-> users, world |-> world])]
    /\ UNCHANGED authenticated

(* mng_cmd_read_on_read_ready()                                            *)
CmdRead(c, q) ==
    \/ ~Over(q) /\ KeepReading(c, q)
    \/ q.at = "DONE" /\ Execute(c, q)
    \/ /\ q.at = "ERROR"
       /\ Answering(c, q, <<BadArgs>>, "RESP_WRITE")
       /\ UNCHANGED <<serverVars, authenticated, closeAfter, did>>

(* A readable descriptor: recv() takes n bytes, and the handler of the     *)
(* state runs to its end.                                                  *)
Read(c, n) ==
    /\ stm[c] \in ReadStates
    /\ Len(rbuf[c]) + n <= ReadSize /\ taken[c] + n <= Len(said[c])
    /\ taken' = [taken EXCEPT ![c] = @ + n]
    /\ LET b == rbuf[c] \o SubSeq(said[c], taken[c] + 1, taken[c] + n)
           r == Parse(stm[c], p[c], b)
       IN  /\ rbuf' = [rbuf EXCEPT ![c] = SubSeq(b, r.used + 1, Len(b))]
           /\ \/ stm[c] = "AUTH_READ" /\ AuthRead(c, r.q)
              \/ stm[c] = "CMD_READ"  /\ CmdRead(c, r.q)
    /\ UNCHANGED <<world, closing, peerVars, got, shuttingDown, failed>>

CloseSession(c) ==
    /\ Goes(c, "CLOSED")
    /\ UNCHANGED <<serverVars, world, closing, peerVars, got, taken, rbuf, wbuf, p,
                   authenticated, closeAfter, shuttingDown, did, answers>>

(* The stream ended: recv() returns 0.                                     *)
ReadEnd(c) ==
    /\ stm[c] \in ReadStates
    /\ fin[c] /\ taken[c] = Len(said[c])
    /\ CloseSession(c) /\ UNCHANGED failed

(* A failed recv() or send(), the sweep.                                   *)
Fail(c) ==
    /\ c \in Active
    /\ failed' = failed \cup {c}
    /\ CloseSession(c)

(* Faulty: what the session is is asked before the shutdown.               *)
FollowingAuth(c) ==
    IF stm[c] = "AUTH_WRITE" THEN IF authenticated[c] THEN "CMD_READ" ELSE "CLOSED"
    ELSE IF closeAfter[c] \/ shuttingDown[c] THEN "CLOSED" ELSE "CMD_READ"

(* Faulty: a refused administrator stays.                                  *)
FollowingAny(c) == IF closeAfter[c] \/ shuttingDown[c] THEN "CLOSED" ELSE "CMD_READ"

(* What follows an answer.                                                 *)
Following(c) ==
    IF \/ shuttingDown[c]
       \/ stm[c] = "AUTH_WRITE" /\ ~authenticated[c]
       \/ stm[c] = "RESP_WRITE" /\ closeAfter[c]
    THEN "CLOSED" ELSE "CMD_READ"

(* Faulty: the first call of send() is taken for the whole answer.         *)
SomeSent(c, n) == n > 0

AllSent(c, n) == n = Len(wbuf[c])

(* Faulty: what was read ahead is kept.                                    *)
ArriveKept(c) ==
    /\ p' = [p EXCEPT ![c] = Zeroed("CMD")]
    /\ closeAfter' = [closeAfter EXCEPT ![c] = FALSE]
    /\ wbuf' = [wbuf EXCEPT ![c] = <<>>]
    /\ UNCHANGED rbuf

(* mng_cmd_read_on_arrival(): both buffers are reset, whatever they hold.  *)
Arrive(c) ==
    /\ p' = [p EXCEPT ![c] = Zeroed("CMD")]
    /\ closeAfter' = [closeAfter EXCEPT ![c] = FALSE]
    /\ rbuf' = [rbuf EXCEPT ![c] = <<>>]
    /\ wbuf' = [wbuf EXCEPT ![c] = <<>>]

(* A writable descriptor: send() passes n bytes on.                        *)
Write(c, n) ==
    /\ stm[c] \in WriteStates
    /\ n \in 1 .. Len(wbuf[c])
    /\ got' = [got EXCEPT ![c] = @ \o SubSeq(wbuf[c], 1, n)]
    /\ IF AllSent(c, n)
       THEN /\ Goes(c, Following(c))
            /\ IF Following(c) = "CMD_READ" THEN Arrive(c)
               ELSE wbuf' = [wbuf EXCEPT ![c] = <<>>] /\ UNCHANGED <<p, closeAfter, rbuf>>
       ELSE /\ wbuf' = [wbuf EXCEPT ![c] = SubSeq(@, n + 1, Len(@))]
            /\ UNCHANGED <<stm, p, closeAfter, rbuf>>
    /\ UNCHANGED <<serverVars, world, closing, peerVars, taken, authenticated,
                   shuttingDown, did, answers, failed>>

(* Faulty: every session is closed at once.                                *)
SparedNone(c) == FALSE

(* Sessions with an answer to send go on, the others are closed.           *)
Spared(c) == stm[c] \in WriteStates /\ wbuf[c] # <<>>

(* The first signal: the port closes, and mng_begin_shutdown().            *)
BeginShutdown ==
    /\ ~closing
    /\ closing' = TRUE
    /\ shuttingDown' = [c \in Peers |-> shuttingDown[c] \/ Spared(c)]
    /\ stm' = [c \in Peers |-> IF stm[c] = "OUTSIDE" \/ Spared(c) THEN stm[c] ELSE "CLOSED"]
    /\ UNCHANGED <<serverVars, world, peerVars, got, taken, rbuf, wbuf, p,
                   authenticated, closeAfter, did, answers, failed>>

(* What select() reports.                                                  *)
Session(c) ==
    \/ Accept(c) \/ ReadEnd(c)
    \/ \E n \in 1 .. ReadSize : Read(c, n)
    \/ \E n \in 1 .. Len(wbuf[c]) : Write(c, n)

-----------------------------------------------------------------------------
(* What a message looks like, by the tables of doc/SPEC.md.                *)

Encoded(q) ==
    CASE q.cmd = AddUser    -> <<q.cmd>> \o Sized(q.uname, 1) \o Sized(q.passwd, 1)
      [] q.cmd = DelUser    -> <<q.cmd>> \o Sized(q.uname, 1)
      [] q.cmd = SetTimeout -> <<q.cmd>> \o BigEndian(q.timeout, 4)
      [] OTHER              -> <<q.cmd>>

Handshake(q) == <<Version>> \o Sized(q.uname, 1) \o Sized(q.passwd, 1)

(* The bytes the parsers used.                                             *)
Used(c) == taken[c] - Len(rbuf[c])

Answered(c) == FlattenSeq(answers[c])

-----------------------------------------------------------------------------
(* Properties *)

(* A handler never meets a full buffer, whatever its peer sends: nothing   *)
(* is left in read_buffer when it waits for more, and write_buffer holds   *)
(* something exactly while it waits to send (mng_cmd_read_on_arrival(),    *)
(* the loops around the parsers).                                          *)
BuffersAreSound ==
    /\ users \in T!Tables /\ world \in Worlds /\ closing \in BOOLEAN
    /\ \A c \in Peers :
          /\ stm[c] \in ReadStates \cup WriteStates \cup {"OUTSIDE", "BACKLOG", "CLOSED"}
          /\ {authenticated[c], closeAfter[c], shuttingDown[c]} \subseteq BOOLEAN
          /\ taken[c] \in 0 .. Len(said[c])
          /\ Len(rbuf[c]) <= ReadSize /\ Len(wbuf[c]) <= AnswerSize
          /\ stm[c] \in ReadStates => rbuf[c] = <<>>
          /\ stm[c] \in WriteStates <=> wbuf[c] # <<>> /\ c \in Active

(* However recv() splits and joins the stream, what auth_feed() and        *)
(* cmd_feed() take for a message are the bytes just before the next one,   *)
(* whole: a command is executed with the fields its sender wrote.          *)
ExecutedAsSent ==
    \A c \in Peers :
        /\ stm[c] = "AUTH_WRITE" /\ p[c].at = "DONE" =>
              SubSeq(said[c], 1, Used(c)) = Handshake(p[c])
        /\ stm[c] = "RESP_WRITE" =>
              LET m == Encoded(p[c])
              IN  SubSeq(said[c], Used(c) - Len(m) + 1, Used(c)) = m

(* A command is executed only for a peer whose first bytes are the         *)
(* credential of -A, and that was told so (authenticated and               *)
(* mng_auth_write_on_write_ready()).                                       *)
OnlyAdmins ==
    \A c \in Peers : did[c] # <<>> =>
        LET plen == 3 + said[c][2]
        IN  /\ SubSeq(got[c], 1, 2) = <<Version, AuthOK>>
            /\ said[c][1] = Version
            /\ [name |-> CString(SubSeq(said[c], 3, plen - 1)),
                pass |-> CString(SubSeq(said[c], plen + 1, plen + said[c][plen]))] \in Admins

(* The peer gets the answers whole and in order, however send() splits     *)
(* them; and unless a call fails, its session is not closed before it has  *)
(* them all: the one to CLOSE, to a refused credential, to the command a   *)
(* shutdown met (buffer_reset() of the write buffer, close_after_write,    *)
(* authenticated, mng_begin_shutdown()).                                   *)
AnswersArrive ==
    \A c \in Peers :
        CASE c \in Active -> Answered(c) = got[c] \o wbuf[c]
          [] c \in failed -> IsPrefix(got[c], Answered(c))
          [] OTHER        -> got[c] = Answered(c)

(* Once a shutdown began, no session waits for its peer: each has only an  *)
(* answer to finish, and executes nothing more (mng_begin_shutdown(),      *)
(* shutting_down).                                                         *)
ShutdownQuiesces == closing => \A c \in Peers : stm[c] \notin ReadStates
=============================================================================
