---------------------------- MODULE Negotiation ----------------------------
(***************************************************************************)
(* The negotiation of one connection, byte by byte: the states HELLO, AUTH *)
(* and REQUEST_READ (states/hello.c, states/auth.c, the first half of      *)
(* states/request.c), while the table of users changes underneath.         *)
(*                                                                         *)
(* TCP splits and joins what the client says: a call of recv(2) takes any  *)
(* part of it that fits into read_buffer.  A handler parses what the       *)
(* buffer holds up to the end of its message and leaves the rest there.    *)
(* write_buffer holds at most four bytes here, far from its limit, and is  *)
(* a sequence.  What follows the parsed request is in module Socks5.       *)
(***************************************************************************)
EXTENDS Buffer, UserTable, SequencesExt

CONSTANT
    Clients   \* what a client may say (hellos, auths, requests), and whether it
              \* may speak before it is answered (ahead)

Byte == 0 .. 255

ASSUME NegotiationAssumption ==
    \A c \in Clients :
        /\ c.ahead \in BOOLEAN
        /\ \A m \in c.hellos \cup c.auths \cup c.requests : m \in Seq(Byte)

VARIABLES              \* besides users, the table of UserTable
    client,               \* one of Clients
    said, spoken, fin,    \* client: its bytes, its last message, end of stream
    got,                  \* the bytes it received
    taken, rbuf, wbuf,    \* bytes that recv() took, and the two buffers
    stm, p,               \* the state and its parser (a union)
    reply,                \* s->reply
    atHello, atAuth       \* history: the table when each decision was taken

clientVars == <<client, said, spoken, fin>>
serverVars == <<got, taken, rbuf, wbuf, stm, p, reply, atHello, atAuth>>
vars  == <<users, clientVars, serverVars>>

NoAuth       == 0    \* METHOD_NO_AUTH
UserPass     == 2    \* METHOD_USERPASS
NoAcceptable == 255  \* METHOD_NO_ACCEPTABLE

IPv4 == 1
FQDN == 3
IPv6 == 4

(* A message has no byte behind its end, as RFC 1928 and RFC 1929 count    *)
(* them: it may be wrong, or too short.                                    *)
HelloFits(m) == Len(m) >= 2 /\ m[1] = 5 => Len(m) <= 2 + m[2]

AuthFits(m) ==
    Len(m) >= 2 /\ m[1] = 1 /\ Len(m) >= 3 + m[2] => Len(m) <= 3 + m[2] + m[3 + m[2]]

(* A client that does not speak ahead says one message at a time.  What    *)
(* may follow a request is for the origin, and not read here.              *)
ASSUME OneAtATimeAssumption ==
    \A c \in Clients : ~c.ahead =>
        /\ \A m \in c.hellos : HelloFits(m)
        /\ \A m \in c.auths : AuthFits(m)

ReadStates  == {"HELLO_READ", "AUTH_READ", "REQUEST_READ"}
WriteStates == {"HELLO_WRITE", "AUTH_WRITE"}

(* The request was parsed: it is refused, or its address is resolved or    *)
(* connected to.  DONE and ERROR both close the connection.                *)
Ends == {"REQUEST_WRITE", "SERVED", "CLOSED"}

NoReply == 256
GeneralFailure == 1
CommandNotSupported == 7

-----------------------------------------------------------------------------
(* The parsers.  left counts the bytes a field still misses. *)

Zeroed == [at |-> "VERSION", left |-> 0, offered |-> {}, selected |-> 0,
           uname |-> <<>>, passwd |-> <<>>, ok |-> FALSE,
           cmd |-> 0, atyp |-> 0, addr |-> <<>>, port |-> <<>>]

(* Faulty: the last of the methods is taken for the next message.          *)
HelloFeedShort(q, b) ==
    CASE q.at = "VERSION"  -> [q EXCEPT !.at = IF b = 5 THEN "NMETHODS" ELSE "ERROR"]
      [] q.at = "NMETHODS" -> [q EXCEPT !.left = b, !.at = IF b <= 1 THEN "DONE" ELSE "METHODS"]
      [] q.at = "METHODS"  ->
            [q EXCEPT !.offered = @ \cup ({b} \cap {NoAuth, UserPass}),
                      !.left = @ - 1, !.at = IF q.left = 2 THEN "DONE" ELSE @]

(* hello_feed()                                                            *)
HelloFeed(q, b) ==
    CASE q.at = "VERSION"  -> [q EXCEPT !.at = IF b = 5 THEN "NMETHODS" ELSE "ERROR"]
      [] q.at = "NMETHODS" -> [q EXCEPT !.left = b, !.at = IF b = 0 THEN "DONE" ELSE "METHODS"]
      [] q.at = "METHODS"  ->
            [q EXCEPT !.offered = @ \cup ({b} \cap {NoAuth, UserPass}),
                      !.left = @ - 1, !.at = IF q.left = 1 THEN "DONE" ELSE @]

(* Faulty: a name has at least one byte.                                   *)
AuthFeedNamed(q, b) ==
    CASE q.at = "VERSION" -> [q EXCEPT !.at = IF b = 1 THEN "ULEN" ELSE "ERROR"]
      [] q.at = "ULEN"    -> [q EXCEPT !.left = b, !.at = "UNAME"]
      [] q.at = "UNAME"   -> [q EXCEPT !.uname = Append(@, b), !.left = @ - 1,
                                       !.at = IF q.left = 1 THEN "PLEN" ELSE @]
      [] q.at = "PLEN"    -> [q EXCEPT !.left = b, !.at = IF b = 0 THEN "DONE" ELSE "PASSWD"]
      [] q.at = "PASSWD"  -> [q EXCEPT !.passwd = Append(@, b), !.left = @ - 1,
                                       !.at = IF q.left = 1 THEN "DONE" ELSE @]

(* auth_feed()                                                             *)
AuthFeed(q, b) ==
    CASE q.at = "VERSION" -> [q EXCEPT !.at = IF b = 1 THEN "ULEN" ELSE "ERROR"]
      [] q.at = "ULEN"    -> [q EXCEPT !.left = b, !.at = IF b = 0 THEN "PLEN" ELSE "UNAME"]
      [] q.at = "UNAME"   -> [q EXCEPT !.uname = Append(@, b), !.left = @ - 1,
                                       !.at = IF q.left = 1 THEN "PLEN" ELSE @]
      [] q.at = "PLEN"    -> [q EXCEPT !.left = b, !.at = IF b = 0 THEN "DONE" ELSE "PASSWD"]
      [] q.at = "PASSWD"  -> [q EXCEPT !.passwd = Append(@, b), !.left = @ - 1,
                                       !.at = IF q.left = 1 THEN "DONE" ELSE @]

(* request_feed()                                                          *)
RequestFeed(q, b) ==
    CASE q.at = "VERSION"   -> [q EXCEPT !.at = IF b = 5 THEN "CMD" ELSE "ERROR"]
      [] q.at = "CMD"       -> [q EXCEPT !.cmd = b, !.at = "RSV"]
      [] q.at = "RSV"       -> [q EXCEPT !.at = IF b = 0 THEN "ATYP" ELSE "ERROR"]
      [] q.at = "ATYP"      ->
            [q EXCEPT !.atyp = b,
                      !.left = IF b = IPv4 THEN 4 ELSE IF b = IPv6 THEN 16 ELSE @,
                      !.at = IF b \in {IPv4, IPv6} THEN "DADDR"
                             ELSE IF b = FQDN THEN "DADDR_LEN" ELSE "ERROR"]
      [] q.at = "DADDR_LEN" -> [q EXCEPT !.left = b, !.at = IF b = 0 THEN "ERROR" ELSE "DADDR"]
      [] q.at = "DADDR"     -> [q EXCEPT !.addr = Append(@, b), !.left = @ - 1,
                                         !.at = IF q.left = 1 THEN "DPORT" ELSE @]
      [] q.at = "DPORT"     -> [q EXCEPT !.port = Append(@, b),
                                         !.at = IF Len(q.port) = 1 THEN "DONE" ELSE @]

Feed(state, q, b) ==
    CASE state = "HELLO_READ"   -> HelloFeed(q, b)
      [] state = "AUTH_READ"    -> AuthFeed(q, b)
      [] state = "REQUEST_READ" -> RequestFeed(q, b)

Over(q) == q.at \in {"DONE", "ERROR"}

(* The loop of every read handler over the bytes s: where the parser got   *)
(* to, and how many bytes it used.                                         *)
Parse(state, q, s) ==
    FoldLeft(LAMBDA acc, b : IF Over(acc.q) THEN acc
                             ELSE [q |-> Feed(state, acc.q, b), used |-> acc.used + 1],
             [q |-> q, used |-> 0], s)

(* A name or a password is a C string: it ends at its first NUL.           *)
CString(s) ==
    LET nul == {i \in DOMAIN s : s[i] = 0}
    IN  IF nul = {} THEN s ELSE SubSeq(s, 1, First(nul) - 1)

-----------------------------------------------------------------------------
Init ==
    /\ TableInit
    /\ client \in Clients
    /\ said = <<>> /\ spoken = "nothing" /\ fin = FALSE
    /\ got = <<>> /\ taken = 0 /\ rbuf = Empty /\ wbuf = <<>>
    /\ stm = "HELLO_READ"
    /\ p = [Zeroed EXCEPT !.selected = NoAcceptable]
    /\ reply = NoReply
    /\ atHello = users /\ atAuth = users

-----------------------------------------------------------------------------
(* The client *)

(* Which message a client may say now: it follows the answers it got, or   *)
(* guesses them.                                                           *)
MaySay(kind) ==
    /\ kind = "hello"   => spoken = "nothing"
    /\ kind = "auth"    => spoken = "hello" /\ (client.ahead \/ got = <<5, UserPass>>)
    /\ kind = "request" =>
          \/ spoken = "hello" /\ (client.ahead \/ got = <<5, NoAuth>>)
          \/ spoken = "auth"  /\ (client.ahead \/ got = <<5, UserPass, 1, 0>>)

Say(kind, m) ==
    /\ ~fin /\ MaySay(kind)
    /\ said' = said \o m
    /\ spoken' = kind
    /\ UNCHANGED <<users, client, fin, serverVars>>

Speak ==
    \/ \E m \in client.hellos   : Say("hello", m)
    \/ \E m \in client.auths    : Say("auth", m)
    \/ \E m \in client.requests : Say("request", m)

Finish ==
    /\ ~fin
    /\ fin' = TRUE
    /\ UNCHANGED <<users, client, said, spoken, serverVars>>

-----------------------------------------------------------------------------
(* The handlers *)

(* The choice in hello_on_read_ready().                                    *)
Method(offered, t) ==
    IF UserPass \in offered THEN UserPass
    ELSE IF NoAuth \in offered /\ ~HasUsers(t) THEN NoAuth
    ELSE NoAcceptable

Close(q) ==
    /\ stm' = "CLOSED" /\ p' = q
    /\ UNCHANGED <<wbuf, reply, atHello, atAuth>>

KeepReading(q) ==
    /\ p' = q
    /\ UNCHANGED <<stm, wbuf, reply, atHello, atAuth>>

(* What each read handler does once its parser stopped at q.               *)
HelloRead(q) ==
    \/ q.at = "ERROR" /\ Close(q)
    \/ ~Over(q) /\ KeepReading(q)
    \/ /\ q.at = "DONE"
       /\ p' = [q EXCEPT !.selected = Method(q.offered, users)]
       /\ wbuf' = wbuf \o <<5, Method(q.offered, users)>>
       /\ stm' = "HELLO_WRITE"
       /\ atHello' = users
       /\ UNCHANGED <<reply, atAuth>>

Admitted(q) == Valid(users, CString(q.uname), CString(q.passwd))

AuthRead(q) ==
    \/ q.at = "ERROR" /\ Close(q)
    \/ ~Over(q) /\ KeepReading(q)
    \/ /\ q.at = "DONE"
       /\ p' = [q EXCEPT !.ok = Admitted(q)]
       /\ wbuf' = wbuf \o <<1, IF Admitted(q) THEN 0 ELSE 1>>
       /\ stm' = "AUTH_WRITE"
       /\ atAuth' = users
       /\ UNCHANGED <<reply, atHello>>

(* request_on_read_ready(): the reply itself is sent in module Socks5.     *)
RequestRead(q) ==
    /\ p' = q
    /\ UNCHANGED <<wbuf, atHello, atAuth>>
    /\ \/ q.at = "ERROR" /\ stm' = "REQUEST_WRITE" /\ reply' = GeneralFailure
       \/ ~Over(q) /\ UNCHANGED <<stm, reply>>
       \/ /\ q.at = "DONE" /\ q.cmd # 1
          /\ stm' = "REQUEST_WRITE" /\ reply' = CommandNotSupported
       \/ q.at = "DONE" /\ q.cmd = 1 /\ stm' = "SERVED" /\ UNCHANGED reply

(* A readable descriptor: socks_recv() takes n bytes, and the handler of   *)
(* the state runs to its end.                                              *)
Read(n) ==
    /\ stm \in ReadStates
    /\ n \in 1 .. Space(rbuf) /\ taken + n <= Len(said)
    /\ taken' = taken + n
    /\ LET b == Stored(rbuf, n, SubSeq(said, taken + 1, taken + n))
           r == Parse(stm, p, Contents(b))
       IN  /\ rbuf' = ReadAdv(b, r.used)
           /\ \/ stm = "HELLO_READ"   /\ HelloRead(r.q)
              \/ stm = "AUTH_READ"    /\ AuthRead(r.q)
              \/ stm = "REQUEST_READ" /\ RequestRead(r.q)
    /\ UNCHANGED <<users, clientVars, got>>

(* The stream ended: recv() returns 0.                                     *)
ReadEnd ==
    /\ stm \in ReadStates
    /\ Space(rbuf) > 0 /\ fin /\ taken = Len(said)
    /\ stm' = "CLOSED"
    /\ UNCHANGED <<users, clientVars, got, taken, rbuf, wbuf, p, reply, atHello, atAuth>>

(* Faulty: a refused password is remembered as an accepted one.            *)
FollowingUnchecked ==
    CASE stm = "HELLO_WRITE" /\ p.selected = UserPass -> "AUTH_READ"
      [] stm = "HELLO_WRITE" /\ p.selected = NoAuth   -> "REQUEST_READ"
      [] stm = "AUTH_WRITE"                            -> "REQUEST_READ"
      [] OTHER                                         -> "CLOSED"

(* What follows an answer: hello_on_write_ready(), auth_on_write_ready().  *)
Following ==
    CASE stm = "HELLO_WRITE" /\ p.selected = UserPass -> "AUTH_READ"
      [] stm = "HELLO_WRITE" /\ p.selected = NoAuth   -> "REQUEST_READ"
      [] stm = "AUTH_WRITE" /\ p.ok                   -> "REQUEST_READ"
      [] OTHER                                        -> "CLOSED"

(* Faulty: the first call of send() is taken for the whole answer.         *)
SomeSent(n) == n > 0

AllSent(n) == n = Len(wbuf)

(* The on_arrival of state resets the fields it knows of.                  *)
Arrived(state) ==
    CASE state = "AUTH_READ"    -> [p EXCEPT !.at = "VERSION", !.ok = FALSE]
      [] state = "REQUEST_READ" -> [p EXCEPT !.at = "VERSION"]
      [] OTHER                  -> p

(* A writable descriptor: socks_send() passes n bytes on.                  *)
Write(n) ==
    /\ stm \in WriteStates
    /\ n \in 1 .. Len(wbuf)
    /\ got' = got \o SubSeq(wbuf, 1, n)
    /\ wbuf' = SubSeq(wbuf, n + 1, Len(wbuf))
    /\ IF AllSent(n) THEN stm' = Following /\ p' = Arrived(Following)
       ELSE UNCHANGED <<stm, p>>
    /\ UNCHANGED <<users, clientVars, taken, rbuf, reply, atHello, atAuth>>

(* A failed recv() or send(), the sweep, or a full buffer: socks_recv()    *)
(* then returns -1 and leaves an old errno, so that the handler fails or   *)
(* asks for the same event again.                                          *)
Drop ==
    /\ stm \notin Ends
    /\ stm' = "CLOSED"
    /\ UNCHANGED <<users, clientVars, got, taken, rbuf, wbuf, p, reply, atHello, atAuth>>

(* A command of a monitoring session.                                      *)
Manage == Change /\ UNCHANGED <<clientVars, serverVars>>

Ended == stm \in Ends /\ UNCHANGED vars

Next ==
    \/ Speak \/ Finish \/ Manage \/ ReadEnd \/ Drop \/ Ended
    \/ \E n \in 1 .. Size : Read(n) \/ Write(n)

Spec == Init /\ [][Next]_vars

Serve == ReadEnd \/ \E n \in 1 .. Size : Read(n) \/ Write(n)

(* A client that waits for its turn speaks when it has it, and select()    *)
(* reports what is ready.                                                  *)
FairSpec ==
    /\ Spec
    /\ WF_vars(~client.ahead /\ Speak) /\ WF_vars(~client.ahead /\ Serve)

-----------------------------------------------------------------------------
(* Where the messages end in what the client said, by the grammars of      *)
(* RFC 1928 and RFC 1929 and with no parser: positions of last bytes.      *)

HelloEnd == 2 + said[2]
UlenAt   == HelloEnd + 2
PlenAt   == UlenAt + said[UlenAt] + 1
AuthEnd  == PlenAt + said[PlenAt]

Offered  == {said[i] : i \in 3 .. HelloEnd}
Username == SubSeq(said, UlenAt + 1, PlenAt - 1)
Password == SubSeq(said, PlenAt + 1, AuthEnd)

(* The request follows the hello of a client that need not authenticate.   *)
RequestAt == IF got = <<5, NoAuth>> THEN HelloEnd ELSE AuthEnd

Atyp == said[RequestAt + 4]
AddrEnd ==
    RequestAt + (CASE Atyp = IPv4 -> 8 [] Atyp = IPv6 -> 20
                   [] Atyp = FQDN -> 5 + said[RequestAt + 5])
Addr == SubSeq(said, RequestAt + (IF Atyp = FQDN THEN 6 ELSE 5), AddrEnd)

(* The bytes the parsers used.                                             *)
Used == taken - Count(rbuf)

-----------------------------------------------------------------------------
(* Properties *)

(* Types, and the positions of read_buffer.                                *)
TypeOK ==
    /\ users \in Tables
    /\ rbuf \in Buffers /\ rbuf.read <= rbuf.write
    /\ taken \in 0 .. Len(said)
    /\ stm \in ReadStates \cup WriteStates \cup Ends
    /\ p.left \in 0 .. 255 /\ p.offered \subseteq {NoAuth, UserPass}
    /\ reply \in {NoReply, GeneralFailure, CommandNotSupported}

(* Each parser uses exactly the bytes of its message and takes from them   *)
(* what the message says.                                                  *)
FieldsAreTrue ==
    /\ stm = "HELLO_WRITE" => Used = HelloEnd /\ said[1] = 5
    /\ stm = "AUTH_WRITE" =>
          /\ Used = AuthEnd /\ said[HelloEnd + 1] = 1
          /\ p.uname = Username /\ p.passwd = Password
    /\ stm = "SERVED" =>
          /\ Used = AddrEnd + 2
          /\ SubSeq(said, RequestAt + 1, RequestAt + 3) = <<5, 1, 0>>
          /\ p.addr = Addr
          /\ p.port = SubSeq(said, AddrEnd + 1, AddrEnd + 2)

(* When a handler waits for a message, the client has all the answers      *)
(* before it.                                                              *)
AnswersComeFirst ==
    /\ stm = "HELLO_READ" => got = <<>>
    /\ stm = "AUTH_READ" => got = <<5, UserPass>>
    /\ stm \in {"REQUEST_READ", "REQUEST_WRITE", "SERVED"} =>
          got \in {<<5, NoAuth>>, <<5, UserPass, 1, 0>>}

(* However recv() splits and joins the stream and send() the answers, and  *)
(* however far ahead the client speaks: nothing of the next message is     *)
(* swallowed, nothing of its own is left (hello_feed(), auth_feed(),       *)
(* request_feed() and the loops around them), and no message is awaited    *)
(* before the answer to the one before it was sent                         *)
(* (hello_on_write_ready(), auth_on_write_ready()).                        *)
MessagesAreWhole == TypeOK /\ FieldsAreTrue /\ AnswersComeFirst

(* The method is one the client offered, "no authentication" only while    *)
(* the table is empty, and none only if no other would do.                 *)
MethodIsAcceptable ==
    stm = "HELLO_WRITE" =>
        /\ p.selected \in Offered \cup {NoAcceptable}
        /\ p.selected = NoAuth => ~HasUsers(atHello)
        /\ p.selected = NoAcceptable =>
              UserPass \notin Offered /\ (NoAuth \in Offered => HasUsers(atHello))

(* A request is read only from a client that was let in, and who sends     *)
(* what the table holds is not refused.                                    *)
EntitledOnly ==
    /\ stm = "AUTH_WRITE" =>
        (p.ok <=> Valid(atAuth, CString(Username), CString(Password)))
    /\ stm \in {"REQUEST_READ", "REQUEST_WRITE", "SERVED"} =>
          \/ got = <<5, NoAuth>> /\ NoAuth \in Offered /\ ~HasUsers(atHello)
          \/ /\ got = <<5, UserPass, 1, 0>> /\ UserPass \in Offered
             /\ Valid(atAuth, CString(Username), CString(Password))

(* The table may change between a client's messages: each decision follows *)
(* the table of its own moment, the method when it was offered             *)
(* (hello_on_read_ready(), socks5_has_users()), name and password when     *)
(* they were looked up (socks5_validate_user()), and nobody is served on   *)
(* the strength of any other.                                              *)
OnlyUsersAreServed == MethodIsAcceptable /\ EntitledOnly

(* A client that waits for each answer leaves no byte in read_buffer, so   *)
(* that every recv() has the whole buffer and nothing waits unparsed.      *)
NothingLeftBehind ==
    ~client.ahead /\ stm \notin Ends => Count(rbuf) = 0 /\ Space(rbuf) = Size

(* A client that sends whole messages, one by one, gets to the end of the  *)
(* negotiation, whatever the messages say.                                 *)
Negotiated == ~client.ahead => <>(stm \in Ends)
=============================================================================
