---------------------------- MODULE MCMngClient ----------------------------
(* The peers, the accounts and the worlds for the run of MngClient.         *)
EXTENDS MngClient

A == <<97>>
B == <<98>>

NoUsers == {<<>>}

Admin == [name |-> A, pass |-> <<>>]
Other == [name |-> B, pass |-> <<>>]
Root  == {Admin}

AWorld    == [hist |-> 257, curr |-> 1, sent |-> 0, recv |-> 65536, log |-> <<>>]
Later     == [hist |-> 258, curr |-> 2, sent |-> 1, recv |-> 65537,
              log |-> << <<76, 79>>, <<>> >>]
TwoWorlds == {AWorld, Later}

Nobody == [name |-> <<>>, pass |-> <<>>]

As(cred, do, account) ==
    [do |-> do, account |-> account, seconds |-> 300, cred |-> cred, words |-> <<>>]
Do(do, account) == As(Admin, do, account)
Say(words) ==
    [do |-> "speak", account |-> Nobody, seconds |-> 0, cred |-> Nobody, words |-> words]

AddA  == Do("add-user", [name |-> A, pass |-> A])
AddB  == Do("add-user", [name |-> B, pass |-> <<>>])
DelA  == Do("del-user", [name |-> A, pass |-> <<>>])
Users == Do("users", Nobody)

Others == {Do("unknown", Nobody), Do("stats", Nobody), Do("log", Nobody),
           Do("set-timeout", Nobody), As(Other, "add-user", [name |-> A, pass |-> A])}

Hello == <<1, 1, 97, 0>>

(* The administrator adds a user and lists; adds the same one, which        *)
(* another peer may have done, and deletes it; sends a command that is not  *)
(* known.  Somebody with the wrong credential or the wrong version goes on  *)
(* as if admitted.  The other commands, empty strings, a NUL in the name.   *)
Scripts ==
    {Say(w) : w \in {Hello \o <<1, 1, 97, 1, 98>> \o <<3>>,
                     Hello \o <<1, 1, 97, 0>> \o <<2, 1, 97>> \o <<7>>,
                     Hello \o <<9>> \o <<3>>,
                     <<1, 0, 1, 98>> \o <<1, 0, 0>>,
                     <<5>> \o Hello,
                     <<1, 2, 97, 0, 0>> \o <<5, 0, 0, 1, 44>> \o <<4>>,
                     Hello \o <<6>> \o <<1, 0, 0>> \o <<2, 0>> \o <<2, 0>>}}

Mute    == Say(<<>>)
Absent  == [Mute EXCEPT !.do = "absent"]
Browser == [Mute EXCEPT !.do = "browse"]

(* Two clients; one, and somebody who adds an account meanwhile; a client   *)
(* or somebody else while the proxy is used; three peers for two sessions.  *)
MCCasts ==
    {<<AddA, AddA, Absent>>, <<AddA, AddB, Absent>>, <<AddA, DelA, Absent>>,
     <<AddA, Users, Absent>>, <<DelA, Users, Absent>>,
     <<DelA, Say(Hello \o <<1, 1, 97, 0>>), Absent>>,
     <<Users, Mute, Mute>>}
    \cup {<<k, Browser, Absent>> : k \in Others \cup Scripts}
=============================================================================
