--------------------------- MODULE MCNegotiation ---------------------------
(* Clients and users for the run of Negotiation.                            *)
EXTENDS Negotiation

AName     == {<<97>>}
APassword == {<<98>>}
MaybeOne  == {<<>>, << [name |-> <<97>>, pass |-> <<98>>] >>}

(* Speaks ahead.  Hellos: one method, both, a wrong version.  The password  *)
(* of the user; another, with a NUL inside the name.  CONNECT to a name,    *)
(* BIND to one, an empty name.                                              *)
Hasty ==
    [ahead    |-> TRUE,
     hellos   |-> {<<5, 1, 0>>, <<5, 2, 0, 2>>, <<4, 1, 0>>},
     auths    |-> {<<1, 1, 97, 1, 98>>, <<1, 3, 97, 0, 97, 1, 99>>},
     requests |-> {<<5, 1, 0, 3, 2, 120, 121, 1, 187>>, <<5, 2, 0, 3, 1, 120, 0, 80>>,
                   <<5, 1, 0, 3, 0, 0, 80>>}]

(* Waits for each answer, and says the other kinds of message, among them   *)
(* one longer than the buffer.                                              *)
Polite ==
    [ahead    |-> FALSE,
     hellos   |-> {<<5, 0>>, <<5, 1, 0>>, <<5, 1, 7>>, <<5, 2, 7, 2>>},
     auths    |-> {<<1, 1, 97, 1, 98>>, <<1, 0, 0>>, <<5, 1>>},
     requests |-> {<<5, 1, 0, 1, 10, 0, 0, 1, 0, 80>>,
                   <<5, 1, 0, 4, 32, 1, 0, 0, 0, 0, 0, 0, 0, 0, 0, 0, 0, 0, 0, 1, 1, 187>>,
                   <<5, 1, 0, 9>>, <<5, 1, 1>>, <<1>>}]

BothKinds == {Hasty, Polite}
=============================================================================
