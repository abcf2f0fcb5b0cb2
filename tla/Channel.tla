------------------------------ MODULE Channel ------------------------------
(***************************************************************************)
(* What the relay promises in each direction: bytes come out in the order  *)
(* they went in, none is lost, and the end of the stream is announced only *)
(* after all of them.                                                      *)
(***************************************************************************)
EXTENDS Naturals, Sequences

VARIABLES
    put,        \* how many bytes the source has sent: 1 .. put
    ended,      \* the source has ended its stream
    got,        \* the bytes the sink has received
    announced   \* the end was announced to the sink

channelVars == <<put, ended, got, announced>>

Init == put \in Nat /\ ended = FALSE /\ got = <<>> /\ announced = FALSE

Put == ~ended /\ put' = put + 1 /\ UNCHANGED <<ended, got, announced>>

End == ~ended /\ ended' = TRUE /\ UNCHANGED <<put, got, announced>>

(* The sink receives the next n bytes, and perhaps the end with the last.  *)
Get(n) ==
    /\ Len(got) + n <= put
    /\ got' = got \o [i \in 1 .. n |-> Len(got) + i]
    /\ announced' \in {announced, ended /\ Len(got) + n = put}
    /\ ~announced
    /\ UNCHANGED <<put, ended>>

Next == Put \/ End \/ \E n \in 0 .. put : Get(n)

Spec == Init /\ [][Next]_channelVars
=============================================================================
