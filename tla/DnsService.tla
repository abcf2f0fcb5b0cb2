----------------------------- MODULE DnsService -----------------------------
(***************************************************************************)
(* What name resolution promises a connection: a job is submitted for a    *)
(* connection that exists, is answered once, is consumed once, and from    *)
(* submission to consumption the structure the worker writes to stays      *)
(* allocated to that connection.                                           *)
(***************************************************************************)
CONSTANT Conn

VARIABLES
    held,   \* the structures in use by a connection
    job     \* the state of each structure's job

svcVars == <<held, job>>

Init == held = {} /\ job = [c \in Conn |-> "none"]

(* A connection takes a structure nobody uses.                             *)
Take(c) == c \notin held /\ held' = held \cup {c} /\ UNCHANGED job

Move(c, from, to) ==
    /\ c \in held /\ job[c] = from
    /\ job' = [job EXCEPT ![c] = to]
    /\ UNCHANGED held

Submit(c)  == Move(c, "none", "pending")
Respond(c) == Move(c, "pending", "answered")
Consume(c) == Move(c, "answered", "none")

(* A job that could not be started is answered at once.                    *)
Refuse(c)  == Move(c, "none", "answered")

(* The structure goes back only without a job.                             *)
GiveBack(c) ==
    /\ c \in held /\ job[c] = "none"
    /\ held' = held \ {c}
    /\ UNCHANGED job

Next == \E c \in Conn :
    Take(c) \/ Submit(c) \/ Respond(c) \/ Consume(c) \/ Refuse(c) \/ GiveBack(c)

Spec == Init /\ [][Next]_svcVars
=============================================================================
