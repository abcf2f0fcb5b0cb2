--------------------------- MODULE RemoteCommands ---------------------------
(***************************************************************************)
(* What the monitoring client and the server promise together: a command   *)
(* acts on the set of accounts at one moment, once at most, and a client   *)
(* that is told an outcome is told the one of that moment.  A client that  *)
(* gives up does not know whether its command was performed.  Others may   *)
(* change the accounts too.                                                *)
(***************************************************************************)
EXTENDS Naturals, FiniteSets

CONSTANTS
    Clients,
    Assignments,  \* what the clients may be asked for
    Starts,       \* the accounts there may be at first
    MaxAccounts

VARIABLES accounts, command, phase, outcome

vars == <<accounts, command, phase, outcome>>

Named(n) == {a \in accounts : a.name = n}

Init ==
    /\ accounts \in Starts
    /\ command \in Assignments
    /\ phase = [c \in Clients |-> "asked"]
    /\ outcome = [c \in Clients |-> [how |-> "unknown", names |-> {}]]

(* What a client will be told: how it went, and the names it asked for.    *)
Learns(c, how, names) ==
    /\ outcome' = [outcome EXCEPT ![c] = [how |-> how, names |-> names]]
    /\ phase' = [phase EXCEPT ![c] = "performed"]
    /\ UNCHANGED command

Add(c, a) ==
    \/ Named(a.name) # {} /\ Learns(c, "taken", {}) /\ UNCHANGED accounts
    \/ /\ Named(a.name) = {} /\ Cardinality(accounts) = MaxAccounts
       /\ Learns(c, "full", {}) /\ UNCHANGED accounts
    \/ /\ Named(a.name) = {} /\ Cardinality(accounts) < MaxAccounts
       /\ Learns(c, "ok", {}) /\ accounts' = accounts \cup {a}

Delete(c, n) ==
    \/ Named(n) = {} /\ Learns(c, "missing", {}) /\ UNCHANGED accounts
    \/ Named(n) # {} /\ Learns(c, "ok", {}) /\ accounts' = accounts \ Named(n)

List(c) == Learns(c, "ok", {a.name : a \in accounts}) /\ UNCHANGED accounts

(* The commands that leave the accounts alone.                             *)
Other(c) == Learns(c, "ok", {}) /\ UNCHANGED accounts

Perform(c) ==
    /\ phase[c] = "asked"
    /\ LET k == command[c]
       IN  \/ k.do = "add-user" /\ Add(c, k.account)
           \/ k.do = "del-user" /\ Delete(c, k.account.name)
           \/ k.do = "users"    /\ List(c)
           \/ k.do \in {"stats", "set-timeout", "log"} /\ Other(c)

Tell(c) ==
    /\ phase[c] = "performed"
    /\ phase' = [phase EXCEPT ![c] = "told"]
    /\ UNCHANGED <<accounts, command, outcome>>

GiveUp(c) ==
    /\ phase[c] \in {"asked", "performed"}
    /\ phase' = [phase EXCEPT ![c] = "gaveUp"]
    /\ UNCHANGED <<accounts, command, outcome>>

(* Somebody else adds or deletes an account.                               *)
OthersChange ==
    /\ \/ \E a \in accounts' \ accounts :
              /\ Named(a.name) = {} /\ Cardinality(accounts) < MaxAccounts
              /\ accounts' = accounts \cup {a}
       \/ \E a \in accounts : accounts' = accounts \ {a}
    /\ UNCHANGED <<command, phase, outcome>>

Next ==
    \/ OthersChange
    \/ \E c \in Clients : Perform(c) \/ Tell(c) \/ GiveUp(c)

Spec == Init /\ [][Next]_vars
=============================================================================
