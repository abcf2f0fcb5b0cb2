------------------------------ MODULE UserSet ------------------------------
(***************************************************************************)
(* What the table of users promises: a set of accounts in which a name     *)
(* belongs to one account.                                                 *)
(***************************************************************************)
CONSTANT Accounts

VARIABLE accounts

Named(n) == {a \in accounts : a.name = n}

Init ==
    /\ accounts \in SUBSET Accounts
    /\ \A a, b \in accounts : a.name = b.name => a = b

Add(a) ==
    /\ Named(a.name) = {}
    /\ accounts' = accounts \cup {a}

Delete(n) ==
    /\ Named(n) # {}
    /\ accounts' = accounts \ Named(n)

Next == \E a \in Accounts : Add(a) \/ Delete(a.name)

Spec == Init /\ [][Next]_accounts
=============================================================================
