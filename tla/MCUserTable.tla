---------------------------- MODULE MCUserTable ----------------------------
(* Command lines for the runs of UserTable.                                 *)
EXTENDS UserTable

Short == UNION {[1 .. n -> Accounts] : n \in 0 .. 2}

(* Every -u option names somebody else.                                     *)
Distinct == {c \in Short : \A i, j \in DOMAIN c : c[i].name = c[j].name => i = j}
=============================================================================
