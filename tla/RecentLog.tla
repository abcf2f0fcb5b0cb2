----------------------------- MODULE RecentLog -----------------------------
(***************************************************************************)
(* What GET_LOG promises (SPEC.md, 6.6 and the table of limits): the most  *)
(* recent lines, in the order in which they were written, N at most.  A    *)
(* process that starts again has none.                                     *)
(***************************************************************************)
EXTENDS Naturals, Sequences

CONSTANTS N, Lines

VARIABLE recent

Init == recent = <<>>

Add(line) ==
    recent' = IF Len(recent) < N THEN Append(recent, line)
              ELSE Append(Tail(recent), line)

Forget == recent' = <<>>

Next == Forget \/ \E line \in Lines : Add(line)

Spec == Init /\ [][Next]_recent
=============================================================================
