----------------------------- MODULE MCTimeouts -----------------------------
(* Values of idle_timeout and symmetry for the run of Timeouts.            *)
EXTENDS Timeouts, TLC

MCTimeouts == {0, 2}
MCSymmetry == Permutations(Conns)
=============================================================================
