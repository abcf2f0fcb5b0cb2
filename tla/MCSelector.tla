----------------------------- MODULE MCSelector -----------------------------
(* Instances of Selector for TLC.                                          *)
EXTENDS Selector, TLC

MCCopyInterests == {<<{"r"}, {"r", "w"}>>, <<{"w"}, {"r"}>>}
MCNumbers == 0 .. 5
Symmetry == Permutations(Conns)
=============================================================================
