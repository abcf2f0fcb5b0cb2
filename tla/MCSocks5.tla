------------------------------ MODULE MCSocks5 ------------------------------
(* Instances of Socks5 for TLC.  The symmetry is sound for the safety run:  *)
(* no definition distinguishes connections or descriptor numbers.           *)
EXTENDS Socks5, TLC

Symmetry == Permutations(Conn) \cup Permutations(Fd)
=============================================================================
