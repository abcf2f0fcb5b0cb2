---------------------------- MODULE MCAccessLog ----------------------------
(* Instances of AccessLog for TLC: a ring of three places, lines that fit  *)
(* and lines that do not.                                                  *)
EXTENDS AccessLog

MCNames == {0, 255}
MCTargets == {261}
=============================================================================
