---------------------------- MODULE MCRetention ----------------------------
(***************************************************************************)
(* Two files, and two sweeps that overlap.                                 *)
(***************************************************************************)
EXTENDS Retention

TwoFiles == {"f1", "f2"}
TwoSweeps == {"s1", "s2"}
=============================================================================
