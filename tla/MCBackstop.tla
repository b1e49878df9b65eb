----------------------------- MODULE MCBackstop -----------------------------
(***************************************************************************)
(* An instance of the Backstop for TLC: two depositors, two pools.         *)
(***************************************************************************)
EXTENDS Backstop, TLC

CONSTANTS u1, u2, p0, p1

MCEndowment == [u \in Users |-> IF u = u1 THEN 3 ELSE 1]
=============================================================================
