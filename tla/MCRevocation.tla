---------------------------- MODULE MCRevocation ----------------------------
(* Instances of Revocation for TLC: a TCT, a delegation made from it and one *)
(* made from that delegation.                                                *)
EXTENDS Revocation, TLC

CONSTANTS t1, d1, d2

Chain == [d \in Dlg |-> IF d = d1 THEN t1 ELSE d1]

Symmetry == Permutations(Worker) \cup Permutations(Issuer)
=============================================================================
