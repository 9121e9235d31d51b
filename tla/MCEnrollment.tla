---------------------------- MODULE MCEnrollment ----------------------------
(* Instances of Enrollment for TLC: an agent with a manifest that expires,   *)
(* one that does not, and one from before the cutover.                       *)
EXTENDS Enrollment, TLC

CONSTANTS a1, m1, m2, m3

OneAgent == [m \in Manifest |-> a1]
FirstExpires == [m \in Manifest |-> IF m = m1 THEN 3 ELSE NoExpiry]

Symmetry == Permutations(Jti) \cup Permutations(Request) \cup Permutations(Sweeper)
=============================================================================
