--------------------------- MODULE MCJwksRefresher ---------------------------
(* Instances of JwksRefresher for TLC.                                       *)
EXTENDS JwksRefresher, TLC

Symmetry == Permutations(Proc) \cup Permutations(Anchor)
              \cup Permutations(Issuer)
==============================================================================
