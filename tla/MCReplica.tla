----------------------------- MODULE MCReplica ------------------------------
(* Instances of Replica for TLC: a key that may post events, and no token.   *)
EXTENDS Replica

CONSTANTS k1

Limits   == [n \in BucketName |-> CASE n = "public-ip" -> 0
                                  [] n = "enroll-ip" -> 1
                                  [] OTHER           -> 2]
Prefixed == [t \in {k1} |-> t]
=============================================================================
