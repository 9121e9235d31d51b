--------------------------- MODULE MCEventIngest ---------------------------
(* Instances of EventIngest for TLC: the log of one session, an item twice,  *)
(* and another end of that session on its own.                              *)
EXTENDS EventIngest, TLC

CONSTANTS start, end, fail

Types == [e \in Event |-> CASE e = start -> "started"
                            [] e = end -> "complete"
                            [] OTHER -> "failed"]
OneSession == [e \in Event |-> CHOOSE s \in Sid : TRUE]

Logs == {<<fail>>, <<start, end, start>>}

Symmetry == Permutations(Request)
=============================================================================
