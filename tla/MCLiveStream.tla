---------------------------- MODULE MCLiveStream ----------------------------
(* Instances of LiveStream for TLC: no query parameter, or one that a single *)
(* event matches.                                                            *)
EXTENDS LiveStream

CONSTANTS e1, e2

AllEvents == {e1, e2}
Filters   == {AllEvents, {e1}}
=============================================================================
