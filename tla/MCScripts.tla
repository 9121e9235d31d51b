----------------------------- MODULE MCScripts -----------------------------
(* The three models of the harnesses under scripts/, side by side: every   *)
(* behaviour is one of one of them, chosen at the start.  They share no    *)
(* state, so that each is checked as if it were alone.                     *)
EXTENDS ImagePins, Teardown, StreamClient

VARIABLE program   \* "teardown", "pins" or "client"

-----------------------------------------------------------------------------
(* Both harnesses' teardown, with the steps of their plans that differ in  *)
(* kind.                                                                   *)
MCPlan == [image |-> <<"probe", "extract", "extract", "net", "pg", "migrate">>,
           sse   |-> <<"app", "stream">>]

-----------------------------------------------------------------------------
(* Chunked answers that end well, with a trailer field and with garbage;   *)
(* frames within, across and at the edge of writes; the other framings;    *)
(* and something that is not HTTP.                                         *)
MCByte == {"0", "1", "2", "3", "4", "5", "6", "h", "n", "r", "x"}
MCSizeLine == [k \in 0..6 |-> <<ToString(k)>>]

Ended == <<"0", "r", "n", "r", "n">>
Chunked(writes, tail) ==
  [head |-> <<"h", "r", "n", "r", "n">>, framing |-> "chunked",
   writes |-> writes, tail |-> tail, broken |-> FALSE]

MCResponses ==
  LET frames == << <<"x", "n">>, <<"n", "x", "n", "n", "x">> >>
      first == <<frames[1]>>
      one == Chunked(<< <<"x", "n", "n">> >>, <<>>)
  IN {Chunked(frames, Ended), Chunked(frames, <<"x", "r", "n">>),
      Chunked(first, <<"0", "r", "n", "x", "r", "n", "r", "n">>),
      [Chunked(frames, Ended) EXCEPT !.broken = TRUE],
      Chunked(first, <<"x", "x", "x", "x">>),
      [one EXCEPT !.framing = "length"], [one EXCEPT !.framing = "none"],
      [one EXCEPT !.framing = "none", !.head = <<"x", "h", "r", "n", "r", "n">>],
      [one EXCEPT !.framing = "none", !.head = <<"h", "h", "h", "h", "h", "h", "h">>]}

-----------------------------------------------------------------------------
(* For the pins: one static route, one dynamic route of which the probe    *)
(* samples one path and never the other, one public route; the reviewed    *)
(* image, and images that differ from it in one or two ways, among them    *)
(* one with a table entry that leads nowhere new and one with one that may.*)
MCPath == {"audit", "agent/a", "agent/1", "health"}
MCRoute == {"audit", "agent", "health"}
MCInstance == [audit |-> {"audit"}, agent |-> {"agent/a", "agent/1"}, health |-> {"health"}]
MCSample == [audit |-> "audit", agent |-> "agent/a", health |-> "health"]

MCReviewed ==
  [intact |-> TRUE, externals |-> {"otel", "napi"}, routes |-> MCRoute,
   matchers |-> {MCPath}, conditional |-> {}, manifest |-> {},
   rewrites |-> {"external"},
   tables |-> {[table |-> "dynamicRoutes", page |-> "agent"]},
   gate |-> "reviewed", boot |-> "b0"]

Narrow == {{"audit", "agent/a", "health"}}

MCImages ==
  {MCReviewed,
   [MCReviewed EXCEPT !.externals = {"napi"}],
   [MCReviewed EXCEPT !.intact = FALSE],
   [MCReviewed EXCEPT !.routes = {"audit", "health"}],
   [MCReviewed EXCEPT !.matchers = Narrow],
   [MCReviewed EXCEPT !.matchers = Narrow, !.rewrites = {"agent/1"}],
   [MCReviewed EXCEPT !.matchers = {{"audit", "health"}}],
   [MCReviewed EXCEPT !.conditional = {MCPath}],
   [MCReviewed EXCEPT !.manifest = {{"audit", "health"}}],
   [MCReviewed EXCEPT !.rewrites = {"external", "captures"}],
   [MCReviewed EXCEPT !.rewrites = {"external", "agent/a"}],
   [MCReviewed EXCEPT !.tables = @ \cup {[table |-> "staticRoutes", page |-> "agent"]}],
   [MCReviewed EXCEPT !.tables = @ \cup {[table |-> "dataRoutes", page |-> "agent"]}],
   [MCReviewed EXCEPT !.boot = "b1"],
   [MCReviewed EXCEPT !.gate = "edited", !.boot = "b1"],
   [MCReviewed EXCEPT !.gate = "unreadable", !.boot = "b1"]}

-----------------------------------------------------------------------------
ScriptsInit ==
  /\ program \in {"teardown", "pins", "client"}
  /\ Init
  /\ TeardownInit /\ (program # "teardown" => script = "sse" /\ ~keep)
  /\ StreamInit /\ (program # "client" => response = CHOOSE r \in MCResponses : TRUE)

ScriptsNext ==
  \/ program = "teardown" /\ TeardownNext /\ UNCHANGED <<program, vars, streamVars>>
  \/ program = "pins" /\ Next /\ UNCHANGED <<program, teardownVars, streamVars>>
  \/ program = "client" /\ StreamNext /\ UNCHANGED <<program, vars, teardownVars>>

ScriptsSpec == ScriptsInit /\ [][ScriptsNext]_<<program, vars, teardownVars, streamVars>>
=============================================================================
