----------------------------- MODULE LiveStream -----------------------------
(***************************************************************************)
(* The live stream of one replica: the bus of lib/audit/stream.ts with its *)
(* bounded backlog, the slots of lib/audit/sse-metrics.ts, and the server- *)
(* sent-event streams of GET /api/events/stream.                           *)
(*                                                                         *)
(* The code between two events of the loop runs alone.  GET subscribes,    *)
(* replays and arms its timer in one such turn, which `turn' keeps for the *)
(* stream that is starting; what comes after, publications, heartbeats and *)
(* the ends of connections, comes in any order.  An event is its id.       *)
(* EventIngest publishes an id once, and again when retention has deleted  *)
(* its row and a client sends it once more.                                *)
(***************************************************************************)
EXTENDS Integers, Sequences, FiniteSets, Functions

CONSTANTS
  Stream,        \* connections
  Event,         \* ids
  Filter,        \* what query parameters may ask for: sets of events
  MaxBacklog,    \* config.maxAuditEventsInMemory
  ReplayLimit,   \* the 100 of getBacklog(100)
  Cap,           \* config.maxSseConnections
  NoStream,      \* nobody's turn
  MaxPublished   \* bounds the publications

ASSUME StreamAssumption ==
  /\ IsFiniteSet(Stream)
  /\ NoStream \notin Stream
  /\ Filter \subseteq SUBSET Event
  /\ MaxBacklog \in Nat /\ ReplayLimit \in Nat /\ Cap \in Nat
  /\ MaxPublished \in Nat

VARIABLES
  backlog,        \* EventBus.backlog
  dropped,        \* EventBus.dropped
  slots,          \* __sseOpenCount
  openedTotal,    \* __sseOpenedTotal
  rejectedTotal,  \* __sseRejectedTotal
  stream,
  turn,           \* the stream whose start() runs
  todo,           \* what it has still to replay
  published,      \* history: all publications, in order
  since           \* history: how many came before what a stream is to see

vars == <<backlog, dropped, slots, openedTotal, rejectedTotal, stream, turn,
          todo, published, since>>

-----------------------------------------------------------------------------

New == [at |-> "new", filter |-> {}, sent |-> <<>>, listening |-> FALSE,
        beating |-> FALSE, aborted |-> FALSE]

\* `listening' is a member of EventBus.listeners, `beating' a heartbeat interval
\* and `aborted' req.signal.aborted.  Range(sent) is seenIds.
Streams == [at : {"new", "open", "closed", "rejected"}, filter : SUBSET Event,
            sent : Seq(Event), listening : BOOLEAN, beating : BOOLEAN,
            aborted : BOOLEAN]

IsOpen(s) == stream[s].at = "open"

Init ==
  /\ backlog = <<>> /\ dropped = 0
  /\ slots = 0 /\ openedTotal = 0 /\ rejectedTotal = 0
  /\ stream = [s \in Stream |-> New]
  /\ turn = NoStream /\ todo = <<>>
  /\ published = <<>>
  /\ since = [s \in Stream |-> 0]

-----------------------------------------------------------------------------
(* The bus.                                                                *)

\* backlog.push, and shift when it got too long.
Pushed(q, e) ==
  IF Len(q) + 1 > MaxBacklog THEN Tail(Append(q, e)) ELSE Append(q, e)

\* backlog.slice(-n)
Last(q, n) == SubSeq(q, IF Len(q) > n THEN Len(q) - n + 1 ELSE 1, Len(q))

\* For the mutation runs: seenIds is not consulted.
SendAlways(st, e) ==
  IF e \in st.filter THEN [st EXCEPT !.sent = Append(@, e)] ELSE st

\* matches and sendEvent.
Send(st, e) ==
  IF e \in st.filter /\ e \notin Range(st.sent)
  THEN [st EXCEPT !.sent = Append(@, e)]
  ELSE st

\* eventBus.publish: one turn, whoever is subscribed.
Publish(e) ==
  /\ turn = NoStream
  /\ Len(published) < MaxPublished
  /\ published' = Append(published, e)
  /\ backlog' = Pushed(backlog, e)
  /\ dropped' = IF Len(backlog) + 1 > MaxBacklog THEN dropped + 1 ELSE dropped
  /\ stream' = [s \in Stream |-> IF stream[s].listening THEN Send(stream[s], e)
                                 ELSE stream[s]]
  /\ UNCHANGED <<slots, openedTotal, rejectedTotal, turn, todo, since>>

-----------------------------------------------------------------------------
(* The end of a stream.                                                    *)

\* For the mutation runs: only the socket is closed; the guard is gone.
ClosedKeepsListening(st) == [st EXCEPT !.at = "closed", !.beating = FALSE]
ReleasedAgain(s) == IF slots > 0 THEN slots - 1 ELSE 0

Closed(st) ==
  [st EXCEPT !.at = "closed", !.listening = FALSE, !.beating = FALSE]

\* releaseSseSlot, which cleanup's `closed' flag lets through once.
Released(s) == IF IsOpen(s) /\ slots > 0 THEN slots - 1 ELSE slots

\* cleanup, for a stream that has become st.
Cleanup(s, st) ==
  /\ stream' = [stream EXCEPT ![s] = IF IsOpen(s) THEN Closed(st) ELSE st]
  /\ slots' = Released(s)

Accepted(s) == stream[s].at \in {"open", "closed"}

\* The signal of the request, once; the listener that GET added runs in this
\* turn.  It may come after the consumer's cancel, for a stream that is closed.
Abort(s) ==
  /\ turn = NoStream
  /\ Accepted(s) /\ ~stream[s].aborted
  /\ Cleanup(s, [stream[s] EXCEPT !.aborted = TRUE])
  /\ UNCHANGED <<backlog, dropped, openedTotal, rejectedTotal, turn, todo,
                 published, since>>

\* cancel() of the body; a stream that ctrl.close has closed does not call it.
Cancel(s) ==
  /\ turn = NoStream
  /\ IsOpen(s)
  /\ Cleanup(s, stream[s])
  /\ UNCHANGED <<backlog, dropped, openedTotal, rejectedTotal, turn, todo,
                 published, since>>

\* For the mutation runs: the tick looks at the controller alone.
NeverFindsAbort(s) == FALSE

\* A heartbeat that finds the request aborted.  That happens only if it was
\* before GET ran, since the listener is not told then.  Other ticks write a
\* comment frame.
FindsAbort(s) == stream[s].beating /\ stream[s].aborted

Heartbeat(s) ==
  /\ turn = NoStream
  /\ FindsAbort(s)
  /\ Cleanup(s, stream[s])
  /\ UNCHANGED <<backlog, dropped, openedTotal, rejectedTotal, turn, todo,
                 published, since>>

-----------------------------------------------------------------------------
(* GET /api/events/stream.                                                 *)

HasRoom == slots < Cap

\* 503 SSE_CAPACITY.
Reject(s) ==
  /\ turn = NoStream
  /\ stream[s].at = "new"
  /\ ~HasRoom
  /\ stream' = [stream EXCEPT ![s].at = "rejected"]
  /\ rejectedTotal' = rejectedTotal + 1
  /\ UNCHANGED <<backlog, dropped, slots, openedTotal, turn, todo, published,
                 since>>

\* Publications a new subscriber has missed for good.
Missed == LET kept == IF MaxBacklog < ReplayLimit THEN MaxBacklog ELSE ReplayLimit
          IN  IF Len(published) > kept THEN Len(published) - kept ELSE 0

\* The slot, the subscription and the backlog as it is now.
Connect(s, filter, aborted) ==
  /\ turn = NoStream
  /\ stream[s].at = "new"
  /\ HasRoom
  /\ slots' = slots + 1
  /\ openedTotal' = openedTotal + 1
  /\ stream' = [stream EXCEPT ![s] =
                   [at |-> "open", filter |-> filter, sent |-> <<>>,
                    listening |-> TRUE, beating |-> FALSE, aborted |-> aborted]]
  /\ turn' = s
  /\ todo' = Last(backlog, ReplayLimit)
  /\ since' = [since EXCEPT ![s] = Missed]
  /\ UNCHANGED <<backlog, dropped, rejectedTotal, published>>

\* One iteration of the replay.
Replay(s) ==
  /\ turn = s
  /\ todo # <<>>
  /\ stream' = [stream EXCEPT ![s] = Send(@, Head(todo))]
  /\ todo' = Tail(todo)
  /\ UNCHANGED <<backlog, dropped, slots, openedTotal, rejectedTotal, turn,
                 published, since>>

\* Nothing was buffered, for nothing else ran; the interval and the abort
\* listener are set, and the Response is returned.
Started(s) ==
  /\ turn = s
  /\ todo = <<>>
  /\ stream' = [stream EXCEPT ![s].beating = TRUE]
  /\ turn' = NoStream
  /\ UNCHANGED <<backlog, dropped, slots, openedTotal, rejectedTotal, todo,
                 published, since>>

Next ==
  \/ \E e \in Event : Publish(e)
  \/ \E s \in Stream :
       \/ \E filter \in Filter, aborted \in BOOLEAN : Connect(s, filter, aborted)
       \/ Reject(s) \/ Replay(s) \/ Started(s)
       \/ Abort(s) \/ Cancel(s) \/ Heartbeat(s)

Spec == Init /\ [][Next]_vars

\* start() runs to its end, and an interval that is set fires.
Fairness == \A s \in Stream : /\ WF_vars(Replay(s)) /\ WF_vars(Started(s))
                              /\ WF_vars(Heartbeat(s))
FairSpec == Spec /\ Fairness

-----------------------------------------------------------------------------
(* Properties.                                                             *)

TypeOK ==
  /\ backlog \in Seq(Event) /\ dropped \in Nat
  /\ slots \in Nat /\ openedTotal \in Nat /\ rejectedTotal \in Nat
  /\ stream \in [Stream -> Streams]
  /\ turn \in Stream \cup {NoStream} /\ todo \in Seq(Event)
  /\ published \in Seq(Event)
  /\ since \in [Stream -> Nat]

\* st has been sent, of the publications p[from+1], ..., p[to], those that its
\* filter admits: every one, once, in the order they were first published in.
SentExactly(st, p, from, to) ==
  /\ Range(st.sent) = {p[i] : i \in from+1..to} \cap st.filter
  /\ \A i, j \in DOMAIN st.sent :
       i < j => \E k \in from+1..to :
                  /\ p[k] = st.sent[i]
                  /\ \A m \in from+1..k : p[m] # st.sent[j]

(***************************************************************************)
(* A subscriber sees the last events of the backlog when it connects and   *)
(* all that are published from then on: none twice, none missed between    *)
(* replay and subscription, and in order (route.ts, start).  This also     *)
(* says that the bus keeps the latest events (EventBus.publish).           *)
(***************************************************************************)
FeedIsExact ==
  \A s \in Stream :
    IsOpen(s) /\ turn # s =>
      SentExactly(stream[s], published, since[s], Len(published))

With(at) == {s \in Stream : stream[s].at = at}

(***************************************************************************)
(* A slot is held by exactly the streams that are open, of which there are *)
(* no more than the cap; it goes with the subscription and, once started,  *)
(* the timer; and the metrics agree with it: cleanup runs for each of the  *)
(* signals that end a stream and takes effect once.                        *)
(***************************************************************************)
SlotsAreOpenStreams ==
  /\ slots = Cardinality(With("open")) /\ slots <= Cap
  /\ \A s \in Stream : /\ stream[s].listening <=> IsOpen(s)
                       /\ stream[s].beating <=> IsOpen(s) /\ turn # s
  /\ openedTotal = slots + Cardinality(With("closed"))
  /\ rejectedTotal = Cardinality(With("rejected"))

(***************************************************************************)
(* Nothing is written to a stream that has ended, and it does not open     *)
(* again (the unsubscribe in cleanup).                                     *)
(***************************************************************************)
ClosedIsSilent ==
  [][\A s \in Stream : stream[s].at \in {"closed", "rejected"} =>
       stream'[s].at = stream[s].at /\ stream'[s].sent = stream[s].sent]_vars

(***************************************************************************)
(* A client that went away gives its slot back, even if it went before GET *)
(* ran and no signal comes any more (the test of req.signal.aborted in the *)
(* heartbeat).                                                             *)
(***************************************************************************)
AbortedIsReleased ==
  \A s \in Stream : stream[s].aborted ~> ~IsOpen(s)
=============================================================================
