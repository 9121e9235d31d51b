-------------------------- MODULE LiveStreamProofs --------------------------
(***************************************************************************)
(* Theorems about LiveStream for any number of streams, events and         *)
(* publications and any limits.  The feed of a subscriber rests on two     *)
(* facts: the backlog is the end of what was published, and so is what a   *)
(* starting stream has still to replay.                                    *)
(***************************************************************************)
EXTENDS LiveStream, TLAPS, FiniteSetTheorems

USE StreamAssumption

-----------------------------------------------------------------------------
(* Types.                                                                  *)

LEMMA SendType ==
  ASSUME NEW st \in Streams, NEW e \in Event
  PROVE  /\ Send(st, e) \in Streams
         /\ Send(st, e).at = st.at
         /\ Send(st, e).filter = st.filter
         /\ Send(st, e).listening = st.listening
         /\ Send(st, e).beating = st.beating
<1> DEFINE t == [st EXCEPT !.sent = Append(st.sent, e)]
<1>1. Append(st.sent, e) \in Seq(Event)
  BY DEF Streams
<1>2. t \in Streams
  BY <1>1 DEF Streams
<1>3. /\ t.at = st.at /\ t.filter = st.filter
      /\ t.listening = st.listening /\ t.beating = st.beating
  BY DEF Streams
<1>4. Send(st, e) = t \/ Send(st, e) = st
  BY DEF Send
<1> HIDE DEF t
<1> QED
  BY <1>2, <1>3, <1>4

LEMMA ClosedType ==
  ASSUME NEW st \in Streams
  PROVE  /\ Closed(st) \in Streams
         /\ Closed(st).at = "closed"
         /\ Closed(st).sent = st.sent
         /\ ~Closed(st).listening
         /\ ~Closed(st).beating
BY DEF Closed, Streams

LEMMA FieldType ==
  ASSUME NEW st \in Streams
  PROVE  /\ [st EXCEPT !.aborted = TRUE] \in Streams
         /\ [st EXCEPT !.beating = TRUE] \in Streams
         /\ [st EXCEPT !.at = "rejected"] \in Streams
BY DEF Streams

\* What a push keeps of the backlog.
LEMMA PushedType ==
  ASSUME NEW q \in Seq(Event), NEW e \in Event
  PROVE  /\ Pushed(q, e) \in Seq(Event)
         /\ Len(q) + 1 > MaxBacklog =>
              /\ Len(Pushed(q, e)) = Len(q)
              /\ \A i \in 1..Len(q) : Pushed(q, e)[i] = Append(q, e)[i+1]
         /\ ~(Len(q) + 1 > MaxBacklog) => Pushed(q, e) = Append(q, e)
<1>1. /\ Append(q, e) \in Seq(Event) /\ Len(Append(q, e)) = Len(q) + 1
      /\ Append(q, e) # <<>>
  OBVIOUS
<1>2. /\ Tail(Append(q, e)) \in Seq(Event)
      /\ Len(Tail(Append(q, e))) = Len(q)
      /\ \A i \in 1..Len(q) : Tail(Append(q, e))[i] = Append(q, e)[i+1]
  BY <1>1
<1>3. QED
  BY <1>1, <1>2 DEF Pushed

\* The last n of a backlog, or all of it.
LEMMA LastType ==
  ASSUME NEW q \in Seq(Event), NEW n \in Nat
  PROVE  /\ Last(q, n) \in Seq(Event)
         /\ Len(Last(q, n)) = IF Len(q) > n THEN n ELSE Len(q)
         /\ \A i \in 1..Len(Last(q, n)) :
              Last(q, n)[i] = q[Len(q) - Len(Last(q, n)) + i]
<1>1. CASE Len(q) > n
  <2>1. Last(q, n) = SubSeq(q, Len(q) - n + 1, Len(q))
    BY <1>1 DEF Last
  <2>2. QED
    BY <1>1, <2>1
<1>2. CASE ~(Len(q) > n)
  <2>1. Last(q, n) = SubSeq(q, 1, Len(q))
    BY <1>2 DEF Last
  <2>2. Len(SubSeq(q, 1, Len(q))) = Len(q) /\ SubSeq(q, 1, Len(q)) \in Seq(Event)
    OBVIOUS
  <2>3. \A i \in 1..Len(q) : SubSeq(q, 1, Len(q))[i] = q[i]
    OBVIOUS
  <2>4. \A i \in 1..Len(q) : Len(q) - Len(q) + i = i
    OBVIOUS
  <2>5. Len(Last(q, n)) = Len(q) /\ (IF Len(q) > n THEN n ELSE Len(q)) = Len(q)
    BY <1>2, <2>1, <2>2
  <2>6. \A i \in 1..Len(Last(q, n)) :
          Last(q, n)[i] = q[Len(q) - Len(Last(q, n)) + i]
    <3> SUFFICES ASSUME NEW i \in 1..Len(q)
                 PROVE  Last(q, n)[i] = q[Len(q) - Len(q) + i]
      BY <2>5
    <3>1. Last(q, n)[i] = q[i]
      BY <2>1, <2>3
    <3>2. QED
      BY <2>4, <3>1
  <2>7. QED
    BY <2>1, <2>2, <2>5, <2>6
<1>3. QED
  BY <1>1, <1>2

LEMMA InitType == Init => TypeOK
BY DEF Init, TypeOK, New, Streams

LEMMA CleanupType ==
  ASSUME TypeOK, NEW s \in Stream, NEW st \in Streams, Cleanup(s, st)
  PROVE  stream' \in [Stream -> Streams] /\ slots' \in Nat
BY ClosedType DEF Cleanup, Released, TypeOK

LEMMA NextType == TypeOK /\ [Next]_vars => TypeOK'
<1> SUFFICES ASSUME TypeOK, [Next]_vars PROVE TypeOK'
  OBVIOUS
<1>1. ASSUME NEW e \in Event, Publish(e) PROVE TypeOK'
  <2>1. stream' \in [Stream -> Streams]
    <3>1. \A s \in Stream : stream[s] \in Streams
      BY DEF TypeOK
    <3>2. \A s \in Stream : Send(stream[s], e) \in Streams
      BY <3>1, SendType
    <3>3. QED
      BY <1>1, <3>1, <3>2 DEF Publish
  <2>2. backlog' \in Seq(Event) /\ published' \in Seq(Event)
    BY <1>1, PushedType DEF TypeOK, Publish
  <2>3. QED
    BY <1>1, <2>1, <2>2 DEF TypeOK, Publish
<1>2. ASSUME NEW s \in Stream, NEW filter \in Filter, NEW aborted \in BOOLEAN,
             Connect(s, filter, aborted)
      PROVE TypeOK'
  <2>1. stream' \in [Stream -> Streams]
    <3>1. [at |-> "open", filter |-> filter, sent |-> <<>>, listening |-> TRUE,
           beating |-> FALSE, aborted |-> aborted] \in Streams
      BY DEF Streams
    <3>2. QED
      BY <1>2, <3>1 DEF TypeOK, Connect
  <2>2. todo' \in Seq(Event)
    BY <1>2, LastType DEF TypeOK, Connect
  <2>3. since' \in [Stream -> Nat]
    BY <1>2 DEF TypeOK, Connect, Missed
  <2>4. QED
    BY <1>2, <2>1, <2>2, <2>3 DEF TypeOK, Connect
<1>3. ASSUME NEW s \in Stream, Reject(s) PROVE TypeOK'
  <2>1. stream' \in [Stream -> Streams]
    BY <1>3, FieldType DEF TypeOK, Reject
  <2>2. QED
    BY <1>3, <2>1 DEF TypeOK, Reject
<1>4. ASSUME NEW s \in Stream, Replay(s) PROVE TypeOK'
  <2>1. Head(todo) \in Event /\ Tail(todo) \in Seq(Event)
    BY <1>4 DEF TypeOK, Replay
  <2>2. stream' \in [Stream -> Streams]
    BY <1>4, <2>1, SendType DEF TypeOK, Replay
  <2>3. QED
    BY <1>4, <2>1, <2>2 DEF TypeOK, Replay
<1>5. ASSUME NEW s \in Stream, Started(s) PROVE TypeOK'
  <2>1. stream' \in [Stream -> Streams]
    BY <1>5, FieldType DEF TypeOK, Started
  <2>2. QED
    BY <1>5, <2>1 DEF TypeOK, Started
<1>6. ASSUME NEW s \in Stream, Abort(s) PROVE TypeOK'
  <2>1. [stream[s] EXCEPT !.aborted = TRUE] \in Streams
    BY FieldType DEF TypeOK
  <2>2. QED
    BY <1>6, <2>1, CleanupType DEF TypeOK, Abort
<1>7. ASSUME NEW s \in Stream, Cancel(s) \/ Heartbeat(s) PROVE TypeOK'
  <2>1. stream[s] \in Streams
    BY DEF TypeOK
  <2>2. QED
    BY <1>7, <2>1, CleanupType DEF TypeOK, Cancel, Heartbeat
<1>8. CASE UNCHANGED vars
  BY <1>8 DEF TypeOK, vars
<1>9. QED
  BY <1>1, <1>2, <1>3, <1>4, <1>5, <1>6, <1>7, <1>8 DEF Next

(***************************************************************************)
(* The variables have their types.                                         *)
(***************************************************************************)
THEOREM TypeCorrect == Spec => []TypeOK
BY InitType, NextType, PTL DEF Spec

-----------------------------------------------------------------------------
(* Slots.                                                                  *)

LEMMA WithIsFinite ==
  ASSUME NEW c
  PROVE  IsFiniteSet(With(c)) /\ Cardinality(With(c)) \in Nat
<1>1. With(c) \subseteq Stream
  BY DEF With
<1>2. QED
  BY <1>1, FS_Subset, FS_CardinalityType

LEMMA NobodyMoves ==
  ASSUME \A t \in Stream : stream'[t].at = stream[t].at, NEW c
  PROVE  With(c)' = With(c)
BY DEF With

LEMMA OneMoves ==
  ASSUME NEW s \in Stream, NEW a, NEW b, a # b,
         stream[s].at = a, stream'[s].at = b,
         \A t \in Stream \ {s} : stream'[t].at = stream[t].at
  PROVE  /\ Cardinality(With(a)') = Cardinality(With(a)) - 1
         /\ Cardinality(With(b)') = Cardinality(With(b)) + 1
         /\ \A c : c \notin {a, b} => With(c)' = With(c)
<1>1. s \in With(a) /\ With(a)' = With(a) \ {s}
  BY DEF With
<1>2. s \notin With(b) /\ With(b)' = With(b) \cup {s}
  BY DEF With
<1>3. Cardinality(With(a)') = Cardinality(With(a)) - 1
  <2>1. IsFiniteSet(With(a))
    BY WithIsFinite
  <2>2. Cardinality(With(a) \ {s}) = Cardinality(With(a)) - 1
    BY <1>1, <2>1, FS_RemoveElement
  <2>3. QED
    BY <1>1, <2>2
<1>4. Cardinality(With(b)') = Cardinality(With(b)) + 1
  <2>1. IsFiniteSet(With(b))
    BY WithIsFinite
  <2>2. Cardinality(With(b) \cup {s}) = Cardinality(With(b)) + 1
    BY <1>2, <2>1, FS_AddElement
  <2>3. QED
    BY <1>2, <2>2
<1>5. \A c : c \notin {a, b} => With(c)' = With(c)
  BY DEF With
<1>6. QED
  BY <1>3, <1>4, <1>5

\* The slots, and the stream whose turn it is has one.
SlotInv == SlotsAreOpenStreams /\ (turn # NoStream => IsOpen(turn))

LEMMA SlotInit == Init => SlotInv
<1> SUFFICES ASSUME Init PROVE SlotInv
  OBVIOUS
<1>1. With("open") = {} /\ With("closed") = {} /\ With("rejected") = {}
  BY DEF Init, With, New
<1>2. Cardinality({}) = 0
  BY FS_EmptySet
<1>3. /\ slots = 0 /\ openedTotal = 0 /\ rejectedTotal = 0 /\ turn = NoStream
      /\ \A s \in Stream : /\ ~stream[s].listening /\ ~stream[s].beating
                           /\ ~IsOpen(s)
  BY DEF Init, IsOpen, New
<1>4. QED
  BY <1>1, <1>2, <1>3 DEF SlotInv, SlotsAreOpenStreams

\* Cleanup of a stream that has become st, which differs in the signal only.
LEMMA CleanupSlots ==
  ASSUME TypeOK, SlotInv, NEW s \in Stream, turn = NoStream, turn' = turn,
         NEW st \in Streams, st.at = stream[s].at,
         st.listening = stream[s].listening, st.beating = stream[s].beating,
         Cleanup(s, st), UNCHANGED <<openedTotal, rejectedTotal>>
  PROVE  SlotInv'
<1>1. /\ stream' \in [Stream -> Streams]
      /\ \A t \in Stream \ {s} : stream'[t] = stream[t]
      /\ stream'[s] = IF IsOpen(s) THEN Closed(st) ELSE st
  BY CleanupType DEF Cleanup, TypeOK
<1>2. CASE IsOpen(s)
  <2>1. /\ stream'[s].at = "closed" /\ ~stream'[s].listening
        /\ ~stream'[s].beating
    BY <1>1, <1>2, ClosedType
  <2>2. /\ Cardinality(With("open")') = Cardinality(With("open")) - 1
        /\ Cardinality(With("closed")') = Cardinality(With("closed")) + 1
        /\ With("rejected")' = With("rejected")
    BY <1>1, <1>2, <2>1, OneMoves DEF IsOpen
  <2>3. Cardinality(With("open")) \in Nat /\ Cardinality(With("closed")) \in Nat
        /\ Cardinality(With("open")) > 0
    <3>1. s \in With("open")
      BY <1>2 DEF With, IsOpen
    <3>2. QED
      BY <3>1, WithIsFinite, FS_EmptySet
  <2>4. slots > 0 /\ slots' = slots - 1
    BY <1>2, <2>2, <2>3 DEF Cleanup, Released, SlotInv, SlotsAreOpenStreams, TypeOK
  <2>5. /\ slots' = Cardinality(With("open")') /\ slots' <= Cap
        /\ openedTotal' = slots' + Cardinality(With("closed")')
        /\ rejectedTotal' = Cardinality(With("rejected")')
    BY <2>2, <2>3, <2>4 DEF SlotInv, SlotsAreOpenStreams
  <2>6. \A t \in Stream : /\ stream'[t].listening <=> IsOpen(t)'
                          /\ stream'[t].beating <=> IsOpen(t)' /\ turn' # t
    BY <1>1, <2>1 DEF SlotInv, SlotsAreOpenStreams, IsOpen
  <2>7. QED
    BY <2>5, <2>6 DEF SlotInv, SlotsAreOpenStreams
<1>3. CASE ~IsOpen(s)
  <2>1. \A t \in Stream : /\ stream'[t].at = stream[t].at
                          /\ stream'[t].listening = stream[t].listening
                          /\ stream'[t].beating = stream[t].beating
    BY <1>1, <1>3
  <2>2. \A c : With(c)' = With(c)
    BY <2>1, NobodyMoves
  <2>3. slots' = slots
    BY <1>3 DEF Cleanup, Released
  <2>4. QED
    BY <2>1, <2>2, <2>3 DEF SlotInv, SlotsAreOpenStreams, IsOpen
<1>4. QED
  BY <1>2, <1>3

\* A step that neither opens nor ends a stream.
LEMMA QuietSlots ==
  ASSUME TypeOK, SlotInv,
         \A t \in Stream : /\ stream'[t].at = stream[t].at
                           /\ stream'[t].listening = stream[t].listening
                           /\ stream'[t].beating <=> IsOpen(t) /\ turn' # t,
         turn' \in {turn, NoStream},
         UNCHANGED <<slots, openedTotal, rejectedTotal>>
  PROVE  SlotInv'
<1>1. /\ With("open")' = With("open") /\ With("closed")' = With("closed")
      /\ With("rejected")' = With("rejected")
  BY NobodyMoves
<1>2. \A t \in Stream : /\ IsOpen(t)' <=> IsOpen(t)
                        /\ stream'[t].listening <=> IsOpen(t)'
                        /\ stream'[t].beating <=> IsOpen(t)' /\ turn' # t
  BY DEF SlotInv, SlotsAreOpenStreams, IsOpen
<1>3. turn' # NoStream => IsOpen(turn)'
  BY DEF SlotInv, IsOpen, TypeOK
<1>4. QED
  BY <1>1, <1>2, <1>3 DEF SlotInv, SlotsAreOpenStreams

LEMMA SlotNext == TypeOK /\ SlotInv /\ [Next]_vars => SlotInv'
<1> SUFFICES ASSUME TypeOK, SlotInv, [Next]_vars PROVE SlotInv'
  OBVIOUS
<1>0. \A s \in Stream : stream[s] \in Streams
  BY DEF TypeOK
<1>1. ASSUME NEW e \in Event, Publish(e) PROVE SlotInv'
  <2>1. \A t \in Stream : /\ Send(stream[t], e).at = stream[t].at
                          /\ Send(stream[t], e).listening = stream[t].listening
                          /\ Send(stream[t], e).beating = stream[t].beating
    BY <1>0, SendType
  <2>2. \A t \in Stream : /\ stream'[t].at = stream[t].at
                          /\ stream'[t].listening = stream[t].listening
                          /\ stream'[t].beating = stream[t].beating
    BY <1>1, <2>1 DEF Publish
  <2>3. turn' = turn /\ UNCHANGED <<slots, openedTotal, rejectedTotal>>
    BY <1>1 DEF Publish
  <2>4. QED
    BY <2>2, <2>3, QuietSlots DEF SlotInv, SlotsAreOpenStreams
<1>2. ASSUME NEW s \in Stream, NEW filter \in Filter, NEW aborted \in BOOLEAN,
             Connect(s, filter, aborted)
      PROVE SlotInv'
  <2>1. /\ stream'[s].at = "open" /\ stream'[s].listening
        /\ ~stream'[s].beating
        /\ \A t \in Stream \ {s} : stream'[t] = stream[t]
    BY <1>2 DEF Connect, TypeOK
  <2>2. /\ Cardinality(With("open")') = Cardinality(With("open")) + 1
        /\ With("closed")' = With("closed") /\ With("rejected")' = With("rejected")
    BY <1>2, <2>1, OneMoves DEF Connect
  <2>3. /\ slots' = slots + 1 /\ slots < Cap /\ openedTotal' = openedTotal + 1
        /\ rejectedTotal' = rejectedTotal /\ turn = NoStream /\ turn' = s
    BY <1>2 DEF Connect, HasRoom
  <2>4. Cardinality(With("closed")) \in Nat /\ slots \in Nat
    BY WithIsFinite DEF TypeOK
  <2>5. /\ slots' = Cardinality(With("open")') /\ slots' <= Cap
        /\ openedTotal' = slots' + Cardinality(With("closed")')
        /\ rejectedTotal' = Cardinality(With("rejected")')
    BY <2>2, <2>3, <2>4 DEF SlotInv, SlotsAreOpenStreams
  <2>6. \A t \in Stream : /\ stream'[t].listening <=> IsOpen(t)'
                          /\ stream'[t].beating <=> IsOpen(t)' /\ turn' # t
    BY <2>1, <2>3 DEF SlotInv, SlotsAreOpenStreams, IsOpen
  <2>7. QED
    BY <2>1, <2>3, <2>5, <2>6 DEF SlotInv, SlotsAreOpenStreams, IsOpen
<1>3. ASSUME NEW s \in Stream, Reject(s) PROVE SlotInv'
  <2>1. /\ stream'[s] = [stream[s] EXCEPT !.at = "rejected"]
        /\ \A t \in Stream \ {s} : stream'[t] = stream[t]
    BY <1>3 DEF Reject, TypeOK
  <2>2. /\ stream'[s].at = "rejected"
        /\ stream'[s].listening = stream[s].listening
        /\ stream'[s].beating = stream[s].beating
    BY <1>0, <2>1 DEF Streams
  <2>3. /\ Cardinality(With("rejected")') = Cardinality(With("rejected")) + 1
        /\ With("closed")' = With("closed") /\ With("open")' = With("open")
    BY <1>3, <2>1, <2>2, OneMoves DEF Reject
  <2>4. \A t \in Stream : /\ stream'[t].listening <=> IsOpen(t)'
                          /\ stream'[t].beating <=> IsOpen(t)' /\ turn' # t
    BY <1>3, <2>1, <2>2 DEF SlotInv, SlotsAreOpenStreams, IsOpen, Reject
  <2>5. QED
    BY <1>3, <2>3, <2>4 DEF SlotInv, SlotsAreOpenStreams, Reject
<1>4. ASSUME NEW s \in Stream, Replay(s) PROVE SlotInv'
  <2>1. Head(todo) \in Event
    BY <1>4 DEF TypeOK, Replay
  <2>2. /\ Send(stream[s], Head(todo)).at = stream[s].at
        /\ Send(stream[s], Head(todo)).listening = stream[s].listening
        /\ Send(stream[s], Head(todo)).beating = stream[s].beating
    BY <1>0, <2>1, SendType
  <2>3. \A t \in Stream : /\ stream'[t].at = stream[t].at
                          /\ stream'[t].listening = stream[t].listening
                          /\ stream'[t].beating = stream[t].beating
    BY <1>4, <2>2 DEF Replay, TypeOK
  <2>4. turn' = turn /\ UNCHANGED <<slots, openedTotal, rejectedTotal>>
    BY <1>4 DEF Replay
  <2>5. QED
    BY <2>3, <2>4, QuietSlots DEF SlotInv, SlotsAreOpenStreams
<1>5. ASSUME NEW s \in Stream, Started(s) PROVE SlotInv'
  <2>1. /\ stream'[s] = [stream[s] EXCEPT !.beating = TRUE]
        /\ \A t \in Stream \ {s} : stream'[t] = stream[t]
        /\ turn = s /\ turn' = NoStream
    BY <1>5 DEF Started, TypeOK
  <2>2. /\ stream'[s].at = stream[s].at
        /\ stream'[s].listening = stream[s].listening /\ stream'[s].beating
    BY <1>0, <2>1 DEF Streams
  <2>3. \A t \in Stream : stream'[t].beating <=> IsOpen(t) /\ turn' # t
    BY <2>1, <2>2 DEF SlotInv, SlotsAreOpenStreams
  <2>4. UNCHANGED <<slots, openedTotal, rejectedTotal>>
    BY <1>5 DEF Started
  <2>5. QED
    BY <2>1, <2>2, <2>3, <2>4, QuietSlots
<1>6. ASSUME NEW s \in Stream, Abort(s) PROVE SlotInv'
  <2>1. LET st == [stream[s] EXCEPT !.aborted = TRUE]
        IN  /\ st \in Streams /\ st.at = stream[s].at
            /\ st.listening = stream[s].listening
            /\ st.beating = stream[s].beating
    BY <1>0 DEF Streams
  <2>2. QED
    BY <1>6, <2>1, CleanupSlots DEF Abort
<1>7. ASSUME NEW s \in Stream, Cancel(s) \/ Heartbeat(s) PROVE SlotInv'
  BY <1>0, <1>7, CleanupSlots DEF Cancel, Heartbeat
<1>8. CASE UNCHANGED vars
  BY <1>8 DEF SlotInv, SlotsAreOpenStreams, With, IsOpen, vars
<1>9. QED
  BY <1>1, <1>2, <1>3, <1>4, <1>5, <1>6, <1>7, <1>8 DEF Next

(***************************************************************************)
(* Slots, subscriptions and timers are exactly those of the open streams,  *)
(* of which there are no more than the cap, whatever signals come.         *)
(***************************************************************************)
THEOREM SlotsMatchStreams == Spec => []SlotsAreOpenStreams
<1>1. SlotInv => SlotsAreOpenStreams
  BY DEF SlotInv
<1>2. QED
  BY InitType, NextType, SlotInit, SlotNext, <1>1, PTL DEF Spec

-----------------------------------------------------------------------------
(* The end of a stream.                                                    *)

\* Cleanup moves nothing to a client and opens nothing.
LEMMA CleanupSilent ==
  ASSUME TypeOK, NEW s \in Stream, NEW st \in Streams, st.at = stream[s].at,
         st.sent = stream[s].sent, Cleanup(s, st), NEW t \in Stream,
         stream[t].at \in {"closed", "rejected"}
  PROVE  stream'[t].at = stream[t].at /\ stream'[t].sent = stream[t].sent
BY ClosedType DEF Cleanup, IsOpen, TypeOK

LEMMA SilentStep ==
  ASSUME TypeOK, SlotInv, [Next]_vars, NEW t \in Stream,
         stream[t].at \in {"closed", "rejected"}
  PROVE  stream'[t].at = stream[t].at /\ stream'[t].sent = stream[t].sent
<1>0. \A s \in Stream : stream[s] \in Streams
  BY DEF TypeOK
<1>a. ~stream[t].listening /\ turn # t
  BY DEF SlotInv, SlotsAreOpenStreams, IsOpen, TypeOK
<1>1. ASSUME NEW e \in Event, Publish(e) PROVE stream'[t] = stream[t]
  BY <1>1, <1>a DEF Publish
<1>2. ASSUME NEW s \in Stream,
             \/ \E filter \in Filter, aborted \in BOOLEAN : Connect(s, filter, aborted)
             \/ Reject(s) \/ Replay(s) \/ Started(s)
      PROVE stream'[t] = stream[t]
  <2>1. s # t
    BY <1>2, <1>a DEF Connect, Reject, Replay, Started
  <2>2. QED
    BY <1>2, <2>1 DEF Connect, Reject, Replay, Started, TypeOK
<1>3. ASSUME NEW s \in Stream, Abort(s)
      PROVE  stream'[t].at = stream[t].at /\ stream'[t].sent = stream[t].sent
  <2>1. LET st == [stream[s] EXCEPT !.aborted = TRUE]
        IN  st \in Streams /\ st.at = stream[s].at /\ st.sent = stream[s].sent
    BY <1>0 DEF Streams
  <2>2. QED
    BY <1>3, <2>1, CleanupSilent DEF Abort
<1>4. ASSUME NEW s \in Stream, Cancel(s) \/ Heartbeat(s)
      PROVE  stream'[t].at = stream[t].at /\ stream'[t].sent = stream[t].sent
  BY <1>0, <1>4, CleanupSilent DEF Cancel, Heartbeat
<1>5. QED
  BY <1>1, <1>2, <1>3, <1>4 DEF Next, vars

(***************************************************************************)
(* A stream that has ended gets nothing more and does not open again.      *)
(***************************************************************************)
THEOREM SilentWhenClosed == Spec => ClosedIsSilent
<1>1. TypeOK /\ SlotInv /\ [Next]_vars =>
        [\A s \in Stream : stream[s].at \in {"closed", "rejected"} =>
           stream'[s].at = stream[s].at /\ stream'[s].sent = stream[s].sent]_vars
  BY SilentStep
<1>2. QED
  BY <1>1, InitType, NextType, SlotInit, SlotNext, PTL DEF Spec, ClosedIsSilent

-----------------------------------------------------------------------------
(* The feed.                                                               *)

\* Only what was sent and the filter count.
LEMMA SameFeed ==
  ASSUME NEW st, NEW u, st.sent = u.sent, st.filter = u.filter, NEW p,
         NEW from, NEW to, SentExactly(u, p, from, to)
  PROVE  SentExactly(st, p, from, to)
BY DEF SentExactly

\* A publication changes nothing of what came before it.
LEMMA EarlierFeed ==
  ASSUME NEW st \in Streams, NEW p \in Seq(Event), NEW e \in Event,
         NEW from \in Nat, NEW to \in Nat, to <= Len(p),
         SentExactly(st, p, from, to)
  PROVE  SentExactly(st, Append(p, e), from, to)
<1>1. \A i \in from+1..to : Append(p, e)[i] = p[i]
  OBVIOUS
<1>2. {Append(p, e)[i] : i \in from+1..to} = {p[i] : i \in from+1..to}
  BY <1>1
<1>3. ASSUME NEW i \in DOMAIN st.sent, NEW j \in DOMAIN st.sent, i < j
      PROVE  \E k \in from+1..to :
               /\ Append(p, e)[k] = st.sent[i]
               /\ \A m \in from+1..k : Append(p, e)[m] # st.sent[j]
  <2>1. PICK k \in from+1..to : /\ p[k] = st.sent[i]
                                /\ \A m \in from+1..k : p[m] # st.sent[j]
    BY <1>3 DEF SentExactly
  <2>2. \A m \in from+1..k : m \in from+1..to
    OBVIOUS
  <2>3. QED
    BY <1>1, <2>1, <2>2
<1>4. QED
  BY <1>2, <1>3 DEF SentExactly

\* sendEvent of the next publication.
LEMMA NextFeed ==
  ASSUME NEW st \in Streams, NEW p \in Seq(Event),
         NEW from \in Nat, NEW to \in Nat, from <= to, to < Len(p),
         SentExactly(st, p, from, to)
  PROVE  SentExactly(Send(st, p[to+1]), p, from, to+1)
<1> DEFINE e == p[to+1]
<1>1. e \in Event /\ st.sent \in Seq(Event)
  BY DEF Streams
<1>2. {p[i] : i \in from+1..to+1} = {p[i] : i \in from+1..to} \cup {e}
  <2>1. from+1..to+1 = (from+1..to) \cup {to+1}
    OBVIOUS
  <2>2. QED
    BY <2>1
<1>3. CASE e \in st.filter /\ e \notin Range(st.sent)
  <2>1. /\ Send(st, e).sent = Append(st.sent, e)
        /\ Send(st, e).filter = st.filter
    BY <1>3 DEF Send, Streams
  <2>2. /\ DOMAIN Append(st.sent, e) = 1..Len(st.sent)+1
        /\ \A i \in 1..Len(st.sent) : Append(st.sent, e)[i] = st.sent[i]
        /\ Append(st.sent, e)[Len(st.sent)+1] = e
        /\ DOMAIN st.sent = 1..Len(st.sent) /\ Len(st.sent) \in Nat
    BY <1>1
  <2>3. Range(Append(st.sent, e)) = Range(st.sent) \cup {e}
    <3>1. \A x \in Range(st.sent) : x \in Range(Append(st.sent, e))
      BY <2>2 DEF Range
    <3>2. e \in Range(Append(st.sent, e))
      BY <2>2 DEF Range
    <3>3. \A i \in 1..Len(st.sent)+1 : i \in 1..Len(st.sent) \/ i = Len(st.sent)+1
      BY <2>2
    <3>4. \A x \in Range(Append(st.sent, e)) : x \in Range(st.sent) \cup {e}
      BY <2>2, <3>3 DEF Range
    <3>5. QED
      BY <3>1, <3>2, <3>4
  <2>4. Range(Append(st.sent, e)) = {p[i] : i \in from+1..to+1} \cap st.filter
    BY <1>2, <1>3, <2>3 DEF SentExactly
  <2>5. ASSUME NEW i \in 1..Len(st.sent)+1, NEW j \in 1..Len(st.sent)+1, i < j
        PROVE  \E k \in from+1..to+1 :
                 /\ p[k] = Append(st.sent, e)[i]
                 /\ \A m \in from+1..k : p[m] # Append(st.sent, e)[j]
    <3>1. i \in 1..Len(st.sent) /\ Append(st.sent, e)[i] = st.sent[i]
      BY <2>2, <2>5
    <3>2. CASE j \in 1..Len(st.sent)
      <4>1. PICK k \in from+1..to :
                   /\ p[k] = st.sent[i]
                   /\ \A m \in from+1..k : p[m] # st.sent[j]
        BY <2>2, <2>5, <3>1, <3>2 DEF SentExactly
      <4>2. k \in from+1..to+1
        OBVIOUS
      <4>3. QED
        BY <2>2, <3>1, <3>2, <4>1, <4>2
    <3>3. CASE j = Len(st.sent)+1
      <4>1. st.sent[i] \in {p[k] : k \in from+1..to}
        BY <2>2, <3>1 DEF SentExactly, Range
      <4>2. PICK k \in from+1..to : p[k] = st.sent[i]
        BY <4>1
      <4>3. \A m \in from+1..k : m \in from+1..to
        OBVIOUS
      <4>4. \A m \in from+1..to : p[m] # e
        BY <1>3 DEF SentExactly
      <4>5. k \in from+1..to+1
        OBVIOUS
      <4>6. QED
        BY <2>2, <3>1, <3>3, <4>2, <4>3, <4>4, <4>5
    <3>4. j \in 1..Len(st.sent) \/ j = Len(st.sent)+1
      BY <2>2
    <3>5. QED
      BY <3>2, <3>3, <3>4
  <2>6. ASSUME NEW i \in DOMAIN Append(st.sent, e),
               NEW j \in DOMAIN Append(st.sent, e), i < j
        PROVE  \E k \in from+1..to+1 :
                 /\ p[k] = Append(st.sent, e)[i]
                 /\ \A m \in from+1..k : p[m] # Append(st.sent, e)[j]
    <3>1. i \in 1..Len(st.sent)+1 /\ j \in 1..Len(st.sent)+1
      BY <2>2
    <3>2. QED
      BY <2>5, <2>6, <3>1
  <2>7. QED
    BY <2>1, <2>4, <2>6 DEF SentExactly
<1>4. CASE ~(e \in st.filter /\ e \notin Range(st.sent))
  <2>1. Send(st, e) = st
    BY <1>4 DEF Send
  <2>2. Range(st.sent) = {p[i] : i \in from+1..to+1} \cap st.filter
    BY <1>2, <1>4 DEF SentExactly
  <2>3. \A k \in from+1..to : k \in from+1..to+1
    OBVIOUS
  <2>4. QED
    BY <2>1, <2>2, <2>3 DEF SentExactly
<1>5. QED
  BY <1>3, <1>4

\* q is the end of p.
IsEnd(q, p) ==
  /\ Len(q) <= Len(p)
  /\ \A i \in 1..Len(q) : q[i] = p[Len(p) - Len(q) + i]

\* The backlog is the end of what was published.
BusInv ==
  /\ IsEnd(backlog, published)
  /\ Len(backlog) = IF Len(published) > MaxBacklog THEN MaxBacklog
                    ELSE Len(published)

\* So is what the stream that is starting has still to replay.
TurnInv == IsEnd(todo, published) /\ (turn = NoStream => todo = <<>>)

\* How far each stream has come.
Reached(s) == IF turn = s THEN Len(published) - Len(todo) ELSE Len(published)

FeedInv ==
  /\ BusInv /\ TurnInv
  /\ \A s \in Stream : IsOpen(s) =>
       /\ since[s] <= Reached(s)
       /\ SentExactly(stream[s], published, since[s], Reached(s))

LEMMA FeedInit == Init => FeedInv
BY DEF Init, FeedInv, BusInv, TurnInv, IsEnd, IsOpen, New

LEMMA PublishBus ==
  ASSUME TypeOK, BusInv, NEW e \in Event, Publish(e)
  PROVE  BusInv'
<1>1. /\ published' = Append(published, e) /\ backlog' = Pushed(backlog, e)
      /\ published \in Seq(Event) /\ backlog \in Seq(Event)
  BY DEF Publish, TypeOK
<1>2. /\ Len(published') = Len(published) + 1 /\ Len(published) \in Nat
      /\ Len(backlog) \in Nat /\ Len(backlog) <= Len(published)
      /\ \A i \in 1..Len(published) : published'[i] = published[i]
      /\ published'[Len(published) + 1] = e
  BY <1>1 DEF BusInv, IsEnd
<1>3. /\ Len(Append(backlog, e)) = Len(backlog) + 1
      /\ \A i \in 1..Len(backlog) : Append(backlog, e)[i] = backlog[i]
      /\ Append(backlog, e)[Len(backlog) + 1] = e
  BY <1>1
<1>4. \A i \in 1..Len(backlog)+1 :
        Append(backlog, e)[i] = published'[Len(published) - Len(backlog) + i]
  <2> SUFFICES ASSUME NEW i \in 1..Len(backlog)+1
               PROVE  Append(backlog, e)[i]
                        = published'[Len(published) - Len(backlog) + i]
    OBVIOUS
  <2>1. CASE i \in 1..Len(backlog)
    <3>1. Len(published) - Len(backlog) + i \in 1..Len(published)
      BY <1>2, <2>1
    <3>2. backlog[i] = published[Len(published) - Len(backlog) + i]
      BY <2>1 DEF BusInv, IsEnd
    <3>3. QED
      BY <1>2, <1>3, <2>1, <3>1, <3>2
  <2>2. CASE i = Len(backlog) + 1
    <3>1. Len(published) - Len(backlog) + i = Len(published) + 1
      BY <1>2, <2>2
    <3>2. QED
      BY <1>2, <1>3, <2>2, <3>1
  <2>3. QED
    BY <1>2, <2>1, <2>2
<1>5. CASE Len(backlog) + 1 > MaxBacklog
  <2>1. /\ Len(backlog') = Len(backlog)
        /\ \A i \in 1..Len(backlog) : backlog'[i] = Append(backlog, e)[i+1]
    BY <1>1, <1>5, PushedType
  <2>2. ASSUME NEW i \in 1..Len(backlog)
        PROVE  backlog'[i] = published'[Len(published') - Len(backlog') + i]
    <3>1. i + 1 \in 1..Len(backlog)+1
      BY <1>2
    <3>2. Len(published) - Len(backlog) + (i + 1)
            = Len(published') - Len(backlog') + i
      BY <1>2, <2>1
    <3>3. backlog'[i] = published'[Len(published) - Len(backlog) + (i + 1)]
      BY <1>4, <2>1, <3>1
    <3>4. QED
      BY <3>2, <3>3
  <2>3. Len(backlog) = MaxBacklog /\ Len(published') > MaxBacklog
    BY <1>2, <1>5 DEF BusInv
  <2>4. IsEnd(backlog', published')
    BY <1>2, <2>1, <2>2 DEF IsEnd
  <2>5. QED
    BY <2>1, <2>3, <2>4 DEF BusInv
<1>6. CASE ~(Len(backlog) + 1 > MaxBacklog)
  <2>1. backlog' = Append(backlog, e)
    BY <1>1, <1>6, PushedType
  <2>2. ASSUME NEW i \in 1..Len(backlog')
        PROVE  backlog'[i] = published'[Len(published') - Len(backlog') + i]
    <3>1. i \in 1..Len(backlog)+1
      BY <1>3, <2>1
    <3>2. Len(published') - Len(backlog') + i
            = Len(published) - Len(backlog) + i
      BY <1>2, <1>3, <2>1, <3>1
    <3>3. QED
      BY <1>4, <2>1, <3>1, <3>2
  <2>3. ~(Len(published) > MaxBacklog) /\ Len(backlog) = Len(published)
    BY <1>2, <1>6 DEF BusInv
  <2>4. IsEnd(backlog', published')
    BY <1>2, <1>3, <2>1, <2>2 DEF IsEnd
  <2>5. QED
    BY <1>2, <1>3, <1>6, <2>1, <2>3, <2>4 DEF BusInv
<1>7. QED
  BY <1>5, <1>6

LEMMA PublishFeed ==
  ASSUME TypeOK, SlotInv, FeedInv, NEW e \in Event, Publish(e)
  PROVE  FeedInv'
<1>1. /\ published' = Append(published, e) /\ published \in Seq(Event)
      /\ turn = NoStream /\ turn' = NoStream /\ todo = <<>> /\ todo' = <<>>
      /\ since' = since
  BY DEF Publish, TypeOK, FeedInv, TurnInv
<1>2. /\ Len(published') = Len(published) + 1 /\ Len(published) \in Nat
      /\ published' \in Seq(Event) /\ published'[Len(published) + 1] = e
  BY <1>1
<1>3. BusInv'
  BY PublishBus DEF FeedInv
<1>4. TurnInv'
  BY <1>1, <1>2 DEF TurnInv, IsEnd
<1>5. ASSUME NEW s \in Stream, IsOpen(s)'
      PROVE  /\ since'[s] <= Reached(s)'
             /\ SentExactly(stream'[s], published', since'[s], Reached(s)')
  <2>1. stream[s] \in Streams /\ since[s] \in Nat /\ turn # s
    BY <1>1 DEF TypeOK
  <2>2. Send(stream[s], e).at = stream[s].at
    BY <2>1, SendType
  <2>3. stream[s].at = "open"
    BY <1>5, <2>2 DEF IsOpen, Publish
  <2>4. stream'[s] = Send(stream[s], e)
    BY <2>3 DEF Publish, SlotInv, SlotsAreOpenStreams, IsOpen
  <2>5. Reached(s) = Len(published) /\ Reached(s)' = Len(published) + 1
    BY <1>1, <1>2, <2>1 DEF Reached
  <2>6. /\ since[s] <= Len(published)
        /\ SentExactly(stream[s], published, since[s], Len(published))
    BY <2>3, <2>5 DEF FeedInv, IsOpen
  <2>7. SentExactly(stream[s], published', since[s], Len(published))
    BY <1>1, <1>2, <2>1, <2>6, EarlierFeed
  <2>8. SentExactly(Send(stream[s], published'[Len(published) + 1]), published',
                    since[s], Len(published) + 1)
    BY <1>2, <2>1, <2>6, <2>7, NextFeed
  <2>9. QED
    BY <1>1, <1>2, <2>1, <2>4, <2>5, <2>6, <2>8
<1>6. QED
  BY <1>3, <1>4, <1>5 DEF FeedInv

LEMMA ConnectFeed ==
  ASSUME TypeOK, FeedInv, NEW s \in Stream, NEW filter \in Filter,
         NEW aborted \in BOOLEAN, Connect(s, filter, aborted)
  PROVE  FeedInv'
<1>1. /\ todo' = Last(backlog, ReplayLimit) /\ turn' = s /\ turn = NoStream
      /\ published' = published /\ backlog' = backlog
      /\ since' = [since EXCEPT ![s] = Missed]
      /\ Len(backlog) \in Nat /\ Len(published) \in Nat
  BY DEF Connect, TypeOK
<1>2. /\ todo' \in Seq(Event)
      /\ Len(todo') = IF Len(backlog) > ReplayLimit THEN ReplayLimit ELSE Len(backlog)
      /\ \A i \in 1..Len(todo') : todo'[i] = backlog[Len(backlog) - Len(todo') + i]
  <2> DEFINE l == Last(backlog, ReplayLimit)
  <2>1. backlog \in Seq(Event) /\ ReplayLimit \in Nat
    BY DEF TypeOK
  <2>2. /\ l \in Seq(Event)
        /\ Len(l) = IF Len(backlog) > ReplayLimit THEN ReplayLimit ELSE Len(backlog)
        /\ \A i \in 1..Len(l) : l[i] = backlog[Len(backlog) - Len(l) + i]
    BY <2>1, LastType
  <2> HIDE DEF l
  <2>3. todo' = l
    BY <1>1 DEF l
  <2>4. QED
    BY <2>2, <2>3
<1>3. /\ Len(todo') \in Nat /\ Len(todo') <= Len(backlog)
      /\ Len(backlog) <= Len(published)
      /\ Len(published) - Len(todo') = Missed
  <2>1. /\ Len(backlog) <= Len(published)
        /\ Len(backlog) = IF Len(published) > MaxBacklog THEN MaxBacklog
                          ELSE Len(published)
    BY DEF FeedInv, BusInv, IsEnd
  <2>2. Len(todo') \in Nat /\ Len(todo') <= Len(backlog)
    BY <1>1, <1>2
  <2>3. CASE MaxBacklog < ReplayLimit
    <3>1. Missed = IF Len(published) > MaxBacklog
                   THEN Len(published) - MaxBacklog ELSE 0
      BY <2>3 DEF Missed
    <3>2. Len(todo') = Len(backlog)
      BY <1>1, <1>2, <2>1, <2>3
    <3>3. QED
      BY <1>1, <2>1, <2>2, <3>1, <3>2
  <2>4. CASE ~(MaxBacklog < ReplayLimit)
    <3>1. Missed = IF Len(published) > ReplayLimit
                   THEN Len(published) - ReplayLimit ELSE 0
      BY <2>4 DEF Missed
    <3>2. Len(todo') = IF Len(published) > ReplayLimit
                       THEN ReplayLimit ELSE Len(published)
      BY <1>1, <1>2, <2>1, <2>4
    <3>3. QED
      BY <1>1, <2>1, <2>2, <3>1, <3>2
  <2>5. QED
    BY <2>1, <2>2, <2>3, <2>4
<1>4. IsEnd(todo', published')
  <2> SUFFICES ASSUME NEW i \in 1..Len(todo')
               PROVE  todo'[i] = published[Len(published) - Len(todo') + i]
    BY <1>1, <1>3 DEF IsEnd
  <2>1. Len(backlog) - Len(todo') + i \in 1..Len(backlog)
    BY <1>1, <1>3
  <2>2. backlog[Len(backlog) - Len(todo') + i]
          = published[Len(published) - Len(backlog) + (Len(backlog) - Len(todo') + i)]
    BY <2>1 DEF FeedInv, BusInv, IsEnd
  <2>3. Len(published) - Len(backlog) + (Len(backlog) - Len(todo') + i)
          = Len(published) - Len(todo') + i
    BY <1>1, <1>3
  <2>4. QED
    BY <1>2, <2>2, <2>3
<1>5. /\ since'[s] = Missed /\ Reached(s)' = Missed /\ Missed \in Nat
  BY <1>1, <1>3 DEF Reached, TypeOK
<1>6. SentExactly(stream'[s], published', since'[s], Reached(s)')
  <2>1. stream'[s].sent = <<>>
    BY DEF Connect, TypeOK
  <2>2. Missed + 1..Missed = {}
    BY <1>5
  <2>3. DOMAIN stream'[s].sent = {} /\ Range(stream'[s].sent) = {}
    BY <2>1 DEF Range
  <2>4. {published[i] : i \in Missed + 1..Missed} = {}
    BY <2>2
  <2>5. QED
    BY <1>1, <1>5, <2>3, <2>4 DEF SentExactly
<1>7. ASSUME NEW t \in Stream \ {s}, IsOpen(t)'
      PROVE  /\ since'[t] <= Reached(t)'
             /\ SentExactly(stream'[t], published', since'[t], Reached(t)')
  <2>1. stream'[t] = stream[t] /\ since'[t] = since[t] /\ Reached(t)' = Reached(t)
    BY <1>1 DEF Connect, TypeOK, Reached
  <2>2. QED
    BY <1>1, <1>7, <2>1 DEF FeedInv, IsOpen
<1>8. BusInv' /\ TurnInv'
  BY <1>1, <1>4 DEF FeedInv, BusInv, TurnInv, TypeOK, IsEnd
<1>9. QED
  BY <1>5, <1>6, <1>7, <1>8 DEF FeedInv

LEMMA ReplayFeed ==
  ASSUME TypeOK, FeedInv, NEW s \in Stream, Replay(s)
  PROVE  FeedInv'
<1>1. /\ turn = s /\ turn' = s /\ s # NoStream /\ published' = published
      /\ backlog' = backlog /\ since' = since /\ todo' = Tail(todo)
      /\ todo # <<>> /\ todo \in Seq(Event) /\ published \in Seq(Event)
  BY DEF Replay, TypeOK
<1>2. /\ Len(todo') = Len(todo) - 1 /\ Len(todo) \in Nat /\ Len(todo) > 0
      /\ Len(published) \in Nat /\ Len(todo) <= Len(published)
      /\ \A i \in 1..Len(todo') : todo'[i] = todo[i+1]
      /\ Head(todo) = todo[1]
  BY <1>1 DEF FeedInv, TurnInv, IsEnd
<1>3. IsEnd(todo', published')
  <2> SUFFICES ASSUME NEW i \in 1..Len(todo')
               PROVE  todo'[i] = published[Len(published) - Len(todo') + i]
    BY <1>1, <1>2 DEF IsEnd
  <2>1. i + 1 \in 1..Len(todo)
    BY <1>2
  <2>2. todo[i+1] = published[Len(published) - Len(todo) + (i + 1)]
    BY <2>1 DEF FeedInv, TurnInv, IsEnd
  <2>3. Len(published) - Len(todo) + (i + 1) = Len(published) - Len(todo') + i
    BY <1>2
  <2>4. QED
    BY <1>2, <2>2, <2>3
<1>4. /\ Head(todo) = published[Reached(s) + 1] /\ Reached(s) \in Nat
      /\ Reached(s) < Len(published) /\ Reached(s)' = Reached(s) + 1
  <2>1. 1 \in 1..Len(todo)
    BY <1>2
  <2>2. todo[1] = published[Len(published) - Len(todo) + 1]
    BY <2>1 DEF FeedInv, TurnInv, IsEnd
  <2>3. QED
    BY <1>1, <1>2, <2>2 DEF Reached
<1>5. ASSUME IsOpen(s)'
      PROVE  /\ since'[s] <= Reached(s)'
             /\ SentExactly(stream'[s], published', since'[s], Reached(s)')
  <2>1. /\ stream[s] \in Streams /\ since[s] \in Nat
        /\ stream'[s] = Send(stream[s], Head(todo)) /\ Head(todo) \in Event
    BY <1>1 DEF TypeOK, Replay
  <2>2. stream[s].at = "open"
    BY <1>5, <2>1, SendType DEF IsOpen
  <2>3. /\ since[s] <= Reached(s)
        /\ SentExactly(stream[s], published, since[s], Reached(s))
    BY <2>2 DEF FeedInv, IsOpen
  <2>4. SentExactly(Send(stream[s], published[Reached(s) + 1]), published,
                    since[s], Reached(s) + 1)
    BY <1>1, <1>4, <2>1, <2>3, NextFeed
  <2>5. QED
    BY <1>1, <1>4, <2>1, <2>3, <2>4
<1>6. ASSUME NEW t \in Stream \ {s}, IsOpen(t)'
      PROVE  /\ since'[t] <= Reached(t)'
             /\ SentExactly(stream'[t], published', since'[t], Reached(t)')
  <2>1. stream'[t] = stream[t] /\ since'[t] = since[t] /\ Reached(t)' = Reached(t)
    BY <1>1 DEF Replay, TypeOK, Reached
  <2>2. QED
    BY <1>1, <1>6, <2>1 DEF FeedInv, IsOpen
<1>7. BusInv' /\ TurnInv'
  BY <1>1, <1>3 DEF FeedInv, BusInv, TurnInv, IsEnd
<1>8. QED
  BY <1>5, <1>6, <1>7 DEF FeedInv

\* A step of which no open stream notices anything.
LEMMA QuietFeed ==
  ASSUME FeedInv, UNCHANGED <<backlog, published, since, todo>>,
         \A s \in Stream : IsOpen(s)' =>
           /\ IsOpen(s) /\ stream'[s].sent = stream[s].sent
           /\ stream'[s].filter = stream[s].filter
           /\ Reached(s)' = Reached(s),
         turn' = NoStream => todo = <<>>
  PROVE  FeedInv'
<1>1. BusInv' /\ TurnInv'
  BY DEF FeedInv, BusInv, TurnInv, IsEnd
<1>2. ASSUME NEW s \in Stream, IsOpen(s)'
      PROVE  /\ since'[s] <= Reached(s)'
             /\ SentExactly(stream'[s], published', since'[s], Reached(s)')
  <2>1. /\ since[s] <= Reached(s)
        /\ SentExactly(stream[s], published, since[s], Reached(s))
    BY <1>2 DEF FeedInv
  <2>2. SentExactly(stream'[s], published, since[s], Reached(s))
    BY <1>2, <2>1, SameFeed
  <2>3. QED
    BY <1>2, <2>1, <2>2
<1>3. QED
  BY <1>1, <1>2 DEF FeedInv

LEMMA CleanupFeed ==
  ASSUME TypeOK, FeedInv, NEW s \in Stream, NEW st \in Streams,
         st.at = stream[s].at, st.sent = stream[s].sent,
         st.filter = stream[s].filter, Cleanup(s, st),
         UNCHANGED <<backlog, published, since, todo, turn>>
  PROVE  FeedInv'
<1>1. \A t \in Stream : IsOpen(t)' => /\ t # s /\ stream'[t] = stream[t]
  BY ClosedType DEF Cleanup, IsOpen, TypeOK
<1>2. \A t \in Stream : Reached(t)' = Reached(t)
  BY DEF Reached
<1>3. QED
  BY <1>1, <1>2, QuietFeed DEF IsOpen, FeedInv, TurnInv

LEMMA FeedNext == TypeOK /\ SlotInv /\ FeedInv /\ [Next]_vars => FeedInv'
<1> SUFFICES ASSUME TypeOK, SlotInv, FeedInv, [Next]_vars PROVE FeedInv'
  OBVIOUS
<1>0. \A s \in Stream : stream[s] \in Streams
  BY DEF TypeOK
<1>1. ASSUME NEW e \in Event, Publish(e) PROVE FeedInv'
  BY <1>1, PublishFeed
<1>2. ASSUME NEW s \in Stream, NEW filter \in Filter, NEW aborted \in BOOLEAN,
             Connect(s, filter, aborted)
      PROVE FeedInv'
  BY <1>2, ConnectFeed
<1>3. ASSUME NEW s \in Stream, Reject(s) PROVE FeedInv'
  <2>1. \A t \in Stream : IsOpen(t)' => stream'[t] = stream[t]
    BY <1>0, <1>3 DEF Reject, IsOpen, TypeOK, Streams
  <2>2. \A t \in Stream : Reached(t)' = Reached(t)
    BY <1>3 DEF Reached, Reject
  <2>3. QED
    BY <1>3, <2>1, <2>2, QuietFeed DEF Reject, IsOpen, FeedInv, TurnInv
<1>4. ASSUME NEW s \in Stream, Replay(s) PROVE FeedInv'
  BY <1>4, ReplayFeed
<1>5. ASSUME NEW s \in Stream, Started(s) PROVE FeedInv'
  <2>1. stream'[s] = [stream[s] EXCEPT !.beating = TRUE]
    BY <1>5 DEF Started, TypeOK
  <2>2. /\ stream'[s].at = stream[s].at /\ stream'[s].sent = stream[s].sent
        /\ stream'[s].filter = stream[s].filter
    BY <1>0, <2>1 DEF Streams
  <2>3. \A t \in Stream \ {s} : stream'[t] = stream[t]
    BY <1>5 DEF Started, TypeOK
  <2>4. \A t \in Stream : Reached(t)' = Reached(t)
    BY <1>5 DEF Started, Reached, TypeOK
  <2>5. QED
    BY <1>5, <2>2, <2>3, <2>4, QuietFeed DEF Started, IsOpen
<1>6. ASSUME NEW s \in Stream, Abort(s) PROVE FeedInv'
  <2>1. LET st == [stream[s] EXCEPT !.aborted = TRUE]
        IN  /\ st \in Streams /\ st.at = stream[s].at
            /\ st.sent = stream[s].sent /\ st.filter = stream[s].filter
    BY <1>0 DEF Streams
  <2>2. QED
    BY <1>6, <2>1, CleanupFeed DEF Abort
<1>7. ASSUME NEW s \in Stream, Cancel(s) \/ Heartbeat(s) PROVE FeedInv'
  BY <1>0, <1>7, CleanupFeed DEF Cancel, Heartbeat
<1>8. CASE UNCHANGED vars
  BY <1>8, QuietFeed DEF vars, IsOpen, Reached, FeedInv, TurnInv
<1>9. QED
  BY <1>1, <1>2, <1>3, <1>4, <1>5, <1>6, <1>7, <1>8 DEF Next

(***************************************************************************)
(* An open stream has been sent exactly the publications that match its    *)
(* filter, from the oldest that was replayed to the last: each once, in    *)
(* order, none missed.                                                     *)
(***************************************************************************)
THEOREM FeedStaysExact == Spec => []FeedIsExact
<1>1. FeedInv => FeedIsExact
  BY DEF FeedInv, FeedIsExact, Reached
<1>2. QED
  BY InitType, NextType, SlotInit, SlotNext, FeedInit, FeedNext, <1>1, PTL DEF Spec
=============================================================================
