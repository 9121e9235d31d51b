---------------------------- MODULE StreamClient ----------------------------
(***************************************************************************)
(* The HTTP client of scripts/verify-sse-stream.mjs: one connection, its   *)
(* head parser, its incremental decoder of chunked bodies and frames, and  *)
(* the promises its caller waits on.                                       *)
(*                                                                         *)
(* What the server writes arrives in segments of any length, and the       *)
(* connection can end between any two bytes.  Every socket event runs to   *)
(* its end before the next one.                                            *)
(***************************************************************************)
EXTENDS Naturals, SequencesExt

CONSTANTS
  Byte,          \* "r" and "n" for CR and LF, "h", "x" and those of the size lines
  SizeLine,      \* for a chunk's size, its digits
  Responses,     \* what may be answered
  MaxFrame,      \* highest index the caller asks for
  HeadLimit,     \* bytes of head that are waited for
  SizeLineLimit  \* bytes of chunk-size line that are waited for

CRLF == <<"r", "n">>

ASSUME SizeLineAssumption ==
  /\ {"r", "n", "x"} \subseteq Byte /\ SizeLineLimit \in Nat /\ MaxFrame \in Nat
  /\ 0 \in DOMAIN SizeLine /\ DOMAIN SizeLine \subseteq Nat
  /\ \A k \in DOMAIN SizeLine :
       /\ SizeLine[k] \in Seq(Byte \ {"r"}) /\ Len(SizeLine[k]) \in 1..(SizeLineLimit - 1)
       /\ \A j \in DOMAIN SizeLine : SizeLine[j] = SizeLine[k] => j = k

(* A response has a head, a framing ("chunked", "length" or "none"), the   *)
(* server's writes, a tail - what follows the last chunk - and maybe a     *)
(* last chunk without its CRLF.                                            *)
Encoded(w, crlf) == SizeLine[Len(w)] \o CRLF \o w \o crlf

Crlf(resp, k) == IF resp.broken /\ k = Len(resp.writes) THEN <<"x", "x">> ELSE CRLF

Chunks(resp, n) ==
  FlattenSeq([k \in 1..n |-> Encoded(resp.writes[k], Crlf(resp, k))])

Wire(resp) ==
  resp.head
    \o (IF resp.framing = "chunked" THEN Chunks(resp, Len(resp.writes))
        ELSE FlattenSeq(resp.writes))
    \o resp.tail

(* The ends of heads, and the blank lines, among some bytes.               *)
HeadEnds(s) == {i \in 1..(Len(s) - 3) : SubSeq(s, i, i + 3) = CRLF \o CRLF}

Blanks(s) ==
  LET breaks == {i \in 1..(Len(s) - 1) : SubSeq(s, i, i + 1) = CRLF}
  IN {i \in breaks : i = 1 \/ i - 2 \in breaks}

LastSize == SizeLine[0] \o CRLF

(* What is answered in chunks has a well-formed head and names the size of *)
(* every write; its tail is a last chunk and lines that end at the first   *)
(* blank one, or it does not begin with a chunk's size.                    *)
ASSUME ResponseAssumption ==
  \A resp \in Responses :
    /\ resp.head \in Seq(Byte) /\ resp.writes \in Seq(Seq(Byte)) /\ resp.tail \in Seq(Byte)
    /\ resp.broken \in BOOLEAN
    /\ resp.framing = "chunked" =>
         /\ HeadEnds(resp.head) = {Len(resp.head) - 3}
         /\ resp.broken => resp.writes # <<>>
         /\ \A k \in DOMAIN resp.writes : Len(resp.writes[k]) \in DOMAIN SizeLine \ {0}
         /\ IF IsPrefix(LastSize, resp.tail)
            THEN LET lines == SubSeq(resp.tail, Len(LastSize) + 1, Len(resp.tail))
                 IN Blanks(lines) = {Len(lines) - 1}
            ELSE \A k \in DOMAIN SizeLine : ~IsPrefix(SizeLine[k] \o CRLF, resp.tail)

VARIABLES
  response,      \* the answer to this request
  at,            \* how much of it has arrived
  sock,          \* the socket: connecting, open, ended (by the peer), destroyed, closed
  opening,       \* the promise of openStream()
  buf, head,     \* bytes before the end of the head; has the head been parsed?
  reader,        \* createBodyReader()
  failure,       \* the connection's error, once it has one
  waiter,        \* the index a pending nextFrame() waits for, if any
  bodyWaiter,    \* is a readBody() pending?
  outcome        \* the promises settled by the last step

streamVars == <<response, at, sock, opening, buf, head, reader, failure,
                waiter, bodyWaiter, outcome>>

-----------------------------------------------------------------------------
(* The decoder.                                                            *)

NewReader(chunked) ==
  [state |-> IF chunked THEN "size" ELSE "identity", pending |-> <<>>, need |-> 0,
   carry |-> <<>>, frames |-> <<>>, chunkSizes |-> <<>>, bodyBytes |-> 0,
   complete |-> FALSE, bad |-> FALSE]

(* The index of the first occurrence of a pair of bytes, or 0.             *)
Pairs(s, a, b) == {i \in 1..(Len(s) - 1) : s[i] = a /\ s[i + 1] = b}

Least(found) == IF found = {} THEN 0 ELSE CHOOSE i \in found : \A j \in found : i <= j

IndexOf(s, a, b) == Least(Pairs(s, a, b))

After(s, i) == SubSeq(s, i + 1, Len(s))

(* emit(): what is decoded is cut after every blank line - no more often   *)
(* than it has bytes.                                                      *)
Cut(c) ==
  LET i == IndexOf(c.carry, "n", "n")
  IN IF i = 0 THEN c
     ELSE [frames |-> Append(c.frames, SubSeq(c.carry, 1, i + 1)),
           carry |-> After(c.carry, i + 1)]

Split(frames, carry) ==
  LET cut[i \in 0..Len(carry)] ==
        IF i = 0 THEN [frames |-> frames, carry |-> carry] ELSE Cut(cut[i - 1])
  IN cut[Len(carry)]

Emit(rd, bytes) ==
  LET cut == Split(rd.frames, rd.carry \o bytes)
  IN [rd EXCEPT !.frames = cut.frames, !.carry = cut.carry, !.bodyBytes = @ + Len(bytes)]

SizeOf(line) == {k \in DOMAIN SizeLine : SizeLine[k] = line}

(* One turn of push()'s loop, for each state.                              *)
SizeTurn(rd) ==
  LET i == IndexOf(rd.pending, "r", "n")
      size == SizeOf(SubSeq(rd.pending, 1, i - 1))
      rest == After(rd.pending, i + 1)
  IN CASE i = 0 -> [rd EXCEPT !.bad = Len(rd.pending) > SizeLineLimit]
       [] i > 0 /\ size = {} -> [rd EXCEPT !.bad = TRUE]
       [] i > 0 /\ size = {0} -> [rd EXCEPT !.pending = rest, !.state = "trailer"]
       [] OTHER -> [rd EXCEPT !.pending = rest, !.state = "data",
                              !.need = CHOOSE k \in size : TRUE]

(* (A chunk's data is taken as far as it has come.)                        *)
EagerDataTurn(rd) ==
  LET k == IF Len(rd.pending) < rd.need THEN Len(rd.pending) ELSE rd.need
  IN [Emit(rd, SubSeq(rd.pending, 1, k)) EXCEPT
        !.pending = After(rd.pending, k),
        !.chunkSizes = Append(@, k), !.need = 0, !.state = "crlf"]

DataTurn(rd) ==
  IF Len(rd.pending) < rd.need THEN rd
  ELSE [Emit(rd, SubSeq(rd.pending, 1, rd.need)) EXCEPT
          !.pending = After(rd.pending, rd.need),
          !.chunkSizes = Append(@, rd.need), !.need = 0, !.state = "crlf"]

CrlfTurn(rd) ==
  IF Len(rd.pending) < 2 THEN rd
  ELSE IF IndexOf(rd.pending, "r", "n") # 1 THEN [rd EXCEPT !.bad = TRUE]
  ELSE [rd EXCEPT !.pending = After(rd.pending, 2), !.state = "size"]

TrailerTurn(rd) ==
  LET i == IndexOf(rd.pending, "r", "n") IN
  CASE i = 0 -> rd
    [] i = 1 -> [rd EXCEPT !.pending = After(rd.pending, 2),
                           !.complete = TRUE, !.state = "done"]
    [] OTHER -> [rd EXCEPT !.pending = After(rd.pending, i + 1)]

Turn(rd) ==
  CASE rd.bad -> rd
    [] ~rd.bad /\ rd.state = "size" -> SizeTurn(rd)
    [] ~rd.bad /\ rd.state = "data" -> DataTurn(rd)
    [] ~rd.bad /\ rd.state = "crlf" -> CrlfTurn(rd)
    [] ~rd.bad /\ rd.state = "trailer" -> TrailerTurn(rd)
    [] OTHER -> rd

(* A turn that leaves the record as it is ends the loop; any other takes a *)
(* byte or is the last.                                                    *)
Loop(rd) ==
  LET turn[i \in 0..(Len(rd.pending) + 1)] ==
        IF i = 0 THEN rd ELSE Turn(turn[i - 1])
  IN turn[Len(rd.pending) + 1]

Push(rd, bytes) ==
  IF rd.state = "identity" THEN Emit(rd, bytes)
  ELSE Loop([rd EXCEPT !.pending = @ \o bytes])

-----------------------------------------------------------------------------
(* The promises.                                                           *)

Settled(op, i, how) == [op |-> op, index |-> i, how |-> how]

FrameOutcome(how) == {Settled("frame", i, how) : i \in waiter}
BodyOutcome(how) == {Settled("body", 0, how) : b \in {bodyWaiter} \cap {TRUE}}

(* rejectWaiters(): both, each at most once.                               *)
RejectWaiters ==
  /\ waiter' = {} /\ bodyWaiter' = FALSE
  /\ outcome' = FrameOutcome("error") \cup BodyOutcome("error")

(* done(): the connection is given up before the caller owns it.           *)
Done ==
  /\ failure' = TRUE
  /\ opening' = IF opening = "pending" THEN "rejected" ELSE opening

(* bodyComplete(), of a reader and the socket's state.                     *)
BodyComplete(rd, s) ==
  \/ rd.complete
  \/ response.framing = "length" /\ rd.bodyBytes >= Len(FlattenSeq(response.writes))
  \/ response.framing # "length" /\ s \in {"ended", "destroyed", "closed"}

(* drain(): a frame that has arrived, and a body that is complete, go to   *)
(* whoever waits for them.                                                 *)
Drain(rd) ==
  LET ready == {i \in waiter : Len(rd.frames) > i}
      whole == bodyWaiter /\ BodyComplete(rd, sock)
  IN /\ waiter' = waiter \ ready
     /\ bodyWaiter' = (bodyWaiter /\ ~whole)
     /\ outcome' = {Settled("frame", i, "ok") : i \in ready}
                     \cup (IF whole THEN BodyOutcome("ok") ELSE {})

-----------------------------------------------------------------------------
(* Events of the socket.                                                   *)

Connect ==
  /\ sock = "connecting" /\ sock' = "open" /\ outcome' = {}
  /\ UNCHANGED <<response, at, opening, buf, head, reader, failure, waiter, bodyWaiter>>

(* `data' before the end of the head, which may not be HTTP at all.        *)
HeadData(bytes) ==
  LET all == buf \o bytes
      ends == HeadEnds(all)
      end == Least(ends)
      garbled == IF ends = {} THEN Len(all) > HeadLimit
                 ELSE \E i \in 1..(end - 1) : all[i] # "h"
      rd == Push(NewReader(response.framing = "chunked"), After(all, end + 3))
  IN /\ buf' = all
     /\ CASE garbled ->
               /\ Done /\ sock' = "destroyed" /\ outcome' = {}
               /\ UNCHANGED <<head, reader, waiter, bodyWaiter>>
          [] ~garbled /\ ends = {} ->
               /\ outcome' = {}
               /\ UNCHANGED <<sock, opening, head, reader, failure, waiter, bodyWaiter>>
          [] ~garbled /\ ends # {} /\ rd.bad ->
               /\ head' = TRUE /\ reader' = rd
               /\ Done /\ sock' = "destroyed" /\ outcome' = {}
               /\ UNCHANGED <<waiter, bodyWaiter>>
          [] OTHER ->
               /\ head' = TRUE /\ reader' = rd /\ opening' = "resolved"
               /\ Drain(rd)
               /\ UNCHANGED <<sock, failure>>

(* ... and after it.  A decoding error ends the connection.                *)
BodyData(bytes) ==
  LET rd == Push(reader, bytes)
  IN /\ reader' = rd
     /\ IF rd.bad
        THEN failure' = TRUE /\ RejectWaiters /\ sock' = "destroyed"
        ELSE Drain(rd) /\ UNCHANGED <<failure, sock>>
     /\ UNCHANGED <<opening, buf, head>>

Data(k) ==
  /\ sock = "open" /\ at + k <= Len(Wire(response))
  /\ at' = at + k
  /\ LET bytes == SubSeq(Wire(response), at + 1, at + k)
     IN IF head THEN BodyData(bytes) ELSE HeadData(bytes)
  /\ UNCHANGED response

(* The peer ends the stream, wherever it had got to.                       *)
End ==
  /\ sock = "open" /\ sock' = "ended" /\ outcome' = {}
  /\ UNCHANGED <<response, at, opening, buf, head, reader, failure, waiter, bodyWaiter>>

(* Also when the peer has ended the stream and the socket is not closed.   *)
Error ==
  /\ sock \in {"connecting", "open", "ended"} /\ sock' = "destroyed"
  /\ RejectWaiters
  /\ IF head THEN failure' = TRUE /\ UNCHANGED opening ELSE Done
  /\ UNCHANGED <<response, at, buf, head, reader>>

Close ==
  /\ sock \in {"ended", "destroyed"} /\ sock' = "closed"
  /\ RejectWaiters
  /\ IF head THEN UNCHANGED <<failure, opening>> ELSE Done
  /\ UNCHANGED <<response, at, buf, head, reader>>

(* No complete head within the deadline.                                   *)
OpenTimeout ==
  /\ opening = "pending" /\ Done
  /\ sock' = IF sock = "closed" THEN sock ELSE "destroyed"
  /\ outcome' = {}
  /\ UNCHANGED <<response, at, buf, head, reader, waiter, bodyWaiter>>

-----------------------------------------------------------------------------
(* The caller, who owns the connection once openStream() has resolved.     *)

Answer(op, i, how) ==
  /\ outcome' = {Settled(op, i, how)}
  /\ UNCHANGED <<waiter, bodyWaiter>>

(* The frame has not come; drain() may find that a body has been ended.    *)
Wait(i) ==
  LET whole == bodyWaiter /\ BodyComplete(reader, sock)
  IN /\ waiter' = {i}
     /\ bodyWaiter' = (bodyWaiter /\ ~whole)
     /\ outcome' = IF whole THEN BodyOutcome("ok") ELSE {}

(* (The connection's error is looked at before the frames.)                *)
NextFrameUnlessFailed(i) ==
  /\ opening = "resolved"
  /\ CASE failure -> Answer("frame", i, "error")
       [] ~failure /\ Len(reader.frames) > i -> Answer("frame", i, "ok")
       [] OTHER -> Wait(i)
  /\ UNCHANGED <<response, at, sock, opening, buf, head, reader, failure>>

NextFrame(i) ==
  /\ opening = "resolved"
  /\ CASE Len(reader.frames) > i -> Answer("frame", i, "ok")
       [] Len(reader.frames) <= i /\ (failure \/ waiter # {}) -> Answer("frame", i, "error")
       [] OTHER -> Wait(i)
  /\ UNCHANGED <<response, at, sock, opening, buf, head, reader, failure>>

FrameTimeout ==
  /\ waiter # {} /\ waiter' = {} /\ outcome' = FrameOutcome("timeout")
  /\ UNCHANGED <<response, at, sock, opening, buf, head, reader, failure, bodyWaiter>>

ReadBody ==
  /\ opening = "resolved"
  /\ CASE BodyComplete(reader, sock) -> Answer("body", 0, "ok")
       [] ~BodyComplete(reader, sock) /\ (failure \/ bodyWaiter) -> Answer("body", 0, "error")
       [] OTHER -> bodyWaiter' = TRUE /\ outcome' = {} /\ UNCHANGED waiter
  /\ UNCHANGED <<response, at, sock, opening, buf, head, reader, failure>>

BodyTimeout ==
  /\ bodyWaiter /\ bodyWaiter' = FALSE /\ outcome' = BodyOutcome("timeout")
  /\ UNCHANGED <<response, at, sock, opening, buf, head, reader, failure, waiter>>

CallerClose ==
  /\ opening = "resolved" /\ sock \in {"open", "ended"}
  /\ sock' = "destroyed" /\ outcome' = {}
  /\ UNCHANGED <<response, at, opening, buf, head, reader, failure, waiter, bodyWaiter>>

-----------------------------------------------------------------------------
StreamInit ==
  /\ response \in Responses /\ at = 0
  /\ sock = "connecting" /\ opening = "pending"
  /\ buf = <<>> /\ head = FALSE /\ reader = NewReader(FALSE) /\ failure = FALSE
  /\ waiter = {} /\ bodyWaiter = FALSE /\ outcome = {}

Socket == \/ Connect \/ End \/ Error \/ Close \/ OpenTimeout
          \/ \E k \in 1..Len(Wire(response)) : Data(k)

Caller == \/ \E i \in 0..MaxFrame : NextFrame(i)
          \/ FrameTimeout \/ ReadBody \/ BodyTimeout \/ CallerClose

StreamNext == Socket \/ Caller

StreamSpec == StreamInit /\ [][StreamNext]_streamVars

-----------------------------------------------------------------------------
(* How many of the server's writes have arrived in full, as chunks.        *)
Arrived ==
  LET whole == {n \in DOMAIN response.writes :
                  at >= Len(response.head) + Len(Chunks(response, n)) - 2}
  IN Cardinality(whole)

Terminated == IsPrefix(LastSize, response.tail) /\ ~response.broken

(* However the bytes were cut into segments, a chunked response has been   *)
(* decoded to the writes that have arrived: their sizes are kept, their    *)
(* bytes are the frames and the rest, every frame ends at the first blank  *)
(* line, and the end of the body is seen when, and only when, it is there. *)
DecodedIsWritten ==
  head /\ response.framing = "chunked" =>
    LET got == [k \in 1..Arrived |-> response.writes[k]] IN
    /\ reader.chunkSizes = [k \in DOMAIN got |-> Len(got[k])]
    /\ FlattenSeq(reader.frames) \o reader.carry = FlattenSeq(got)
    /\ \A k \in DOMAIN reader.frames :
         IndexOf(reader.frames[k], "n", "n") = Len(reader.frames[k]) - 1
    /\ IndexOf(reader.carry, "n", "n") = 0
    /\ reader.complete <=> at = Len(Wire(response)) /\ Terminated

(* A frame that has arrived is never answered with an error or a timeout,  *)
(* whatever happened to the socket - unless its decoding failed.           *)
FrameInHandIsGiven ==
  ~reader.bad =>
    \A o \in outcome : o.op = "frame" /\ o.how # "ok" => Len(reader.frames) <= o.index
=============================================================================
