---------------------------- MODULE EventIngest ----------------------------
(***************************************************************************)
(* POST /api/events (src/src/app/api/events/route.ts) under an optional    *)
(* Idempotency-Key (src/src/lib/idempotency.ts), with the session          *)
(* projection (src/src/lib/sessions/monitor.ts) and the part of retention  *)
(* that deletes events and keys.                                           *)
(*                                                                         *)
(* Producers re-send: a run's log is posted while it grows and again when  *)
(* it ends, and requests that time out are retried.  A request inserts its *)
(* batch in one statement, and only what that statement inserted is        *)
(* published and dispatched; all of the batch is projected.  Nothing of it *)
(* is one transaction, requests run at once on any replica, any statement  *)
(* may fail, and any process may die.                                      *)
(*                                                                         *)
(* An event stands for its content-derived id.  Items that are dropped,    *)
(* last-seen times and the re-arming of jobs are left out; the projection  *)
(* of tokens is the module Revocation's.                                   *)
(***************************************************************************)
EXTENDS Naturals, Sequences, FiniteSets

CONSTANTS
  Event,
  Sid,
  Type,        \* event.type
  SessionOf,   \* event.sessionId
  Body,        \* batches that may be posted, as sequences of events
  Malformed,   \* a body whose `events' is not an array
  Oversized,   \* a body over a cap
  Key,         \* Idempotency-Keys
  NoKey, None,
  Request,     \* requests running at once
  MaxPosts, MaxFaults, MaxDeaths, MaxPurges   \* bounds for TLC

ASSUME IngestAssumption ==
  /\ Type \in [Event -> {"started", "complete", "failed", "other"}]
  /\ SessionOf \in [Event -> Sid]
  /\ Body \subseteq Seq(Event)
  /\ Malformed \notin Body /\ Oversized \notin Body /\ Malformed # Oversized
  /\ NoKey \notin Key
  /\ None \notin [status : {200, 400, 413}, batch : SUBSET Event,
                  inserted : SUBSET Event]
  /\ IsFiniteSet(Request)
  /\ {MaxPosts, MaxFaults, MaxDeaths, MaxPurges} \subseteq Nat

VARIABLES
  stored,       \* audit_events
  sessions,     \* handshake_sessions: status of each session, or "none"
  answers,      \* idempotency_keys of the scope events.ingest
  requests,     \* what each request is doing
  streamed,     \* history: times each event was published
  dispatched,   \* history: times each event was given to the webhooks
  purged,       \* history: times retention deleted each event
  unstreamed, undispatched,  \* history: events whose fan-out was cut short
  told,         \* history: answers given under each key
  loose,        \* history: keys whose row was deleted or could not be stored
  settled,      \* history: sessions whose end was projected without a fault
  posts, faults, deaths, purges  \* budgets

tables == <<stored, sessions, answers>>
fanout == <<streamed, dispatched, unstreamed, undispatched>>
keyed == <<told, loose>>
budgets == <<posts, faults, deaths, purges>>
vars == <<tables, requests, fanout, purged, keyed, settled, budgets>>

-----------------------------------------------------------------------------

\* The counts `ingested' and `inserted' of an answer stand as sets.
Answer == [status : {200, 400, 413}, batch : SUBSET Event, inserted : SUBSET Event]
Error(status) == [status |-> status, batch |-> {}, inserted |-> {}]

Cacheable(status) == status \in {200, 201, 202, 204, 400, 409, 422}

\* A request looks its key up, inserts, lists the webhooks, goes over its
\* batch (publishes an event and projects it), dispatches what it inserted,
\* stores its answer and reads the winner's.  "todo" is the positions of the
\* batch not gone over yet, "fresh" what was inserted and not dispatched yet.
At(place, k, b, a) ==
  [at |-> place, key |-> k, body |-> b, todo |-> {}, fresh |-> {},
   listed |-> FALSE, clean |-> FALSE, result |-> a]
Idle == At("idle", NoKey, <<>>, None)
Places == {"idle", "lookup", "insert", "list", "publish", "store", "reread"}

Items(b) == {b[i] : i \in DOMAIN b}

\* De-duplicated within the batch: the first occurrence wins.
First(b) == {i \in DOMAIN b : \A j \in DOMAIN b : j < i => b[j] # b[i]}

Job ==
  {j \in [at : Places, key : Key \cup {NoKey}, body : Seq(Event) \cup {Malformed, Oversized},
          todo : SUBSET Nat, fresh : SUBSET Event, listed : BOOLEAN, clean : BOOLEAN,
          result : Answer \cup {None}] :
     /\ j.at \in {"lookup", "store", "reread"} => j.key \in Key
     /\ j.at \in {"lookup", "insert"} => j.body \in Body \cup {Malformed, Oversized}
     /\ j.at \in {"list", "publish"} => j.body \in Body /\ j.todo \subseteq DOMAIN j.body
     /\ j.at \in {"list", "publish", "store", "reread"} => j.result \in Answer
     /\ j.at \notin {"list", "publish"} => j.todo = {} /\ j.fresh = {}}

Init ==
  /\ stored = {}
  /\ sessions = [s \in Sid |-> "none"]
  /\ answers = [k \in Key |-> None]
  /\ requests = [r \in Request |-> Idle]
  /\ streamed = [e \in Event |-> 0]
  /\ dispatched = [e \in Event |-> 0]
  /\ purged = [e \in Event |-> 0]
  /\ unstreamed = {} /\ undispatched = {}
  /\ told = [k \in Key |-> {}]
  /\ loose = {}
  /\ settled = {}
  /\ posts = 0 /\ faults = 0 /\ deaths = 0 /\ purges = 0

\* A statement that fails uses the budget of faults.
Outcome(ok) ==
  /\ ok \/ faults < MaxFaults
  /\ faults' = IF ok THEN faults ELSE faults + 1
  /\ UNCHANGED <<posts, deaths, purges>>

Move(r, rec) == requests' = [requests EXCEPT ![r] = rec]

-----------------------------------------------------------------------------
(* withIdempotency.                                                        *)

\* A body that is too large is refused before any key is looked at when its
\* declared length says so, and by the handler otherwise.
Post(r, k, b) ==
  /\ requests[r].at = "idle"
  /\ posts < MaxPosts
  /\ Move(r, At(IF k = NoKey THEN "insert" ELSE "lookup", k, b, None))
  /\ posts' = posts + 1
  /\ UNCHANGED <<tables, fanout, purged, keyed, settled, faults, deaths, purges>>

\* The response is given to the client; nothing is kept of the request.
Tell(r, a) ==
  /\ Move(r, Idle)
  /\ told' = [told EXCEPT ![requests[r].key] = @ \cup {a}]

\* For the mutation runs: the key is reserved before the handler runs.
LookupReserving(r) ==
  /\ requests[r].at = "lookup"
  /\ LET k == requests[r].key IN
       IF answers[k] # None
       THEN Tell(r, answers[k]) /\ UNCHANGED answers
       ELSE /\ Move(r, [requests[r] EXCEPT !.at = "insert"])
            /\ answers' = [answers EXCEPT ![k] =
                 IF requests[r].body \in Body
                 THEN [status |-> 200, batch |-> Items(requests[r].body), inserted |-> {}]
                 ELSE Error(400)]
            /\ UNCHANGED told
  /\ UNCHANGED <<stored, sessions, fanout, purged, loose, settled, budgets>>

\* The first SELECT: a hit is replayed, a miss runs the handler.
Lookup(r) ==
  /\ requests[r].at = "lookup"
  /\ LET k == requests[r].key IN
       IF answers[k] # None
       THEN Tell(r, answers[k])
       ELSE Move(r, [requests[r] EXCEPT !.at = "insert"]) /\ UNCHANGED told
  /\ UNCHANGED <<tables, fanout, purged, loose, settled, budgets>>

\* The handler has answered.  Without a key, or with an answer that is not
\* stable, the client gets it and nothing is stored.
Handled(r, a) ==
  Move(r, IF requests[r].key # NoKey /\ Cacheable(a.status)
          THEN At("store", requests[r].key, <<>>, a)
          ELSE Idle)

\* For the mutation runs: ON CONFLICT DO UPDATE.
StoreOver(r) ==
  /\ requests[r].at = "store"
  /\ answers' = [answers EXCEPT ![requests[r].key] = requests[r].result]
  /\ Move(r, [requests[r] EXCEPT !.at = "reread"])
  /\ UNCHANGED <<stored, sessions, fanout, purged, keyed, settled, budgets>>

\* INSERT ... ON CONFLICT DO NOTHING: the first one stored wins.
Store(r) ==
  /\ requests[r].at = "store"
  /\ answers' = [answers EXCEPT ![requests[r].key] =
                   IF @ = None THEN requests[r].result ELSE @]
  /\ Move(r, [requests[r] EXCEPT !.at = "reread"])
  /\ UNCHANGED <<stored, sessions, fanout, purged, keyed, settled, budgets>>

\* The INSERT fails: logged, and the client gets its own answer.
StoreFails(r) ==
  /\ requests[r].at = "store"
  /\ Outcome(FALSE)
  /\ Tell(r, requests[r].result)
  /\ loose' = loose \cup {requests[r].key}
  /\ UNCHANGED <<tables, fanout, purged, settled>>

\* The second SELECT: the winner's answer, or the own one if the row is gone.
Reread(r) ==
  /\ requests[r].at = "reread"
  /\ LET won == answers[requests[r].key] IN
       Tell(r, IF won # None THEN won ELSE requests[r].result)
  /\ UNCHANGED <<tables, fanout, purged, loose, settled, budgets>>

-----------------------------------------------------------------------------
(* The handler.                                                            *)

\* A body that is refused: 400 is stable, 413 is not.
Refuse(r) ==
  /\ requests[r].at = "insert"
  /\ requests[r].body \in {Malformed, Oversized}
  /\ Handled(r, Error(IF requests[r].body = Malformed THEN 400 ELSE 413))
  /\ UNCHANGED <<tables, fanout, purged, keyed, settled, budgets>>

\* For the mutation runs: RETURNING yields conflicting rows too.
ReturnedAll(b) == Items(b)

\* RETURNING: the rows inserted, not those that were there.
Returned(b) == Items(b) \ stored

\* ingestEvents: one INSERT ... ON CONFLICT DO NOTHING RETURNING.
Insert(r) ==
  LET b == requests[r].body
      new == Returned(b) IN
  /\ requests[r].at = "insert"
  /\ b \notin {Malformed, Oversized}
  /\ stored' = stored \cup Items(b)
  /\ Move(r, [requests[r] EXCEPT
       !.at = "list", !.todo = First(b), !.fresh = new, !.clean = TRUE,
       !.result = [status |-> 200, batch |-> Items(b), inserted |-> new]])
  /\ UNCHANGED <<sessions, answers, fanout, purged, keyed, settled, budgets>>

\* listActiveWebhooks, once for the batch; if it fails there are none.
List(r, ok) ==
  /\ requests[r].at = "list"
  /\ Outcome(ok)
  /\ Move(r, [requests[r] EXCEPT !.at = "publish", !.listed = ok])
  /\ UNCHANGED <<tables, fanout, purged, keyed, settled>>

\* The events are gone over in the order of the batch.
IsNext(r, i) ==
  /\ requests[r].at = "publish"
  /\ i \in requests[r].todo /\ \A j \in requests[r].todo : i <= j

\* sessionMonitor.onEvent.
Projected(e) ==
  LET s == SessionOf[e] IN
  CASE Type[e] = "started" /\ sessions[s] = "none" ->
         [sessions EXCEPT ![s] = "started"]
    [] Type[e] \in {"complete", "failed"} /\ sessions[s] # "none" ->
         [sessions EXCEPT ![s] = Type[e]]
    [] OTHER -> sessions

\* The body of the loop: eventBus.publish for an event this request inserted,
\* and in the same turn the statement of the projection is sent.
Pass(r, i, ok, projected, rec) ==
  LET e == requests[r].body[i] IN
  /\ IsNext(r, i)
  /\ Outcome(ok)
  /\ streamed' = IF e \in requests[r].fresh
                 THEN [streamed EXCEPT ![e] = @ + 1] ELSE streamed
  /\ sessions' = IF projected THEN Projected(e) ELSE sessions
  /\ Move(r, rec)
  /\ UNCHANGED <<stored, answers, dispatched, unstreamed, undispatched, purged,
                 keyed, settled>>

Passed(r, i, ok) == [requests[r] EXCEPT !.todo = @ \ {i}, !.clean = @ /\ ok]

\* For the mutation runs: duplicates are not projected, or a failed projection
\* ends the request.
ProjectFresh(r, i, ok) ==
  Pass(r, i, ok, ok /\ requests[r].body[i] \in requests[r].fresh, Passed(r, i, ok))
ProjectThrows(r, i, ok) ==
  Pass(r, i, ok, ok, IF ok THEN Passed(r, i, ok) ELSE Idle)

\* New or not, an event is projected; a failure is logged.
Project(r, i, ok) == Pass(r, i, ok, ok, Passed(r, i, ok))

\* dispatchWebhooksWithList, a few at once in any order; a failure is logged.
Dispatch(r, e, ok) ==
  /\ requests[r].at = "publish" /\ requests[r].todo = {}
  /\ e \in requests[r].fresh
  /\ Outcome(ok)
  /\ IF ok /\ requests[r].listed
     THEN dispatched' = [dispatched EXCEPT ![e] = @ + 1] /\ UNCHANGED undispatched
     ELSE undispatched' = undispatched \cup {e} /\ UNCHANGED dispatched
  /\ Move(r, [requests[r] EXCEPT !.fresh = @ \ {e}])
  /\ UNCHANGED <<tables, streamed, unstreamed, purged, keyed, settled>>

\* Sessions that a batch starts and then ends.
Ended(b) ==
  {s \in Sid : \E i, j \in First(b) :
     /\ i < j /\ SessionOf[b[i]] = s /\ SessionOf[b[j]] = s
     /\ Type[b[i]] = "started" /\ Type[b[j]] \in {"complete", "failed"}}

Finish(r) ==
  /\ requests[r].at = "publish"
  /\ requests[r].todo = {} /\ requests[r].fresh = {}
  /\ settled' = IF requests[r].clean THEN settled \cup Ended(requests[r].body)
                                     ELSE settled
  /\ Handled(r, requests[r].result)
  /\ UNCHANGED <<tables, fanout, purged, keyed, budgets>>

-----------------------------------------------------------------------------
(* Faults and retention.                                                   *)

\* A SELECT of the key, or the INSERT of the batch, throws: 500, not stored.
Throw(r) ==
  /\ requests[r].at \in {"lookup", "insert", "reread"}
  /\ Outcome(FALSE)
  /\ Move(r, Idle)
  /\ UNCHANGED <<tables, fanout, purged, keyed, settled>>

\* What a request has inserted and not yet published, or not yet dispatched.
ToStream(r) ==
  {e \in requests[r].fresh : \E i \in requests[r].todo : requests[r].body[i] = e}
ToDispatch(r) == requests[r].fresh

\* The process dies: the rest of the fan-out is lost for good.
Die(r) ==
  /\ requests[r].at # "idle"
  /\ deaths < MaxDeaths
  /\ deaths' = deaths + 1
  /\ unstreamed' = unstreamed \cup ToStream(r)
  /\ undispatched' = undispatched \cup ToDispatch(r)
  /\ Move(r, Idle)
  /\ UNCHANGED <<tables, streamed, dispatched, purged, keyed, settled, posts,
                 faults, purges>>

\* runRetentionSweep: events by their own ts, which may be any, and keys.
RetentionSweep(es, ks) ==
  /\ purges < MaxPurges
  /\ es # {} \/ ks # {}
  /\ es \subseteq stored
  /\ ks \subseteq {k \in Key : answers[k] # None}
  /\ stored' = stored \ es
  /\ purged' = [e \in Event |-> IF e \in es THEN purged[e] + 1 ELSE purged[e]]
  /\ answers' = [k \in Key |-> IF k \in ks THEN None ELSE answers[k]]
  /\ loose' = loose \cup ks
  /\ purges' = purges + 1
  /\ UNCHANGED <<sessions, requests, fanout, told, settled, posts, faults, deaths>>

-----------------------------------------------------------------------------

Proceed(r) ==
  \/ Lookup(r) \/ Refuse(r) \/ Insert(r)
  \/ Finish(r)
  \/ Store(r) \/ Reread(r)
  \/ \E ok \in BOOLEAN :
       \/ List(r, ok)
       \/ \E i \in requests[r].todo : Project(r, i, ok)
       \/ \E e \in Event : Dispatch(r, e, ok)

Next ==
  \/ \E r \in Request :
       \/ \E k \in Key \cup {NoKey}, b \in Body \cup {Malformed, Oversized} : Post(r, k, b)
       \/ Proceed(r)
       \/ StoreFails(r) \/ Throw(r) \/ Die(r)
  \/ \E es \in SUBSET Event, ks \in SUBSET Key : RetentionSweep(es, ks)

Spec == Init /\ [][Next]_vars

\* Every await of a handler is answered, or rejected, in the end.
FairSpec == Spec /\ \A r \in Request : WF_vars(Proceed(r))

-----------------------------------------------------------------------------
(* Properties.                                                             *)

TypeOK ==
  /\ stored \subseteq Event
  /\ sessions \in [Sid -> {"none", "started", "complete", "failed"}]
  /\ answers \in [Key -> Answer \cup {None}]
  /\ requests \in [Request -> Job]
  /\ streamed \in [Event -> Nat]
  /\ dispatched \in [Event -> Nat]
  /\ purged \in [Event -> Nat]
  /\ unstreamed \subseteq Event /\ undispatched \subseteq Event
  /\ told \in [Key -> SUBSET Answer]
  /\ loose \subseteq Key
  /\ settled \subseteq Sid
  /\ posts \in Nat /\ faults \in Nat /\ deaths \in Nat /\ purges \in Nat

\* events/route.ts: "a re-send must not reach live viewers or webhook receivers
\* twice", whichever replicas take it and however they interleave, unless
\* retention has deleted the row in between.
FannedOutOnce ==
  \A e \in Event : /\ streamed[e] <= 1 + purged[e]
                   /\ dispatched[e] <= 1 + purged[e]

\* What a key replays was done: an answer is only kept for a body that was
\* refused for good, or for a batch that is stored (or was, until retention
\* deleted it).  A retry is never answered 200 for events that were lost.
IsDone(a) ==
  \/ a.status = 400
  \/ a.status = 200 /\ \A e \in a.batch : e \in stored \/ purged[e] > 0

PinnedIsDone == \A k \in Key : answers[k] # None => IsDone(answers[k])

\* idempotency.ts: "whoever wins the INSERT pins their response": all requests
\* with a key get one answer, though several of them may have run the handler.
OneAnswerPerKey ==
  \A k \in Key \ loose : told[k] # {} => told[k] = {answers[k]}

\* events/route.ts: projecting duplicates too "repairs a projection that failed
\* the first time": once a request has gone over the start and the end of a
\* session without a fault, the session has ended for good, whatever failed or
\* died before and whatever other requests project meanwhile.
ReportedSessionsEnd ==
  \A s \in settled : sessions[s] \in {"complete", "failed"}

\* An event that was stored is published and dispatched in the end, unless the
\* process dies or its dispatch fails; the failure of one projection does not
\* keep the events after it from their audience.
StoredIsFannedOut ==
  \A e \in Event :
    /\ e \in stored ~> streamed[e] > 0 \/ e \in unstreamed
    /\ e \in stored ~> dispatched[e] > 0 \/ e \in undispatched
=============================================================================
