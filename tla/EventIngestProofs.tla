------------------------- MODULE EventIngestProofs -------------------------
(***************************************************************************)
(* Theorems about EventIngest, for any events, sessions, batches, keys and *)
(* number of requests running at once.                                     *)
(*                                                                         *)
(* Fan-out happens once because each row inserted makes one request hold   *)
(* its event (FanInv).  Keys replay what was done because results on their *)
(* way to a row are of work that is done (DoneInv), and replay one answer  *)
(* because a request that reads its key again finds a row (AnswerInv).     *)
(* Sessions that were reported end because a batch is gone over in order   *)
(* (SessionInv).                                                           *)
(***************************************************************************)
EXTENDS EventIngest, FiniteSetTheorems, TLAPS

-----------------------------------------------------------------------------
(* Types.                                                                  *)

LEMMA JobAt ==
  ASSUME TypeOK, NEW r \in Request
  PROVE  requests[r] \in Job
BY DEF TypeOK

LEMMA IdleType == Idle \in Job
BY DEF Idle, At, Job, Places

LEMMA MoveType ==
  ASSUME TypeOK, NEW r \in Request, NEW rec \in Job, Move(r, rec)
  PROVE  /\ requests' \in [Request -> Job]
         /\ requests'[r] = rec
         /\ \A q \in Request : q # r => requests'[q] = requests[q]
BY DEF TypeOK, Move

LEMMA ErrorType == \A s \in {400, 413} : Error(s) \in Answer
BY DEF Error, Answer

LEMMA ItemsType ==
  ASSUME NEW b \in Body
  PROVE  /\ \A i \in DOMAIN b : b[i] \in Event
         /\ Items(b) \in SUBSET Event
         /\ First(b) \in SUBSET Nat
         /\ First(b) \subseteq DOMAIN b
         /\ b \in Seq(Event)
<1>1. b \in Seq(Event)
  BY IngestAssumption
<1>2. \A i \in DOMAIN b : i \in Nat /\ b[i] \in Event
  BY <1>1
<1> QED BY <1>1, <1>2 DEF Items, First

\* What each step makes of the record of its request.
LEMMA PostType ==
  ASSUME NEW k \in Key \cup {NoKey}, NEW b \in Body \cup {Malformed, Oversized}
  PROVE  At(IF k = NoKey THEN "insert" ELSE "lookup", k, b, None) \in Job
<1>1. b \in Seq(Event) \cup {Malformed, Oversized}
  BY IngestAssumption
<1> QED BY <1>1 DEF At, Job, Places

LEMMA HandledType ==
  ASSUME TypeOK, NEW r \in Request, NEW a \in Answer, Handled(r, a)
  PROVE  requests' \in [Request -> Job]
<1>1. requests[r].key \in Key \cup {NoKey}
  BY JobAt DEF Job
<1>2. CASE requests[r].key # NoKey
  <2>1. requests[r].key \in Key
    BY <1>1, <1>2
  <2>2. At("store", requests[r].key, <<>>, a) \in Job
    BY <2>1 DEF At, Job, Places
  <2> QED BY <1>2, <2>2, IdleType, MoveType DEF Handled
<1>3. CASE requests[r].key = NoKey
  BY <1>3, IdleType, MoveType DEF Handled
<1> QED BY <1>2, <1>3

LEMMA InsertType ==
  ASSUME TypeOK, NEW r \in Request, Insert(r)
  PROVE  /\ requests[r].body \in Body
         /\ [requests[r] EXCEPT
              !.at = "list", !.todo = First(requests[r].body),
              !.fresh = Returned(requests[r].body), !.clean = TRUE,
              !.result = [status |-> 200, batch |-> Items(requests[r].body),
                          inserted |-> Returned(requests[r].body)]] \in Job
<1> DEFINE b == requests[r].body
           a == [status |-> 200, batch |-> Items(b), inserted |-> Returned(b)]
<1>1. requests[r] \in Job
  BY JobAt
<1>2. b \in Body
  BY <1>1 DEF Insert, Job
<1>3. a \in Answer
  BY <1>2, ItemsType DEF Answer, Returned
<1>4. /\ Returned(b) \in SUBSET Event
      /\ First(b) \in SUBSET Nat
      /\ First(b) \subseteq DOMAIN b
  BY <1>2, ItemsType DEF Returned
<1> HIDE DEF a
<1>5. [requests[r] EXCEPT !.at = "list", !.todo = First(b), !.fresh = Returned(b),
                         !.clean = TRUE, !.result = a] \in Job
  BY <1>1, <1>2, <1>3, <1>4 DEF Job, Places
<1> QED BY <1>2, <1>5 DEF a

LEMMA WorkTypes ==
  ASSUME TypeOK, NEW r \in Request
  PROVE  /\ \A ok \in BOOLEAN : requests[r].at = "list" =>
              [requests[r] EXCEPT !.at = "publish", !.listed = ok] \in Job
         /\ \A ok \in BOOLEAN : \A i \in requests[r].todo :
              Passed(r, i, ok) \in Job
         /\ \A e : requests[r].at = "publish" =>
              [requests[r] EXCEPT !.fresh = @ \ {e}] \in Job
         /\ requests[r].at = "lookup" => [requests[r] EXCEPT !.at = "insert"] \in Job
         /\ requests[r].at = "store" => [requests[r] EXCEPT !.at = "reread"] \in Job
<1>1. requests[r] \in Job
  BY JobAt
<1>2. \A ok \in BOOLEAN : requests[r].at = "list" =>
              [requests[r] EXCEPT !.at = "publish", !.listed = ok] \in Job
  BY <1>1 DEF Job, Places
<1>3. \A ok \in BOOLEAN : \A i \in requests[r].todo : Passed(r, i, ok) \in Job
  BY <1>1 DEF Job, Places, Passed
<1>4. \A e : requests[r].at = "publish" => [requests[r] EXCEPT !.fresh = @ \ {e}] \in Job
  BY <1>1 DEF Job, Places
<1>5. requests[r].at = "lookup" => [requests[r] EXCEPT !.at = "insert"] \in Job
  BY <1>1 DEF Job, Places
<1>6. requests[r].at = "store" => [requests[r] EXCEPT !.at = "reread"] \in Job
  BY <1>1 DEF Job, Places
<1> QED BY <1>2, <1>3, <1>4, <1>5, <1>6

LEMMA TellType ==
  ASSUME TypeOK, NEW r \in Request, requests[r].key \in Key, NEW a \in Answer, Tell(r, a)
  PROVE  requests' \in [Request -> Job] /\ told' \in [Key -> SUBSET Answer]
BY IdleType, MoveType DEF Tell, TypeOK

LEMMA OutcomeType ==
  ASSUME TypeOK, NEW ok \in BOOLEAN, Outcome(ok)
  PROVE  posts' \in Nat /\ faults' \in Nat /\ deaths' \in Nat /\ purges' \in Nat
BY DEF Outcome, TypeOK

LEMMA CurrentType ==
  ASSUME TypeOK, NEW r \in Request, NEW i \in requests[r].todo
  PROVE  /\ requests[r].body \in Body
         /\ i \in DOMAIN requests[r].body
         /\ requests[r].body[i] \in Event
<1>1. requests[r].body \in Body /\ i \in DOMAIN requests[r].body
  BY JobAt DEF Job
<1> QED BY <1>1, ItemsType

LEMMA TypeInit == Init => TypeOK
BY IdleType DEF Init, TypeOK

LEMMA CountType ==
  ASSUME NEW f \in [Event -> Nat], NEW e \in Event
  PROVE  [f EXCEPT ![e] = @ + 1] \in [Event -> Nat]
OBVIOUS

LEMMA TypeNext == TypeOK /\ [Next]_vars => TypeOK'
<1> SUFFICES ASSUME TypeOK, [Next]_vars
             PROVE  TypeOK'
  OBVIOUS
<1> USE DEF tables, fanout, keyed, budgets
<1>1. CASE UNCHANGED vars
  BY <1>1 DEF TypeOK, vars
<1>2. ASSUME NEW r \in Request, NEW k \in Key \cup {NoKey},
             NEW b \in Body \cup {Malformed, Oversized}, Post(r, k, b)
      PROVE  TypeOK'
  <2>1. requests' \in [Request -> Job]
    BY <1>2, PostType, MoveType DEF Post
  <2> QED BY <1>2, <2>1 DEF Post, TypeOK
<1>3. ASSUME NEW r \in Request, Lookup(r)
      PROVE  TypeOK'
  <2>1. requests[r].key \in Key
    BY <1>3, JobAt DEF Lookup, Job
  <2>2. CASE answers[requests[r].key] # None
    <3>1. answers[requests[r].key] \in Answer /\ Tell(r, answers[requests[r].key])
      BY <1>3, <2>1, <2>2 DEF Lookup, TypeOK
    <3>2. requests' \in [Request -> Job] /\ told' \in [Key -> SUBSET Answer]
      BY <2>1, <3>1, TellType
    <3> QED BY <1>3, <3>2 DEF Lookup, TypeOK
  <2>3. CASE answers[requests[r].key] = None
    <3>1. requests' \in [Request -> Job]
      BY <1>3, <2>3, WorkTypes, MoveType DEF Lookup
    <3> QED BY <1>3, <2>3, <3>1 DEF Lookup, TypeOK
  <2> QED BY <2>2, <2>3
<1>4. ASSUME NEW r \in Request, Refuse(r)
      PROVE  TypeOK'
  <2>1. requests' \in [Request -> Job]
    BY <1>4, ErrorType, HandledType DEF Refuse
  <2> QED BY <1>4, <2>1 DEF Refuse, TypeOK
<1>5. ASSUME NEW r \in Request, Insert(r)
      PROVE  TypeOK'
  <2>1. requests' \in [Request -> Job]
    BY <1>5, InsertType, MoveType DEF Insert
  <2>2. Items(requests[r].body) \in SUBSET Event
    BY <1>5, InsertType, ItemsType
  <2> QED BY <1>5, <2>1, <2>2 DEF Insert, TypeOK
<1>6. ASSUME NEW r \in Request, NEW ok \in BOOLEAN, List(r, ok)
      PROVE  TypeOK'
  <2>1. requests' \in [Request -> Job]
    BY <1>6, WorkTypes, MoveType DEF List
  <2> QED BY <1>6, <2>1, OutcomeType DEF List, TypeOK
<1>7. ASSUME NEW r \in Request, NEW ok \in BOOLEAN, NEW i \in requests[r].todo,
             Project(r, i, ok)
      PROVE  TypeOK'
  <2> DEFINE e == requests[r].body[i]
  <2>1. requests' \in [Request -> Job]
    BY <1>7, WorkTypes, MoveType DEF Project, Pass
  <2>2. e \in Event
    BY CurrentType
  <2>3. SessionOf[e] \in Sid
    BY <2>2, IngestAssumption
  <2>4. sessions' \in [Sid -> {"none", "started", "complete", "failed"}]
    <3>1. Projected(e) \in [Sid -> {"none", "started", "complete", "failed"}]
      BY <2>3 DEF Projected, TypeOK
    <3> QED BY <1>7, <3>1 DEF Project, Pass, TypeOK
  <2>5. streamed' \in [Event -> Nat]
    BY <1>7, <2>2, CountType DEF Project, Pass, TypeOK
  <2> QED BY <1>7, <2>1, <2>4, <2>5, OutcomeType DEF Project, Pass, TypeOK
<1>8. ASSUME NEW r \in Request, NEW ok \in BOOLEAN, NEW e \in Event, Dispatch(r, e, ok)
      PROVE  TypeOK'
  <2>1. requests' \in [Request -> Job]
    BY <1>8, WorkTypes, MoveType DEF Dispatch
  <2>2. dispatched' \in [Event -> Nat] /\ undispatched' \subseteq Event
    BY <1>8, CountType DEF Dispatch, TypeOK
  <2> QED BY <1>8, <2>1, <2>2, OutcomeType DEF Dispatch, TypeOK
<1>9. ASSUME NEW r \in Request, Finish(r)
      PROVE  TypeOK'
  <2>1. requests[r].result \in Answer
    BY <1>9, JobAt DEF Finish, Job
  <2>2. requests' \in [Request -> Job]
    BY <1>9, <2>1, HandledType DEF Finish
  <2>3. settled' \subseteq Sid
    BY <1>9 DEF Finish, Ended, TypeOK
  <2> QED BY <1>9, <2>2, <2>3 DEF Finish, TypeOK
<1>10. ASSUME NEW r \in Request, Store(r)
       PROVE  TypeOK'
  <2>1. requests' \in [Request -> Job]
    BY <1>10, WorkTypes, MoveType DEF Store
  <2>2. requests[r].key \in Key /\ requests[r].result \in Answer
    BY <1>10, JobAt DEF Store, Job
  <2>3. answers' \in [Key -> Answer \cup {None}]
    BY <1>10, <2>2 DEF Store, TypeOK
  <2> QED BY <1>10, <2>1, <2>3 DEF Store, TypeOK
<1>11. ASSUME NEW r \in Request, StoreFails(r)
       PROVE  TypeOK'
  <2>1. requests[r].key \in Key /\ requests[r].result \in Answer
    BY <1>11, JobAt DEF StoreFails, Job
  <2>2. requests' \in [Request -> Job] /\ told' \in [Key -> SUBSET Answer]
    BY <1>11, <2>1, TellType DEF StoreFails
  <2> QED BY <1>11, <2>1, <2>2, OutcomeType DEF StoreFails, TypeOK
<1>12. ASSUME NEW r \in Request, Reread(r)
       PROVE  TypeOK'
  <2>1. requests[r].key \in Key /\ requests[r].result \in Answer
    BY <1>12, JobAt DEF Reread, Job
  <2>2. \E a \in Answer : Tell(r, a)
    BY <1>12, <2>1 DEF Reread, TypeOK
  <2>3. requests' \in [Request -> Job] /\ told' \in [Key -> SUBSET Answer]
    BY <2>1, <2>2, TellType
  <2> QED BY <1>12, <2>3 DEF Reread, TypeOK
<1>13. ASSUME NEW r \in Request, Throw(r)
       PROVE  TypeOK'
  <2>1. requests' \in [Request -> Job]
    BY <1>13, IdleType, MoveType DEF Throw
  <2> QED BY <1>13, <2>1, OutcomeType DEF Throw, TypeOK
<1>14. ASSUME NEW r \in Request, Die(r)
       PROVE  TypeOK'
  <2>1. requests' \in [Request -> Job]
    BY <1>14, IdleType, MoveType DEF Die
  <2>2. requests[r].fresh \in SUBSET Event
    BY JobAt DEF Job
  <2> QED BY <1>14, <2>1, <2>2 DEF Die, ToStream, ToDispatch, TypeOK
<1>15. ASSUME NEW es \in SUBSET Event, NEW ks \in SUBSET Key, RetentionSweep(es, ks)
       PROVE  TypeOK'
  <2>1. purged' \in [Event -> Nat] /\ answers' \in [Key -> Answer \cup {None}]
    BY <1>15 DEF RetentionSweep, TypeOK
  <2> QED BY <1>15, <2>1 DEF RetentionSweep, TypeOK
<1> QED BY <1>1, <1>2, <1>3, <1>4, <1>5, <1>6, <1>7, <1>8, <1>9, <1>10, <1>11, <1>12,
           <1>13, <1>14, <1>15 DEF Next, Proceed

\* Rows, requests and counts keep their types.
THEOREM TypeCorrect == Spec => []TypeOK
BY TypeInit, TypeNext, PTL DEF Spec

-----------------------------------------------------------------------------
(* PinnedIsDone: the answers on their way to a key are of work that is done *)
(* too, and retention takes nothing that it does not count.                *)

ResultsAreDone ==
  \A r \in Request :
    requests[r].at \in {"list", "publish", "store", "reread"} => IsDone(requests[r].result)

DoneInv == TypeOK /\ PinnedIsDone /\ ResultsAreDone

LEMMA DoneInit == Init => DoneInv
BY TypeInit DEF Init, Idle, At, DoneInv, PinnedIsDone, ResultsAreDone

\* IsDone of the next state, of an answer given by any expression.
DoneNext(a) ==
  \/ a.status = 400
  \/ a.status = 200 /\ \A e \in a.batch : e \in stored' \/ purged'[e] > 0

\* What is done stays done.
LEMMA StaysDone ==
  ASSUME TypeOK, [Next]_vars
  PROVE  \A a \in Answer : IsDone(a) => DoneNext(a)
<1>1. \A e \in Event : e \in stored \/ purged[e] > 0 => (e \in stored \/ purged[e] > 0)'
  <2> SUFFICES ASSUME NEW e \in Event, e \in stored \/ purged[e] > 0
               PROVE  (e \in stored \/ purged[e] > 0)'
    OBVIOUS
  <2> USE DEF tables, fanout, keyed, budgets
  <2>1. ASSUME NEW es \in SUBSET Event, NEW ks \in SUBSET Key, RetentionSweep(es, ks)
        PROVE  (e \in stored \/ purged[e] > 0)'
    BY <2>1 DEF RetentionSweep, TypeOK
  <2>2. ASSUME NEW r \in Request, Insert(r)
        PROVE  (e \in stored \/ purged[e] > 0)'
    BY <2>2 DEF Insert
  <2>3. CASE UNCHANGED <<stored, purged>>
    BY <2>3
  <2>4. ASSUME NEW r \in Request, Proceed(r)
        PROVE  Insert(r) \/ UNCHANGED <<stored, purged>>
    BY <2>4 DEF Proceed, Lookup, Refuse, Finish, Store, Reread, List, Project, Pass, Dispatch
  <2>5. ASSUME NEW r \in Request, StoreFails(r) \/ Throw(r) \/ Die(r)
        PROVE  UNCHANGED <<stored, purged>>
    BY <2>5 DEF StoreFails, Throw, Die
  <2>6. ASSUME NEW r \in Request, NEW k \in Key \cup {NoKey},
               NEW b \in Body \cup {Malformed, Oversized}, Post(r, k, b)
        PROVE  UNCHANGED <<stored, purged>>
    BY <2>6 DEF Post
  <2>7. UNCHANGED vars => UNCHANGED <<stored, purged>>
    BY DEF vars
  <2> QED BY <2>1, <2>2, <2>3, <2>4, <2>5, <2>6, <2>7 DEF Next
<1>2. \A a \in Answer : \A e \in a.batch : e \in Event
  BY DEF Answer
<1> QED BY <1>1, <1>2 DEF IsDone, DoneNext

\* It is enough that new answers and results are of work that is done.
LEMMA DoneStep ==
  ASSUME DoneInv, [Next]_vars, NEW r \in Request,
         \A q \in Request : q # r => requests'[q] = requests[q],
         requests'[r].at \in {"list", "publish", "store", "reread"} =>
           \/ DoneNext(requests'[r].result)
           \/ /\ requests'[r].result = requests[r].result
              /\ requests[r].at \in {"list", "publish", "store", "reread"},
         \A k \in Key : \/ answers'[k] = answers[k]
                        \/ answers'[k] = None
                        \/ DoneNext(answers'[k])
  PROVE  DoneInv'
<1>1. TypeOK'
  BY TypeNext DEF DoneInv
<1>2. \A q \in Request : requests[q].at \in {"list", "publish", "store", "reread"} =>
        DoneNext(requests[q].result)
  <2> TAKE q \in Request
  <2> HAVE requests[q].at \in {"list", "publish", "store", "reread"}
  <2>1. requests[q].result \in Answer
    BY JobAt DEF DoneInv, Job
  <2> QED BY <2>1, StaysDone DEF DoneInv, ResultsAreDone
<1>3. \A k \in Key : answers[k] # None => DoneNext(answers[k])
  <2> TAKE k \in Key
  <2> HAVE answers[k] # None
  <2>1. answers[k] \in Answer
    BY DEF DoneInv, TypeOK
  <2> QED BY <2>1, StaysDone DEF DoneInv, PinnedIsDone
<1>4. PinnedIsDone'
  <2>1. \A k \in Key : answers'[k] # None => DoneNext(answers'[k])
    BY <1>3
  <2> QED BY <2>1 DEF PinnedIsDone, IsDone, DoneNext
<1>5. ResultsAreDone'
  <2>1. \A q \in Request : requests'[q].at \in {"list", "publish", "store", "reread"} =>
          DoneNext(requests'[q].result)
    BY <1>2
  <2> QED BY <2>1 DEF ResultsAreDone, IsDone, DoneNext
<1> QED BY <1>1, <1>4, <1>5 DEF DoneInv

\* A step is of one request, or of retention.
LEMMA Others ==
  ASSUME TypeOK, NEW r \in Request,
         \/ \E k \in Key \cup {NoKey}, b \in Body \cup {Malformed, Oversized} : Post(r, k, b)
         \/ Proceed(r) \/ StoreFails(r) \/ Throw(r) \/ Die(r)
  PROVE  \A q \in Request : q # r => requests'[q] = requests[q]
<1>1. CASE \E k \in Key \cup {NoKey}, b \in Body \cup {Malformed, Oversized} : Post(r, k, b)
  BY <1>1 DEF Post, Move, TypeOK
<1>2. CASE Lookup(r) \/ Reread(r) \/ StoreFails(r)
  BY <1>2 DEF Lookup, Reread, StoreFails, Tell, Move, TypeOK
<1>3. CASE Refuse(r) \/ Finish(r)
  BY <1>3 DEF Refuse, Finish, Handled, Move, TypeOK
<1>4. CASE Insert(r)
  BY <1>4 DEF Insert, Move, TypeOK
<1>5. CASE Store(r) \/ Throw(r) \/ Die(r)
  BY <1>5 DEF Store, Throw, Die, Move, TypeOK
<1>6. ASSUME NEW ok \in BOOLEAN, List(r, ok)
      PROVE  \A q \in Request : q # r => requests'[q] = requests[q]
  BY <1>6 DEF List, Move, TypeOK
<1>7. ASSUME NEW ok \in BOOLEAN, NEW i \in requests[r].todo, Project(r, i, ok)
      PROVE  \A q \in Request : q # r => requests'[q] = requests[q]
  BY <1>7 DEF Project, Pass, Move, TypeOK
<1>8. ASSUME NEW ok \in BOOLEAN, NEW e \in Event, Dispatch(r, e, ok)
      PROVE  \A q \in Request : q # r => requests'[q] = requests[q]
  BY <1>8 DEF Dispatch, Move, TypeOK
<1> QED BY <1>1, <1>2, <1>3, <1>4, <1>5, <1>6, <1>7, <1>8 DEF Proceed

\* What each step leaves of the record of its request.
LEMMA LookupLeaves ==
  ASSUME TypeOK, NEW r \in Request, Lookup(r)
  PROVE  \/ requests'[r] = Idle
         \/ /\ requests'[r].at = "insert"
            /\ requests'[r].key = requests[r].key
            /\ UNCHANGED told
<1>1. requests[r] \in Job
  BY JobAt
<1>2. CASE answers[requests[r].key] # None
  BY <1>2 DEF Lookup, Tell, Move, TypeOK
<1>3. CASE answers[requests[r].key] = None
  <2>1. requests'[r] = [requests[r] EXCEPT !.at = "insert"] /\ UNCHANGED told
    BY <1>3 DEF Lookup, Move, TypeOK
  <2>2. /\ [requests[r] EXCEPT !.at = "insert"].at = "insert"
        /\ [requests[r] EXCEPT !.at = "insert"].key = requests[r].key
    BY <1>1 DEF Job
  <2> QED BY <2>1, <2>2
<1> QED BY <1>2, <1>3

LEMMA InsertLeaves ==
  ASSUME TypeOK, NEW r \in Request, Insert(r)
  PROVE  /\ requests'[r].at = "list"
         /\ requests'[r].key = requests[r].key
         /\ requests'[r].body = requests[r].body
         /\ requests'[r].todo = First(requests[r].body)
         /\ requests'[r].fresh = Returned(requests[r].body)
         /\ requests'[r].result =
              [status |-> 200, batch |-> Items(requests[r].body),
               inserted |-> Returned(requests[r].body)]
<1> DEFINE b == requests[r].body
           t == First(b)
           f == Returned(b)
           a == [status |-> 200, batch |-> Items(b), inserted |-> f]
           rec == [requests[r] EXCEPT !.at = "list", !.todo = t, !.fresh = f,
                                      !.clean = TRUE, !.result = a]
<1>1. requests[r] \in Job
  BY JobAt
<1>2. requests'[r] = rec
  BY DEF Insert, Move, TypeOK
<1> HIDE DEF a, t, f, b
<1>3. /\ rec.at = "list" /\ rec.key = requests[r].key /\ rec.body = requests[r].body
      /\ rec.todo = t /\ rec.fresh = f /\ rec.result = a
  BY <1>1 DEF Job
<1> QED BY <1>2, <1>3 DEF a, t, f, b

LEMMA ListLeaves ==
  ASSUME TypeOK, NEW r \in Request, NEW ok \in BOOLEAN, List(r, ok)
  PROVE  /\ requests'[r].at = "publish"
         /\ requests'[r].key = requests[r].key
         /\ requests'[r].body = requests[r].body
         /\ requests'[r].todo = requests[r].todo
         /\ requests'[r].fresh = requests[r].fresh
         /\ requests'[r].clean = requests[r].clean
         /\ requests'[r].result = requests[r].result
<1> DEFINE rec == [requests[r] EXCEPT !.at = "publish", !.listed = ok]
<1>1. requests[r] \in Job
  BY JobAt
<1>2. requests'[r] = rec
  BY DEF List, Move, TypeOK
<1>3. /\ rec.at = "publish" /\ rec.key = requests[r].key /\ rec.body = requests[r].body
      /\ rec.todo = requests[r].todo /\ rec.fresh = requests[r].fresh
      /\ rec.clean = requests[r].clean /\ rec.result = requests[r].result
  BY <1>1 DEF Job
<1> QED BY <1>2, <1>3

LEMMA ProjectLeaves ==
  ASSUME TypeOK, NEW r \in Request, NEW ok \in BOOLEAN, NEW i \in requests[r].todo,
         Project(r, i, ok)
  PROVE  /\ requests'[r].at = "publish"
         /\ requests'[r].key = requests[r].key
         /\ requests'[r].body = requests[r].body
         /\ requests'[r].todo = requests[r].todo \ {i}
         /\ requests'[r].fresh = requests[r].fresh
         /\ requests'[r].clean => requests[r].clean /\ ok
         /\ requests'[r].result = requests[r].result
<1> DEFINE t == requests[r].todo \ {i}
           c == requests[r].clean /\ ok
           rec == [requests[r] EXCEPT !.todo = t, !.clean = c]
<1>1. requests[r] \in Job /\ requests[r].at = "publish"
  BY JobAt DEF Project, Pass, IsNext
<1>2. requests'[r] = Passed(r, i, ok)
  BY DEF Project, Pass, Move, TypeOK
<1>3. Passed(r, i, ok) = rec
  BY DEF Passed
<1> HIDE DEF t, c
<1>4. /\ rec.at = requests[r].at /\ rec.key = requests[r].key
      /\ rec.body = requests[r].body
      /\ rec.todo = t /\ rec.fresh = requests[r].fresh
      /\ rec.clean = c /\ rec.result = requests[r].result
  BY <1>1 DEF Job
<1> QED BY <1>1, <1>2, <1>3, <1>4 DEF t, c

LEMMA DispatchLeaves ==
  ASSUME TypeOK, NEW r \in Request, NEW ok \in BOOLEAN, NEW e \in Event,
         Dispatch(r, e, ok)
  PROVE  /\ requests'[r].at = "publish"
         /\ requests'[r].key = requests[r].key
         /\ requests'[r].body = requests[r].body
         /\ requests'[r].todo = requests[r].todo
         /\ requests'[r].fresh = requests[r].fresh \ {e}
         /\ requests'[r].clean = requests[r].clean
         /\ requests'[r].result = requests[r].result
<1> DEFINE f == requests[r].fresh \ {e}
           rec == [requests[r] EXCEPT !.fresh = f]
<1>1. requests[r] \in Job /\ requests[r].at = "publish"
  BY JobAt DEF Dispatch
<1>2. requests'[r] = rec
  BY DEF Dispatch, Move, TypeOK
<1> HIDE DEF f
<1>3. /\ rec.at = requests[r].at /\ rec.key = requests[r].key
      /\ rec.body = requests[r].body
      /\ rec.todo = requests[r].todo /\ rec.fresh = f
      /\ rec.clean = requests[r].clean /\ rec.result = requests[r].result
  BY <1>1 DEF Job
<1> QED BY <1>1, <1>2, <1>3 DEF f

LEMMA StoreLeaves ==
  ASSUME TypeOK, NEW r \in Request, Store(r)
  PROVE  /\ requests'[r].at = "reread"
         /\ requests'[r].key = requests[r].key
         /\ requests'[r].result = requests[r].result
<1> DEFINE rec == [requests[r] EXCEPT !.at = "reread"]
<1>1. requests[r] \in Job
  BY JobAt
<1>2. requests'[r] = rec
  BY DEF Store, Move, TypeOK
<1>3. /\ rec.at = "reread" /\ rec.key = requests[r].key
      /\ rec.result = requests[r].result
  BY <1>1 DEF Job
<1> QED BY <1>2, <1>3

LEMMA DoneNextStep == DoneInv /\ [Next]_vars => DoneInv'
<1> SUFFICES ASSUME DoneInv, [Next]_vars
             PROVE  DoneInv'
  OBVIOUS
<1> USE DEF tables, fanout, keyed, budgets
<1>t. TypeOK
  BY DEF DoneInv
<1>1. CASE UNCHANGED vars
  BY <1>1 DEF DoneInv, TypeOK, PinnedIsDone, ResultsAreDone, IsDone, vars
<1>i. Idle.at = "idle"
  BY DEF Idle, At
<1>2. ASSUME NEW r \in Request, NEW k \in Key \cup {NoKey},
             NEW b \in Body \cup {Malformed, Oversized}, Post(r, k, b)
      PROVE  DoneInv'
  <2>1. requests'[r].at \in {"insert", "lookup"}
    BY <1>t, <1>2, PostType, MoveType DEF Post, At
  <2>2. UNCHANGED answers
    BY <1>2 DEF Post
  <2> QED BY <1>t, <1>2, <2>1, <2>2, Others, DoneStep
<1>3. ASSUME NEW r \in Request, Lookup(r)
      PROVE  DoneInv'
  <2>1. requests'[r].at \in {"idle", "insert"}
    BY <1>t, <1>i, <1>3, LookupLeaves
  <2>2. UNCHANGED answers
    BY <1>3 DEF Lookup
  <2> QED BY <1>t, <1>3, <2>1, <2>2, Others, DoneStep DEF Proceed
<1>4. ASSUME NEW r \in Request, NEW a \in Answer, Handled(r, a), Proceed(r),
             UNCHANGED answers, DoneNext(a) \/ ~Cacheable(a.status)
      PROVE  DoneInv'
  <2>1. CASE requests'[r] = Idle
    BY <1>t, <1>i, <1>4, <2>1, Others, DoneStep
  <2>2. CASE requests'[r] # Idle
    <3>1. /\ Cacheable(a.status)
          /\ requests'[r] = At("store", requests[r].key, <<>>, a)
      BY <1>t, <1>4, <2>2 DEF Handled, Move, TypeOK
    <3>2. requests'[r].result = a
      BY <3>1 DEF At
    <3> QED BY <1>t, <1>4, <3>1, <3>2, Others, DoneStep
  <2> QED BY <2>1, <2>2
<1>5. ASSUME NEW r \in Request, Refuse(r)
      PROVE  DoneInv'
  <2>1. /\ Error(400) \in Answer /\ Error(400).status = 400
        /\ Error(413) \in Answer /\ Error(413).status = 413
    BY ErrorType DEF Error
  <2>2. ~Cacheable(413)
    BY DEF Cacheable
  <2> QED BY <1>4, <1>5, <2>1, <2>2 DEF Refuse, Proceed, DoneNext
<1>6. ASSUME NEW r \in Request, Finish(r)
      PROVE  DoneInv'
  <2>1. requests[r].result \in Answer
    BY <1>6, <1>t, JobAt DEF Finish, Job
  <2>2. IsDone(requests[r].result)
    BY <1>6 DEF Finish, DoneInv, ResultsAreDone
  <2>3. DoneNext(requests[r].result)
    BY <1>t, <2>1, <2>2, StaysDone
  <2> QED BY <1>4, <1>6, <2>1, <2>3 DEF Finish, Proceed
<1>7. ASSUME NEW r \in Request, Insert(r)
      PROVE  DoneInv'
  <2> DEFINE b == requests[r].body
             a == [status |-> 200, batch |-> Items(b), inserted |-> Returned(b)]
  <2>1. DoneNext(a)
    BY <1>7 DEF DoneNext, Insert
  <2>2. requests'[r].result = a
    BY <1>t, <1>7, InsertLeaves
  <2> HIDE DEF a
  <2>3. UNCHANGED answers
    BY <1>7 DEF Insert
  <2> QED BY <1>t, <1>7, <2>1, <2>2, <2>3, Others, DoneStep DEF Proceed
<1>8. ASSUME NEW r \in Request, NEW ok \in BOOLEAN,
             \/ List(r, ok)
             \/ \E i \in requests[r].todo : Project(r, i, ok)
             \/ \E e \in Event : Dispatch(r, e, ok)
      PROVE  DoneInv'
  <2>1. requests[r].at \in {"list", "publish"} /\ UNCHANGED answers
    BY <1>8 DEF List, Project, Pass, IsNext, Dispatch
  <2>2. requests'[r].result = requests[r].result
    BY <1>t, <1>8, ListLeaves, ProjectLeaves, DispatchLeaves
  <2> QED BY <1>t, <1>8, <2>1, <2>2, Others, DoneStep DEF Proceed
<1>9. ASSUME NEW r \in Request, Store(r)
      PROVE  DoneInv'
  <2>1. requests[r].key \in Key /\ requests[r].result \in Answer
    BY <1>t, <1>9, JobAt DEF Store, Job
  <2>2. DoneNext(requests[r].result)
    BY <1>t, <1>9, <2>1, StaysDone DEF Store, DoneInv, ResultsAreDone
  <2>3. \A k \in Key : answers'[k] = answers[k] \/ DoneNext(answers'[k])
    BY <1>t, <1>9, <2>2 DEF Store, TypeOK
  <2>5. requests'[r].result = requests[r].result
    BY <1>t, <1>9, StoreLeaves
  <2>6. requests[r].at = "store"
    BY <1>9 DEF Store
  <2> QED BY <1>t, <1>9, <2>3, <2>5, <2>6, Others, DoneStep DEF Proceed
<1>10. ASSUME NEW r \in Request, Reread(r) \/ StoreFails(r) \/ Throw(r) \/ Die(r)
       PROVE  DoneInv'
  <2>1. requests'[r].at = "idle" /\ UNCHANGED answers
    BY <1>t, <1>i, <1>10, IdleType, MoveType DEF Reread, StoreFails, Throw, Die, Tell
  <2> QED BY <1>t, <1>10, <2>1, Others, DoneStep DEF Proceed
<1>11. ASSUME NEW es \in SUBSET Event, NEW ks \in SUBSET Key, RetentionSweep(es, ks)
       PROVE  DoneInv'
  <2>1. \A k \in Key : answers'[k] = answers[k] \/ answers'[k] = None
    BY <1>11 DEF RetentionSweep
  <2>2. UNCHANGED requests
    BY <1>11 DEF RetentionSweep
  <2>3. CASE Request = {}
    <3>1. PinnedIsDone'
      <4>1. \A k \in Key : answers[k] # None => DoneNext(answers[k])
        BY <1>t, StaysDone DEF DoneInv, TypeOK, PinnedIsDone
      <4> QED BY <2>1, <4>1 DEF PinnedIsDone, IsDone, DoneNext
    <3> QED BY <1>t, <2>3, <3>1, TypeNext DEF DoneInv, ResultsAreDone
  <2>4. ASSUME NEW r \in Request
        PROVE  DoneInv'
    BY <2>1, <2>2, DoneStep
  <2> QED BY <2>3, <2>4
<1> QED BY <1>1, <1>2, <1>3, <1>5, <1>6, <1>7, <1>8, <1>9, <1>10, <1>11 DEF Next, Proceed

\* What an Idempotency-Key replays was done, for any batches and interleaving.
THEOREM ReplaysWhatWasDone == Spec => []PinnedIsDone
<1>1. DoneInv => PinnedIsDone
  BY DEF DoneInv
<1> QED BY <1>1, DoneInit, DoneNextStep, PTL DEF Spec

-----------------------------------------------------------------------------
(* OneAnswerPerKey: a request that reads its key again finds a row there,  *)
(* unless retention deleted it, and rows of keys are never changed.        *)

RowWhenReread ==
  \A r \in Request :
    requests[r].at = "reread" /\ requests[r].key \notin loose =>
      answers[requests[r].key] # None

AnswerInv == TypeOK /\ OneAnswerPerKey /\ RowWhenReread

LEMMA AnswerInit == Init => AnswerInv
BY TypeInit DEF Init, Idle, At, AnswerInv, OneAnswerPerKey, RowWhenReread

\* Steps that tell nothing and leave the rows alone.
LEMMA AnswerQuiet ==
  ASSUME AnswerInv, [Next]_vars, NEW r \in Request,
         \A q \in Request : q # r => requests'[q] = requests[q],
         requests'[r].at # "reread", UNCHANGED <<answers, told, loose>>
  PROVE  AnswerInv'
<1>1. TypeOK'
  BY TypeNext DEF AnswerInv
<1>2. OneAnswerPerKey'
  BY DEF AnswerInv, OneAnswerPerKey
<1>3. RowWhenReread'
  BY DEF AnswerInv, RowWhenReread
<1> QED BY <1>1, <1>2, <1>3 DEF AnswerInv

\* A request is told the row of its key, and ends.
LEMMA AnswerTold ==
  ASSUME AnswerInv, [Next]_vars, NEW r \in Request, requests[r].key \in Key,
         \A q \in Request : q # r => requests'[q] = requests[q],
         NEW a \in Answer, Tell(r, a), UNCHANGED answers, loose \subseteq loose',
         requests[r].key \notin loose' => a = answers[requests[r].key]
  PROVE  AnswerInv'
<1>1. TypeOK'
  BY TypeNext DEF AnswerInv
<1>2. OneAnswerPerKey'
  <2> SUFFICES ASSUME NEW k \in Key, k \notin loose', told'[k] # {}
               PROVE  told'[k] = {answers[k]}
    BY DEF OneAnswerPerKey
  <2>1. told[k] # {} => told[k] = {answers[k]}
    BY DEF AnswerInv, OneAnswerPerKey
  <2>2. CASE k = requests[r].key
    <3>1. told'[k] = told[k] \cup {a} /\ a = answers[k]
      BY <2>2 DEF Tell, AnswerInv, TypeOK
    <3> QED BY <2>1, <3>1
  <2>3. CASE k # requests[r].key
    BY <2>1, <2>3 DEF Tell, AnswerInv, TypeOK
  <2> QED BY <2>2, <2>3
<1>3. requests'[r].at = "idle"
  BY DEF Tell, Move, Idle, At, AnswerInv, TypeOK
<1>4. RowWhenReread'
  BY <1>3 DEF AnswerInv, RowWhenReread
<1> QED BY <1>1, <1>2, <1>4 DEF AnswerInv

LEMMA AnswerNext == AnswerInv /\ [Next]_vars => AnswerInv'
<1> SUFFICES ASSUME AnswerInv, [Next]_vars
             PROVE  AnswerInv'
  OBVIOUS
<1> USE DEF tables, fanout, keyed, budgets
<1>t. TypeOK
  BY DEF AnswerInv
<1>i. Idle.at = "idle"
  BY DEF Idle, At
<1>1. CASE UNCHANGED vars
  BY <1>1 DEF AnswerInv, TypeOK, OneAnswerPerKey, RowWhenReread, vars
<1>2. ASSUME NEW r \in Request, NEW k \in Key \cup {NoKey},
             NEW b \in Body \cup {Malformed, Oversized}, Post(r, k, b)
      PROVE  AnswerInv'
  <2>1. requests'[r].at \in {"insert", "lookup"}
    BY <1>t, <1>2, PostType, MoveType DEF Post, At
  <2>2. UNCHANGED <<answers, told, loose>>
    BY <1>2 DEF Post
  <2> QED BY <1>t, <1>2, <2>1, <2>2, Others, AnswerQuiet
<1>3. ASSUME NEW r \in Request, Lookup(r)
      PROVE  AnswerInv'
  <2>1. requests[r].key \in Key /\ UNCHANGED <<answers, loose>>
    BY <1>t, <1>3, JobAt DEF Lookup, Job
  <2>2. CASE answers[requests[r].key] # None
    <3>1. answers[requests[r].key] \in Answer /\ Tell(r, answers[requests[r].key])
      BY <1>t, <1>3, <2>1, <2>2 DEF Lookup, TypeOK
    <3> QED BY <1>t, <1>3, <2>1, <3>1, Others, AnswerTold DEF Proceed
  <2>3. CASE answers[requests[r].key] = None
    <3>1. requests'[r].at # "reread"
      BY <1>t, <1>3, <1>i, LookupLeaves
    <3>2. UNCHANGED told
      BY <1>3, <2>3 DEF Lookup
    <3> QED BY <1>t, <1>3, <2>1, <3>1, <3>2, Others, AnswerQuiet DEF Proceed
  <2> QED BY <2>2, <2>3
<1>4. ASSUME NEW r \in Request, Refuse(r) \/ Finish(r)
      PROVE  AnswerInv'
  <2>1. requests'[r].at \in {"store", "idle"}
    BY <1>t, <1>i, <1>4 DEF Refuse, Finish, Handled, Move, At, TypeOK
  <2>2. UNCHANGED <<answers, told, loose>>
    BY <1>4 DEF Refuse, Finish
  <2> QED BY <1>t, <1>4, <2>1, <2>2, Others, AnswerQuiet DEF Proceed
<1>5. ASSUME NEW r \in Request, NEW ok \in BOOLEAN,
             \/ Insert(r) \/ List(r, ok)
             \/ \E i \in requests[r].todo : Project(r, i, ok)
             \/ \E e \in Event : Dispatch(r, e, ok)
      PROVE  AnswerInv'
  <2>1. requests'[r].at # "reread"
    <3>1. CASE Insert(r) \/ List(r, ok)
      BY <1>t, <3>1, InsertLeaves, ListLeaves
    <3>2. ASSUME NEW i \in requests[r].todo, Project(r, i, ok)
          PROVE  requests'[r].at # "reread"
      BY <1>t, <3>2, ProjectLeaves
    <3>3. ASSUME NEW e \in Event, Dispatch(r, e, ok)
          PROVE  requests'[r].at # "reread"
      BY <1>t, <3>3, DispatchLeaves
    <3> QED BY <1>5, <3>1, <3>2, <3>3
  <2>2. UNCHANGED <<answers, told, loose>>
    <3>1. CASE Insert(r) \/ List(r, ok)
      BY <3>1 DEF Insert, List
    <3>2. ASSUME NEW i \in requests[r].todo, Project(r, i, ok)
          PROVE  UNCHANGED <<answers, told, loose>>
      BY <3>2 DEF Project, Pass
    <3>3. ASSUME NEW e \in Event, Dispatch(r, e, ok)
          PROVE  UNCHANGED <<answers, told, loose>>
      BY <3>3 DEF Dispatch
    <3> QED BY <1>5, <3>1, <3>2, <3>3
  <2> QED BY <1>t, <1>5, <2>1, <2>2, Others, AnswerQuiet DEF Proceed
<1>6. ASSUME NEW r \in Request, Store(r)
      PROVE  AnswerInv'
  <2> DEFINE k == requests[r].key
  <2>1. k \in Key /\ requests[r].result \in Answer /\ requests[r].result # None
    BY <1>t, <1>6, JobAt, IngestAssumption DEF Store, Job, Answer
  <2>2. /\ \A q \in Request : q # r => requests'[q] = requests[q]
        /\ requests'[r].key = k
    BY <1>t, <1>6, Others, StoreLeaves DEF Proceed
  <2>3. /\ answers'[k] # None
        /\ \A l \in Key : answers[l] # None => answers'[l] = answers[l]
        /\ UNCHANGED <<told, loose>>
    BY <1>t, <1>6, <2>1 DEF Store, TypeOK
  <2>4. OneAnswerPerKey'
    <3> SUFFICES ASSUME NEW l \in Key, l \notin loose, told[l] # {}
                 PROVE  told[l] = {answers'[l]}
      BY <2>3 DEF OneAnswerPerKey
    <3>1. told[l] = {answers[l]}
      BY DEF AnswerInv, OneAnswerPerKey
    <3>2. answers[l] # None
      BY <1>t, <3>1, IngestAssumption DEF TypeOK, Answer
    <3> QED BY <2>3, <3>1, <3>2
  <2>5. RowWhenReread'
    <3> SUFFICES ASSUME NEW q \in Request, requests'[q].at = "reread",
                        requests'[q].key \notin loose
                 PROVE  answers'[requests'[q].key] # None
      BY <2>3 DEF RowWhenReread
    <3>1. CASE q = r
      BY <2>2, <2>3, <3>1
    <3>2. CASE q # r
      <4>1. answers[requests[q].key] # None /\ requests[q].key \in Key
        BY <1>t, <2>2, <3>2, JobAt DEF AnswerInv, RowWhenReread, Job
      <4> QED BY <2>2, <2>3, <3>2, <4>1
    <3> QED BY <3>1, <3>2
  <2> QED BY <1>t, <2>4, <2>5, TypeNext DEF AnswerInv
<1>7. ASSUME NEW r \in Request, StoreFails(r)
      PROVE  AnswerInv'
  <2>1. requests[r].key \in Key /\ requests[r].result \in Answer
    BY <1>t, <1>7, JobAt DEF StoreFails, Job
  <2>2. /\ Tell(r, requests[r].result)
        /\ UNCHANGED answers
        /\ loose' = loose \cup {requests[r].key}
    BY <1>7 DEF StoreFails
  <2> QED BY <1>t, <1>7, <2>1, <2>2, Others, AnswerTold
<1>8. ASSUME NEW r \in Request, Reread(r)
      PROVE  AnswerInv'
  <2> DEFINE k == requests[r].key
             a == IF answers[k] # None THEN answers[k] ELSE requests[r].result
  <2>1. k \in Key /\ requests[r].result \in Answer
    BY <1>t, <1>8, JobAt DEF Reread, Job
  <2>2. a \in Answer
    BY <1>t, <2>1 DEF TypeOK
  <2>3. Tell(r, a) /\ UNCHANGED <<answers, loose>>
    BY <1>8 DEF Reread
  <2>4. k \notin loose => a = answers[k]
    BY <1>8 DEF Reread, AnswerInv, RowWhenReread
  <2> HIDE DEF a
  <2> QED BY <1>t, <1>8, <2>1, <2>2, <2>3, <2>4, Others, AnswerTold DEF Proceed
<1>9. ASSUME NEW r \in Request, Throw(r) \/ Die(r)
      PROVE  AnswerInv'
  <2>1. requests'[r].at = "idle" /\ UNCHANGED <<answers, told, loose>>
    BY <1>t, <1>i, <1>9, IdleType, MoveType DEF Throw, Die
  <2> QED BY <1>t, <1>9, <2>1, Others, AnswerQuiet
<1>10. ASSUME NEW es \in SUBSET Event, NEW ks \in SUBSET Key, RetentionSweep(es, ks)
       PROVE  AnswerInv'
  <2>1. /\ \A k \in Key \ loose' : answers'[k] = answers[k] /\ k \notin loose
        /\ UNCHANGED <<told, requests>>
    BY <1>10 DEF RetentionSweep
  <2>2. OneAnswerPerKey'
    BY <2>1 DEF AnswerInv, OneAnswerPerKey
  <2>3. RowWhenReread'
    <3> SUFFICES ASSUME NEW q \in Request, requests[q].at = "reread",
                        requests[q].key \notin loose'
                 PROVE  answers'[requests[q].key] # None
      BY <2>1 DEF RowWhenReread
    <3>1. requests[q].key \in Key
      BY <1>t, JobAt DEF Job
    <3> QED BY <2>1, <3>1 DEF AnswerInv, RowWhenReread
  <2> QED BY <1>t, <2>2, <2>3, TypeNext DEF AnswerInv
<1> QED BY <1>1, <1>2, <1>3, <1>4, <1>5, <1>6, <1>7, <1>8, <1>9, <1>10 DEF Next, Proceed

\* All requests with a key get one answer, as long as its row is kept.
THEOREM KeyHasOneAnswer == Spec => []OneAnswerPerKey
<1>1. AnswerInv => OneAnswerPerKey
  BY DEF AnswerInv
<1> QED BY <1>1, AnswerInit, AnswerNext, PTL DEF Spec

-----------------------------------------------------------------------------
(* ReportedSessionsEnd: a batch is gone over in order, so when the end of a *)
(* session is projected without a fault its start has been, and sessions   *)
(* never go back.                                                          *)

Over == {"complete", "failed"}

\* The positions of its batch a request has gone over.
Gone(r) == First(requests[r].body) \ requests[r].todo

Working(r) == requests[r].at \in {"list", "publish"}

InOrder(r) ==
  Working(r) => \A i \in Gone(r), j \in requests[r].todo : i < j

Shown(r) ==
  LET b == requests[r].body IN
  Working(r) /\ requests[r].clean =>
    \A i \in Gone(r) : Type[b[i]] = "started" =>
      /\ sessions[SessionOf[b[i]]] # "none"
      /\ \A j \in Gone(r) :
           i < j /\ SessionOf[b[j]] = SessionOf[b[i]] /\ Type[b[j]] \in Over =>
             sessions[SessionOf[b[i]]] \in Over

SessionInv ==
  /\ TypeOK
  /\ ReportedSessionsEnd
  /\ \A r \in Request : InOrder(r) /\ Shown(r)

LEMMA SessionInit == Init => SessionInv
BY TypeInit DEF Init, Idle, At, SessionInv, ReportedSessionsEnd, InOrder, Shown, Working

\* Sessions only go forward.
LEMMA SessionsForward ==
  ASSUME TypeOK, [Next]_vars
  PROVE  \A s \in Sid : /\ sessions[s] # "none" => sessions'[s] # "none"
                        /\ sessions[s] \in Over => sessions'[s] \in Over
<1> USE DEF tables, fanout, keyed, budgets
<1>1. ASSUME NEW r \in Request, NEW ok \in BOOLEAN, NEW i \in requests[r].todo,
             Project(r, i, ok)
      PROVE  \A s \in Sid : /\ sessions[s] # "none" => sessions'[s] # "none"
                            /\ sessions[s] \in Over => sessions'[s] \in Over
  <2>1. sessions' = sessions \/ sessions' = Projected(requests[r].body[i])
    BY <1>1 DEF Project, Pass
  <2>2. SessionOf[requests[r].body[i]] \in Sid
    BY CurrentType, IngestAssumption
  <2> QED BY <2>1, <2>2 DEF Projected, Over, TypeOK
<1>2. CASE UNCHANGED sessions
  BY <1>2
<1>3. ASSUME NEW r \in Request, Proceed(r)
      PROVE  \/ \E ok \in BOOLEAN, i \in requests[r].todo : Project(r, i, ok)
             \/ UNCHANGED sessions
  BY <1>3 DEF Proceed, Lookup, Refuse, Insert, Finish, Store, Reread, List, Dispatch
<1>4. ASSUME NEW r \in Request, StoreFails(r) \/ Throw(r) \/ Die(r)
      PROVE  UNCHANGED sessions
  BY <1>4 DEF StoreFails, Throw, Die
<1>5. ASSUME NEW r \in Request, NEW k \in Key \cup {NoKey},
             NEW b \in Body \cup {Malformed, Oversized}, Post(r, k, b)
      PROVE  UNCHANGED sessions
  BY <1>5 DEF Post
<1>6. ASSUME NEW es \in SUBSET Event, NEW ks \in SUBSET Key, RetentionSweep(es, ks)
      PROVE  UNCHANGED sessions
  BY <1>6 DEF RetentionSweep
<1>7. UNCHANGED vars => UNCHANGED sessions
  BY DEF vars
<1> QED BY <1>1, <1>2, <1>3, <1>4, <1>5, <1>6, <1>7 DEF Next

\* What a request has gone over stays shown while it does not move.
LEMMA OtherShown ==
  ASSUME SessionInv, [Next]_vars, NEW q \in Request, requests'[q] = requests[q]
  PROVE  InOrder(q)' /\ Shown(q)'
<1>1. Gone(q)' = Gone(q) /\ (Working(q)' <=> Working(q))
  BY DEF Gone, Working
<1>2. \A i \in Gone(q) : Working(q) => SessionOf[requests[q].body[i]] \in Sid
  <2> TAKE i \in Gone(q)
  <2> HAVE Working(q)
  <2>1. requests[q].body \in Body
    BY JobAt DEF SessionInv, Job, Working
  <2>2. requests[q].body[i] \in Event
    BY <2>1, ItemsType DEF Gone
  <2> QED BY <2>2, IngestAssumption
<1>3. InOrder(q)'
  BY <1>1 DEF SessionInv, InOrder
<1>4. \A s \in Sid : /\ sessions[s] # "none" => sessions'[s] # "none"
                     /\ sessions[s] \in Over => sessions'[s] \in Over
  BY SessionsForward DEF SessionInv
<1>5. Shown(q)'
  BY <1>1, <1>2, <1>4 DEF SessionInv, Shown
<1> QED BY <1>3, <1>5

LEMMA SettledStays ==
  ASSUME SessionInv, [Next]_vars, UNCHANGED settled
  PROVE  ReportedSessionsEnd'
<1>1. \A s \in settled : s \in Sid /\ sessions[s] \in Over
  BY DEF SessionInv, TypeOK, ReportedSessionsEnd, Over
<1>2. \A s \in settled : sessions'[s] \in Over
  BY <1>1, SessionsForward DEF SessionInv
<1> QED BY <1>2 DEF ReportedSessionsEnd, Over

\* It is enough to look at the request that moves.
LEMMA SessionStep ==
  ASSUME SessionInv, [Next]_vars, NEW r \in Request,
         \A q \in Request : q # r => requests'[q] = requests[q],
         ReportedSessionsEnd', InOrder(r)', Shown(r)'
  PROVE  SessionInv'
<1>1. \A q \in Request : InOrder(q)' /\ Shown(q)'
  BY OtherShown
<1> QED BY <1>1, TypeNext DEF SessionInv

LEMMA SessionIdle ==
  ASSUME SessionInv, [Next]_vars, NEW r \in Request,
         \A q \in Request : q # r => requests'[q] = requests[q],
         ReportedSessionsEnd', ~Working(r)'
  PROVE  SessionInv'
BY SessionStep DEF InOrder, Shown

\* A request that keeps its place in its batch.
LEMMA SessionSamePlace ==
  ASSUME SessionInv, [Next]_vars, NEW r \in Request,
         \A q \in Request : q # r => requests'[q] = requests[q],
         UNCHANGED settled, Working(r),
         requests'[r].body = requests[r].body, requests'[r].todo = requests[r].todo,
         requests'[r].clean = requests[r].clean
  PROVE  SessionInv'
<1>1. Gone(r)' = Gone(r)
  BY DEF Gone
<1>2. \A i \in Gone(r) : SessionOf[requests[r].body[i]] \in Sid
  <2> TAKE i \in Gone(r)
  <2>1. requests[r].body \in Body
    BY JobAt DEF SessionInv, Job, Working
  <2>2. requests[r].body[i] \in Event
    BY <2>1, ItemsType DEF Gone
  <2> QED BY <2>2, IngestAssumption
<1>3. InOrder(r)'
  BY <1>1 DEF SessionInv, InOrder
<1>4. \A s \in Sid : /\ sessions[s] # "none" => sessions'[s] # "none"
                     /\ sessions[s] \in Over => sessions'[s] \in Over
  BY SessionsForward DEF SessionInv
<1>5. Shown(r)'
  <2> DEFINE b == requests[r].body
  <2> SUFFICES ASSUME requests[r].clean, NEW i \in Gone(r), Type[b[i]] = "started"
               PROVE  /\ sessions'[SessionOf[b[i]]] # "none"
                      /\ \A j \in Gone(r) :
                           i < j /\ SessionOf[b[j]] = SessionOf[b[i]] /\ Type[b[j]] \in Over =>
                             sessions'[SessionOf[b[i]]] \in Over
    BY <1>1 DEF Shown
  <2>1. Shown(r)
    BY DEF SessionInv
  <2>2. /\ sessions[SessionOf[b[i]]] # "none"
        /\ \A j \in Gone(r) :
             i < j /\ SessionOf[b[j]] = SessionOf[b[i]] /\ Type[b[j]] \in Over =>
               sessions[SessionOf[b[i]]] \in Over
    BY <2>1 DEF Shown
  <2> QED BY <1>2, <1>4, <2>2
<1> QED BY <1>3, <1>5, SettledStays, SessionStep

\* The body of the loop: the event at i, the least position left.
LEMMA SessionProject ==
  ASSUME SessionInv, [Next]_vars, NEW r \in Request, NEW ok \in BOOLEAN,
         NEW i \in requests[r].todo, Project(r, i, ok)
  PROVE  SessionInv'
<1> DEFINE b == requests[r].body
<1>t. TypeOK
  BY DEF SessionInv
<1>1. /\ Working(r) /\ b \in Body /\ i \in DOMAIN b /\ i \in Nat
      /\ \A j \in requests[r].todo : j \in Nat /\ i <= j
  BY <1>t, JobAt DEF Project, Pass, IsNext, Working, Job
<1>2. /\ Working(r)'
      /\ requests'[r].body = b
      /\ requests'[r].todo = requests[r].todo \ {i}
      /\ requests'[r].clean => requests[r].clean /\ ok
  BY <1>t, ProjectLeaves DEF Working
<1>3. /\ Gone(r)' \subseteq Gone(r) \cup {i}
      /\ i \notin Gone(r)
      /\ \A j \in Gone(r) : j < i
  BY <1>1, <1>2 DEF Gone, SessionInv, InOrder
<1>4. \A j \in Gone(r) \cup {i} : j \in Nat /\ b[j] \in Event /\ SessionOf[b[j]] \in Sid
  <2> TAKE j \in Gone(r) \cup {i}
  <2>1. j \in DOMAIN b
    BY <1>1, ItemsType DEF Gone
  <2>2. j \in Nat
    BY <1>1, <2>1, ItemsType
  <2> QED BY <1>1, <2>1, <2>2, ItemsType, IngestAssumption
<1>5. InOrder(r)'
  <2> SUFFICES ASSUME NEW g \in Gone(r)', NEW j \in requests[r].todo \ {i}
               PROVE  g < j
    BY <1>2 DEF InOrder
  <2> QED BY <1>1, <1>3, <1>4
<1>6. Shown(r)'
  <2> SUFFICES ASSUME ok, requests[r].clean, NEW g \in Gone(r)', Type[b[g]] = "started"
               PROVE  /\ sessions'[SessionOf[b[g]]] # "none"
                      /\ \A j \in Gone(r)' :
                           g < j /\ SessionOf[b[j]] = SessionOf[b[g]] /\ Type[b[j]] \in Over =>
                             sessions'[SessionOf[b[g]]] \in Over
    BY <1>2 DEF Shown
  <2>1. sessions' = Projected(b[i])
    BY DEF Project, Pass
  <2>2. Shown(r)
    BY DEF SessionInv
  <2>3. \A s \in Sid : /\ sessions[s] # "none" => sessions'[s] # "none"
                       /\ sessions[s] \in Over => sessions'[s] \in Over
    BY SessionsForward DEF SessionInv
  <2>4. CASE g = i
    <3>1. sessions'[SessionOf[b[i]]] # "none"
      BY <1>t, <1>4, <2>1, <2>4 DEF Projected, TypeOK
    <3>2. \A j \in Gone(r)' : ~(g < j)
      BY <1>3, <1>4, <2>4
    <3> QED BY <2>4, <3>1, <3>2
  <2>5. CASE g # i
    <3>1. g \in Gone(r)
      BY <1>3, <2>5
    <3>2. sessions[SessionOf[b[g]]] # "none"
      BY <1>1, <2>2, <3>1 DEF Shown
    <3>3. ASSUME NEW j \in Gone(r)', g < j, SessionOf[b[j]] = SessionOf[b[g]],
                 Type[b[j]] \in Over
          PROVE  sessions'[SessionOf[b[g]]] \in Over
      <4>1. CASE j = i
        BY <1>t, <1>4, <2>1, <3>2, <3>3, <4>1 DEF Projected, Over, TypeOK
      <4>2. CASE j # i
        <5>1. j \in Gone(r)
          BY <1>3, <4>2
        <5>2. sessions[SessionOf[b[g]]] \in Over
          BY <1>1, <2>2, <3>1, <3>3, <5>1 DEF Shown
        <5> QED BY <1>4, <2>3, <3>1, <5>2
      <4> QED BY <4>1, <4>2
    <3> QED BY <1>4, <2>3, <3>1, <3>2, <3>3
  <2> QED BY <2>4, <2>5
<1>7. UNCHANGED settled
  BY DEF Project, Pass, keyed
<1>8. \A q \in Request : q # r => requests'[q] = requests[q]
  BY <1>t, Others DEF Proceed
<1> QED BY <1>5, <1>6, <1>7, <1>8, SettledStays, SessionStep

LEMMA SessionNext == SessionInv /\ [Next]_vars => SessionInv'
<1> SUFFICES ASSUME SessionInv, [Next]_vars
             PROVE  SessionInv'
  OBVIOUS
<1> USE DEF tables, fanout, keyed, budgets
<1>t. TypeOK
  BY DEF SessionInv
<1>i. Idle.at = "idle"
  BY DEF Idle, At
<1>1. CASE UNCHANGED vars
  BY <1>1 DEF SessionInv, TypeOK, ReportedSessionsEnd, InOrder, Shown, Working, Gone, vars
<1>2. ASSUME NEW r \in Request, NEW k \in Key \cup {NoKey},
             NEW b \in Body \cup {Malformed, Oversized}, Post(r, k, b)
      PROVE  SessionInv'
  <2>1. requests'[r].at \in {"insert", "lookup"}
    BY <1>t, <1>2, PostType, MoveType DEF Post, At
  <2>2. UNCHANGED settled
    BY <1>2 DEF Post
  <2> QED BY <1>t, <1>2, <2>1, <2>2, Others, SettledStays, SessionIdle DEF Working
<1>3. ASSUME NEW r \in Request, Lookup(r)
      PROVE  SessionInv'
  <2>1. requests'[r].at \in {"idle", "insert"} /\ UNCHANGED settled
    BY <1>t, <1>i, <1>3, LookupLeaves DEF Lookup
  <2> QED BY <1>t, <1>3, <2>1, Others, SettledStays, SessionIdle DEF Working, Proceed
<1>4. ASSUME NEW r \in Request, Refuse(r)
      PROVE  SessionInv'
  <2>1. requests'[r].at \in {"store", "idle"} /\ UNCHANGED settled
    BY <1>t, <1>i, <1>4 DEF Refuse, Handled, Move, At, TypeOK
  <2> QED BY <1>t, <1>4, <2>1, Others, SettledStays, SessionIdle DEF Working, Proceed
<1>5. ASSUME NEW r \in Request, Insert(r)
      PROVE  SessionInv'
  <2>1. Gone(r)' = {}
    BY <1>t, <1>5, InsertLeaves DEF Gone
  <2>2. InOrder(r)' /\ Shown(r)'
    BY <2>1 DEF InOrder, Shown
  <2>3. UNCHANGED settled
    BY <1>5 DEF Insert
  <2> QED BY <1>t, <1>5, <2>2, <2>3, Others, SettledStays, SessionStep DEF Proceed
<1>6. ASSUME NEW r \in Request, NEW ok \in BOOLEAN, List(r, ok)
      PROVE  SessionInv'
  <2>1. Working(r) /\ UNCHANGED settled
    BY <1>6 DEF List, Working
  <2> QED BY <1>t, <1>6, <2>1, ListLeaves, Others, SessionSamePlace DEF Proceed
<1>7. ASSUME NEW r \in Request, NEW ok \in BOOLEAN, NEW e \in Event, Dispatch(r, e, ok)
      PROVE  SessionInv'
  <2>1. Working(r) /\ UNCHANGED settled
    BY <1>7 DEF Dispatch, Working
  <2> QED BY <1>t, <1>7, <2>1, DispatchLeaves, Others, SessionSamePlace DEF Proceed
<1>8. ASSUME NEW r \in Request, Finish(r)
      PROVE  SessionInv'
  <2> DEFINE b == requests[r].body
  <2>1. requests'[r].at \in {"store", "idle"} /\ UNCHANGED sessions
    BY <1>t, <1>i, <1>8 DEF Finish, Handled, Move, At, TypeOK
  <2>2. \A s \in settled : sessions[s] \in Over
    BY DEF SessionInv, ReportedSessionsEnd, Over
  <2>3. ASSUME requests[r].clean, NEW s \in Ended(b)
        PROVE  sessions[s] \in Over
    <3>1. Gone(r) = First(b) /\ Working(r)
      BY <1>8 DEF Finish, Gone, Working
    <3>2. PICK i \in First(b), j \in First(b) :
            /\ i < j /\ SessionOf[b[i]] = s /\ SessionOf[b[j]] = s
            /\ Type[b[i]] = "started" /\ Type[b[j]] \in Over
      BY DEF Ended, Over
    <3>3. Shown(r)
      BY DEF SessionInv
    <3> QED BY <2>3, <3>1, <3>2, <3>3 DEF Shown
  <2>4. settled' \subseteq settled \cup (IF requests[r].clean THEN Ended(b) ELSE {})
    BY <1>8 DEF Finish
  <2>5. ReportedSessionsEnd'
    BY <2>1, <2>2, <2>3, <2>4 DEF ReportedSessionsEnd, Over
  <2> QED BY <1>t, <1>8, <2>1, <2>5, Others, SessionIdle DEF Working, Proceed
<1>9. ASSUME NEW r \in Request, Store(r) \/ Reread(r)
      PROVE  SessionInv'
  <2>1. requests'[r].at \in {"reread", "idle"} /\ UNCHANGED settled
    BY <1>t, <1>i, <1>9, StoreLeaves, IdleType, MoveType DEF Store, Reread, Tell
  <2> QED BY <1>t, <1>9, <2>1, Others, SettledStays, SessionIdle DEF Working, Proceed
<1>10. ASSUME NEW r \in Request, StoreFails(r) \/ Throw(r) \/ Die(r)
       PROVE  SessionInv'
  <2>1. requests'[r].at = "idle" /\ UNCHANGED settled
    BY <1>t, <1>i, <1>10, IdleType, MoveType DEF StoreFails, Throw, Die, Tell
  <2> QED BY <1>t, <1>10, <2>1, Others, SettledStays, SessionIdle DEF Working
<1>11. ASSUME NEW es \in SUBSET Event, NEW ks \in SUBSET Key, RetentionSweep(es, ks)
       PROVE  SessionInv'
  <2>1. UNCHANGED <<requests, settled>>
    BY <1>11 DEF RetentionSweep
  <2>2. \A q \in Request : InOrder(q)' /\ Shown(q)'
    BY <2>1, OtherShown
  <2> QED BY <1>t, <2>1, <2>2, SettledStays, TypeNext DEF SessionInv
<1> QED BY <1>1, <1>2, <1>3, <1>4, <1>5, <1>6, <1>7, <1>8, <1>9, <1>10, <1>11,
           SessionProject DEF Next, Proceed

\* A session whose start and end were gone over without a fault has ended for
\* good.
THEOREM ReportedSessionsHaveEnded == Spec => []ReportedSessionsEnd
<1>1. SessionInv => ReportedSessionsEnd
  BY DEF SessionInv
<1> QED BY <1>1, SessionInit, SessionNext, PTL DEF Spec

-----------------------------------------------------------------------------
(* FannedOutOnce: each row inserted gives its event to one request, which  *)
(* publishes and dispatches it at most once.  The requests that still hold *)
(* an event are counted with what they have done of it.                    *)

Streaming(e) == {r \in Request : e \in ToStream(r)}
Holding(e) == {r \in Request : e \in ToDispatch(r)}

\* The rows there have been of an event.
Rows(e) == purged[e] + (IF e \in stored THEN 1 ELSE 0)

\* Only first occurrences are gone over.
FirstOnly ==
  \A r \in Request : Working(r) => requests[r].todo \subseteq First(requests[r].body)

FanInv ==
  /\ TypeOK
  /\ FirstOnly
  /\ \A e \in Event : /\ streamed[e] + Cardinality(Streaming(e)) <= Rows(e)
                      /\ dispatched[e] + Cardinality(Holding(e)) <= Rows(e)

LEMMA Counted ==
  ASSUME NEW A \in SUBSET Request, NEW B \in SUBSET Request
  PROVE  /\ Cardinality(A) \in Nat /\ Cardinality(B) \in Nat
         /\ B \subseteq A => Cardinality(B) <= Cardinality(A)
         /\ \A r \in Request : B \subseteq A \cup {r} => Cardinality(B) <= Cardinality(A) + 1
         /\ \A r \in A : B \subseteq A \ {r} => Cardinality(B) + 1 <= Cardinality(A)
<1>1. IsFiniteSet(A) /\ IsFiniteSet(B)
  BY FS_Subset, IngestAssumption
<1>2. Cardinality(A) \in Nat /\ Cardinality(B) \in Nat
  BY <1>1, FS_CardinalityType
<1>3. B \subseteq A => Cardinality(B) <= Cardinality(A)
  BY <1>1, FS_Subset
<1>4. ASSUME NEW r \in Request, B \subseteq A \cup {r}
      PROVE  Cardinality(B) <= Cardinality(A) + 1
  <2>1. /\ IsFiniteSet(A \cup {r})
        /\ Cardinality(A \cup {r}) \in {Cardinality(A), Cardinality(A) + 1}
    BY <1>1, FS_AddElement
  <2>2. Cardinality(B) <= Cardinality(A \cup {r})
    BY <1>4, <2>1, FS_Subset
  <2> QED BY <1>2, <2>1, <2>2
<1>5. ASSUME NEW r \in A, B \subseteq A \ {r}
      PROVE  Cardinality(B) + 1 <= Cardinality(A)
  <2>1. IsFiniteSet(A \ {r}) /\ Cardinality(A \ {r}) = Cardinality(A) - 1
    BY <1>1, FS_RemoveElement
  <2>2. Cardinality(B) <= Cardinality(A \ {r})
    BY <1>5, <2>1, FS_Subset
  <2> QED BY <1>2, <2>1, <2>2
<1> QED BY <1>2, <1>3, <1>4, <1>5

LEMMA FanInit == Init => FanInv
<1> SUFFICES ASSUME Init PROVE FanInv
  OBVIOUS
<1>1. \A e \in Event : Streaming(e) = {} /\ Holding(e) = {}
  BY DEF Init, Idle, At, Streaming, Holding, ToStream, ToDispatch
<1>2. \A e \in Event : Cardinality(Streaming(e)) = 0 /\ Cardinality(Holding(e)) = 0
  BY <1>1, FS_EmptySet
<1>3. FirstOnly
  BY DEF Init, Idle, At, FirstOnly, Working
<1> QED BY <1>2, <1>3, TypeInit DEF Init, FanInv, Rows

\* Steps that hand out nothing: no request comes to hold an event, what was
\* done of an event was held by one that does not any more, and rows are only
\* counted as purged.
LEMMA FanStep ==
  ASSUME FanInv, TypeOK', NEW r \in Request,
         \A q \in Request : q # r => requests'[q] = requests[q],
         Working(r)' => requests'[r].todo \subseteq First(requests'[r].body),
         \A e \in Event :
           /\ Rows(e)' >= Rows(e)
           /\ \/ streamed'[e] = streamed[e] /\ (e \in ToStream(r)' => e \in ToStream(r))
              \/ /\ streamed'[e] = streamed[e] + 1
                 /\ e \in ToStream(r) /\ e \notin ToStream(r)'
              \/ streamed'[e] = streamed[e] /\ Rows(e)' = Rows(e) + 1
           /\ \/ dispatched'[e] = dispatched[e] /\ (e \in ToDispatch(r)' => e \in ToDispatch(r))
              \/ /\ dispatched'[e] = dispatched[e] + 1
                 /\ e \in ToDispatch(r) /\ e \notin ToDispatch(r)'
              \/ dispatched'[e] = dispatched[e] /\ Rows(e)' = Rows(e) + 1
  PROVE  FanInv'
<1>1. \A q \in Request : \A e \in Event : q # r =>
        /\ e \in ToStream(q)' <=> e \in ToStream(q)
        /\ e \in ToDispatch(q)' <=> e \in ToDispatch(q)
  BY DEF ToStream, ToDispatch
<1>2. \A e \in Event : /\ streamed[e] \in Nat /\ streamed'[e] \in Nat
                       /\ dispatched[e] \in Nat /\ dispatched'[e] \in Nat
                       /\ Rows(e) \in Nat /\ Rows(e)' \in Nat
  BY DEF FanInv, TypeOK, Rows
<1>3. ASSUME NEW e \in Event
      PROVE  streamed'[e] + Cardinality(Streaming(e)') <= Rows(e)'
  <2> DEFINE A == Streaming(e)
             B == Streaming(e)'
  <2>1. A \in SUBSET Request /\ B \in SUBSET Request
    BY DEF Streaming
  <2>2. B \subseteq A \cup {r}
    BY <1>1 DEF Streaming
  <2>3. (e \in ToStream(r)' => e \in ToStream(r)) => B \subseteq A
    BY <1>1 DEF Streaming
  <2>4. e \in ToStream(r) /\ e \notin ToStream(r)' => r \in A /\ B \subseteq A \ {r}
    BY <1>1 DEF Streaming
  <2>5. streamed[e] + Cardinality(A) <= Rows(e)
    BY DEF FanInv
  <2> HIDE DEF A, B
  <2>6. /\ Cardinality(A) \in Nat /\ Cardinality(B) \in Nat
        /\ Cardinality(B) <= Cardinality(A) + 1
        /\ B \subseteq A => Cardinality(B) <= Cardinality(A)
        /\ r \in A /\ B \subseteq A \ {r} => Cardinality(B) + 1 <= Cardinality(A)
    BY <2>1, <2>2, Counted
  <2>7. streamed'[e] + Cardinality(B) <= Rows(e)'
    BY <1>2, <2>3, <2>4, <2>5, <2>6
  <2> QED BY <2>7 DEF B
<1>4. ASSUME NEW e \in Event
      PROVE  dispatched'[e] + Cardinality(Holding(e)') <= Rows(e)'
  <2> DEFINE A == Holding(e)
             B == Holding(e)'
  <2>1. A \in SUBSET Request /\ B \in SUBSET Request
    BY DEF Holding
  <2>2. B \subseteq A \cup {r}
    BY <1>1 DEF Holding
  <2>3. (e \in ToDispatch(r)' => e \in ToDispatch(r)) => B \subseteq A
    BY <1>1 DEF Holding
  <2>4. e \in ToDispatch(r) /\ e \notin ToDispatch(r)' => r \in A /\ B \subseteq A \ {r}
    BY <1>1 DEF Holding
  <2>5. dispatched[e] + Cardinality(A) <= Rows(e)
    BY DEF FanInv
  <2> HIDE DEF A, B
  <2>6. /\ Cardinality(A) \in Nat /\ Cardinality(B) \in Nat
        /\ Cardinality(B) <= Cardinality(A) + 1
        /\ B \subseteq A => Cardinality(B) <= Cardinality(A)
        /\ r \in A /\ B \subseteq A \ {r} => Cardinality(B) + 1 <= Cardinality(A)
    BY <2>1, <2>2, Counted
  <2>7. dispatched'[e] + Cardinality(B) <= Rows(e)'
    BY <1>2, <2>3, <2>4, <2>5, <2>6
  <2> QED BY <2>7 DEF B
<1>5. FirstOnly'
  BY DEF FanInv, FirstOnly, Working
<1> QED BY <1>3, <1>4, <1>5 DEF FanInv

\* A request that does nothing of its events, and holds no new one.
LEMMA FanQuiet ==
  ASSUME FanInv, TypeOK', NEW r \in Request,
         \A q \in Request : q # r => requests'[q] = requests[q],
         UNCHANGED <<streamed, dispatched, stored, purged>>,
         requests'[r].fresh \subseteq requests[r].fresh,
         \/ requests'[r].fresh = {} /\ ~Working(r)'
         \/ /\ Working(r)
            /\ requests'[r].todo \subseteq requests[r].todo
            /\ requests'[r].body = requests[r].body
  PROVE  FanInv'
<1>1. \A e \in Event : /\ e \in ToStream(r)' => e \in ToStream(r)
                       /\ e \in ToDispatch(r)' => e \in ToDispatch(r)
                       /\ Rows(e)' = Rows(e) /\ Rows(e) \in Nat
  BY DEF ToStream, ToDispatch, Rows, FanInv, TypeOK
<1>2. Working(r)' => requests'[r].todo \subseteq First(requests'[r].body)
  BY DEF FanInv, FirstOnly
<1> QED BY <1>1, <1>2, FanStep

LEMMA FanNext == FanInv /\ [Next]_vars => FanInv'
<1> SUFFICES ASSUME FanInv, [Next]_vars
             PROVE  FanInv'
  OBVIOUS
<1> USE DEF tables, fanout, keyed, budgets
<1>t. TypeOK /\ TypeOK'
  BY TypeNext DEF FanInv
<1>i. Idle.at = "idle" /\ Idle.fresh = {} /\ Idle.todo = {}
  BY DEF Idle, At
<1>1. CASE UNCHANGED vars
  <2>1. /\ \A e : /\ Streaming(e)' = Streaming(e) /\ Holding(e)' = Holding(e)
                 /\ Rows(e)' = Rows(e)
        /\ UNCHANGED <<streamed, dispatched, requests>>
    BY <1>1 DEF vars, Streaming, Holding, ToStream, ToDispatch, Rows
  <2> QED BY <1>t, <2>1 DEF FanInv, FirstOnly, Working
<1>2. ASSUME NEW r \in Request, NEW k \in Key \cup {NoKey},
             NEW b \in Body \cup {Malformed, Oversized}, Post(r, k, b)
      PROVE  FanInv'
  <2>1. requests'[r].at \in {"insert", "lookup"} /\ requests'[r].fresh = {}
    BY <1>t, <1>2, PostType, MoveType DEF Post, At
  <2>2. UNCHANGED <<streamed, dispatched, stored, purged>>
    BY <1>2 DEF Post
  <2> QED BY <1>t, <1>2, <2>1, <2>2, Others, FanQuiet DEF Working
<1>3. ASSUME NEW r \in Request, Lookup(r) \/ Refuse(r) \/ Finish(r) \/ Store(r) \/ Reread(r)
      PROVE  FanInv'
  <2>1. requests'[r].at \in {"idle", "insert", "store", "reread"}
    <3>1. CASE Lookup(r)
      BY <1>t, <1>i, <3>1, LookupLeaves
    <3>2. CASE Refuse(r) \/ Finish(r)
      BY <1>t, <1>i, <3>2 DEF Refuse, Finish, Handled, Move, At, TypeOK
    <3>3. CASE Store(r) \/ Reread(r)
      BY <1>t, <1>i, <3>3, StoreLeaves, IdleType, MoveType DEF Reread, Tell, Move, TypeOK
    <3> QED BY <1>3, <3>1, <3>2, <3>3
  <2>2. requests'[r] \in Job
    BY <1>t DEF TypeOK
  <2>3. requests'[r].fresh = {}
    BY <2>1, <2>2 DEF Job
  <2>4. UNCHANGED <<streamed, dispatched, stored, purged>>
    BY <1>3 DEF Lookup, Refuse, Finish, Store, Reread
  <2> QED BY <1>t, <1>3, <2>1, <2>3, <2>4, Others, FanQuiet DEF Working, Proceed
<1>4. ASSUME NEW r \in Request, StoreFails(r) \/ Throw(r) \/ Die(r)
      PROVE  FanInv'
  <2>1. requests'[r].at = "idle" /\ requests'[r].fresh = {}
    BY <1>t, <1>i, <1>4, IdleType, MoveType DEF StoreFails, Throw, Die, Tell
  <2>2. UNCHANGED <<streamed, dispatched, stored, purged>>
    BY <1>4 DEF StoreFails, Throw, Die
  <2> QED BY <1>t, <1>4, <2>1, <2>2, Others, FanQuiet DEF Working
<1>5. ASSUME NEW r \in Request, NEW ok \in BOOLEAN, List(r, ok)
      PROVE  FanInv'
  <2>1. Working(r) /\ UNCHANGED <<streamed, dispatched, stored, purged>>
    BY <1>5 DEF List, Working
  <2> QED BY <1>t, <1>5, <2>1, ListLeaves, Others, FanQuiet DEF Proceed
<1>6. ASSUME NEW r \in Request, Insert(r)
      PROVE  FanInv'
  <2> DEFINE b == requests[r].body
  <2>1. /\ requests'[r].todo = First(b) /\ requests'[r].body = b
        /\ requests'[r].fresh = Items(b) \ stored
    BY <1>t, <1>6, InsertLeaves DEF Returned
  <2>2. stored' = stored \cup Items(b) /\ UNCHANGED <<streamed, dispatched, purged>>
    BY <1>6 DEF Insert
  <2>3. \A e \in Event : purged[e] \in Nat
    BY <1>t DEF TypeOK
  <2>4. \A e \in Event :
          /\ Rows(e)' >= Rows(e)
          /\ e \in requests'[r].fresh => Rows(e)' = Rows(e) + 1
    BY <2>1, <2>2, <2>3 DEF Rows
  <2>5. \A e : e \in ToStream(r)' \/ e \in ToDispatch(r)' => e \in requests'[r].fresh
    BY DEF ToStream, ToDispatch
  <2>6. \A q \in Request : q # r => requests'[q] = requests[q]
    BY <1>t, <1>6, Others DEF Proceed
  <2> QED BY <1>t, <2>1, <2>2, <2>4, <2>5, <2>6, FanStep
<1>7. ASSUME NEW r \in Request, NEW ok \in BOOLEAN, NEW i \in requests[r].todo,
             Project(r, i, ok)
      PROVE  FanInv'
  <2> DEFINE b == requests[r].body
             x == b[i]
  <2>1. /\ requests'[r].body = b
        /\ requests'[r].todo = requests[r].todo \ {i}
        /\ requests'[r].fresh = requests[r].fresh
    BY <1>t, <1>7, ProjectLeaves
  <2>2. UNCHANGED <<stored, purged, dispatched>>
    BY <1>7 DEF Project, Pass
  <2>3. \A e \in Event : Rows(e)' = Rows(e) /\ Rows(e) \in Nat
    BY <1>t, <2>2 DEF Rows, TypeOK
  <2>4. Working(r)
    BY <1>7 DEF Project, Pass, IsNext, Working
  <2>5. requests[r].todo \subseteq First(b)
    BY <2>4 DEF FanInv, FirstOnly
  <2>6. b \in Body /\ x \in Event /\ \A j \in First(b) : j \in Nat /\ j \in DOMAIN b
    BY <1>t, CurrentType, ItemsType
  <2>7. \A j \in requests[r].todo \ {i} : b[j] # x
    BY <2>5, <2>6 DEF First
  <2>8. \A e \in Event : e \in ToStream(r)' => e \in ToStream(r)
    BY <2>1 DEF ToStream
  <2>9. x \in requests[r].fresh => x \in ToStream(r) /\ x \notin ToStream(r)'
    BY <2>1, <2>7 DEF ToStream
  <2>10. \A e \in Event :
           \/ streamed'[e] = streamed[e]
           \/ e = x /\ x \in requests[r].fresh /\ streamed'[e] = streamed[e] + 1
    BY <1>t, <1>7, <2>6 DEF Project, Pass, TypeOK
  <2>11. \A e \in Event : e \in ToDispatch(r)' => e \in ToDispatch(r)
    BY <2>1 DEF ToDispatch
  <2>12. \A q \in Request : q # r => requests'[q] = requests[q]
    BY <1>t, <1>7, Others DEF Proceed
  <2>13. requests'[r].todo \subseteq First(requests'[r].body)
    BY <2>1, <2>5
  <2> HIDE DEF x, b
  <2> QED BY <1>t, <2>2, <2>3, <2>8, <2>9, <2>10, <2>11, <2>12, <2>13, FanStep
<1>8. ASSUME NEW r \in Request, NEW ok \in BOOLEAN, NEW d \in Event, Dispatch(r, d, ok)
      PROVE  FanInv'
  <2>1. /\ requests'[r].body = requests[r].body
        /\ requests'[r].todo = requests[r].todo
        /\ requests'[r].fresh = requests[r].fresh \ {d}
    BY <1>t, <1>8, DispatchLeaves
  <2>2. UNCHANGED <<stored, purged, streamed>>
    BY <1>8 DEF Dispatch
  <2>3. \A e \in Event : Rows(e)' = Rows(e) /\ Rows(e) \in Nat
    BY <1>t, <2>2 DEF Rows, TypeOK
  <2>4. Working(r) /\ d \in requests[r].fresh
    BY <1>8 DEF Dispatch, Working
  <2>5. requests'[r].todo \subseteq First(requests'[r].body)
    BY <2>1, <2>4 DEF FanInv, FirstOnly
  <2>6. \A e \in Event : /\ e \in ToStream(r)' => e \in ToStream(r)
                         /\ e \in ToDispatch(r)' => e \in ToDispatch(r)
    BY <2>1 DEF ToStream, ToDispatch
  <2>7. d \in ToDispatch(r) /\ d \notin ToDispatch(r)'
    BY <2>1, <2>4 DEF ToDispatch
  <2>8. \A e \in Event : \/ dispatched'[e] = dispatched[e]
                         \/ e = d /\ dispatched'[e] = dispatched[e] + 1
    BY <1>t, <1>8 DEF Dispatch, TypeOK
  <2>9. \A q \in Request : q # r => requests'[q] = requests[q]
    BY <1>t, <1>8, Others DEF Proceed
  <2> QED BY <1>t, <2>2, <2>3, <2>5, <2>6, <2>7, <2>8, <2>9, FanStep
<1>9. ASSUME NEW es \in SUBSET Event, NEW ks \in SUBSET Key, RetentionSweep(es, ks)
      PROVE  FanInv'
  <2>1. UNCHANGED <<requests, streamed, dispatched>>
    BY <1>9 DEF RetentionSweep
  <2>2. \A e \in Event : Rows(e)' = Rows(e)
    BY <1>t, <1>9 DEF RetentionSweep, Rows, TypeOK
  <2>3. \A e : Streaming(e)' = Streaming(e) /\ Holding(e)' = Holding(e)
    BY <2>1 DEF Streaming, Holding, ToStream, ToDispatch
  <2> QED BY <1>t, <2>1, <2>2, <2>3 DEF FanInv, FirstOnly, Working
<1> QED BY <1>1, <1>2, <1>3, <1>4, <1>5, <1>6, <1>7, <1>8, <1>9 DEF Next, Proceed

LEMMA FanSafe == FanInv => FannedOutOnce
<1> SUFFICES ASSUME FanInv, NEW e \in Event
             PROVE  streamed[e] <= 1 + purged[e] /\ dispatched[e] <= 1 + purged[e]
  BY DEF FannedOutOnce
<1>1. Streaming(e) \in SUBSET Request /\ Holding(e) \in SUBSET Request
  BY DEF Streaming, Holding
<1>2. Cardinality(Streaming(e)) \in Nat /\ Cardinality(Holding(e)) \in Nat
  BY <1>1, Counted
<1>3. /\ streamed[e] + Cardinality(Streaming(e)) <= Rows(e)
      /\ dispatched[e] + Cardinality(Holding(e)) <= Rows(e)
  BY DEF FanInv
<1>4. /\ streamed[e] \in Nat /\ dispatched[e] \in Nat /\ purged[e] \in Nat
      /\ Rows(e) <= 1 + purged[e] /\ Rows(e) \in Nat
  BY DEF FanInv, TypeOK, Rows
<1> QED BY <1>2, <1>3, <1>4

\* An event is published and dispatched at most once for each time its row is
\* inserted, however many requests bring it at once.
THEOREM FanOutIsOnce == Spec => []FannedOutOnce
BY FanInit, FanNext, FanSafe, PTL DEF Spec
=============================================================================
