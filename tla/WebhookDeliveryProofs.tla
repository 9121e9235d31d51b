----------------------- MODULE WebhookDeliveryProofs -----------------------
(***************************************************************************)
(* Theorems about WebhookDelivery and CircuitBreaker, for every set of     *)
(* replicas, webhooks and deliveries and every value of the bounds.        *)
(***************************************************************************)
EXTENDS WebhookDelivery, FiniteSetTheorems, TLAPS

USE DeliveryAssumption, BreakerAssumption

-----------------------------------------------------------------------------
(* The breaker entry.                                                      *)

\* Every method of the breaker leaves a well-formed entry.
LEMMA EntryClosed ==
  ASSUME NEW e \in Entry
  PROVE  /\ FreshEntry \in Entry
         /\ AfterShouldAttempt(e) \in Entry
         /\ AfterSuccess(e) \in Entry
         /\ AfterFailure(e) \in Entry
         /\ AfterResetTimeout(e) \in Entry
<1>1. FreshEntry \in Entry
  BY DEF FreshEntry, Entry
<1>2. AfterShouldAttempt(e) \in Entry
  BY DEF AfterShouldAttempt, Entry
<1>3. AfterSuccess(e) \in Entry
  BY DEF AfterSuccess, Entry
<1>4. AfterFailure(e) \in Entry
  BY DEF AfterFailure, Entry
<1>5. AfterResetTimeout(e) \in Entry
  BY DEF AfterResetTimeout, Entry
<1> QED BY <1>1, <1>2, <1>3, <1>4, <1>5

\* Every method of the breaker keeps its entry consistent, in whatever state
\* the call that reports an outcome was let through.
LEMMA EntryConsistent ==
  ASSUME NEW e \in Entry, Consistent(e)
  PROVE  /\ Consistent(FreshEntry)
         /\ Consistent(AfterShouldAttempt(e))
         /\ Consistent(AfterSuccess(e))
         /\ Consistent(AfterFailure(e))
         /\ e.openedAt = "recent" => Consistent(AfterResetTimeout(e))
<1>1. Consistent(FreshEntry)
  BY DEF Consistent, FreshEntry
<1>2. Consistent(AfterShouldAttempt(e))
  BY DEF Consistent, AfterShouldAttempt, MayAttempt, Entry
<1>3. Consistent(AfterSuccess(e))
  BY DEF Consistent, AfterSuccess, Entry
<1>4. Consistent(AfterFailure(e))
  BY DEF Consistent, AfterFailure, Entry
<1>5. e.openedAt = "recent" => Consistent(AfterResetTimeout(e))
  BY DEF Consistent, AfterResetTimeout, Entry
<1> QED BY <1>1, <1>2, <1>3, <1>4, <1>5

-----------------------------------------------------------------------------
(* Types.                                                                  *)

\* A call that has reached an await is a running call.
LEMMA RunningCall ==
  ASSUME TypeOK, NEW a \in Attempt, att[a].pc \in Awaits
  PROVE  att[a] \in Running
BY DEF TypeOK, Idle, Awaits

\* Moving a running call, or ending it, keeps the type of `att'.
LEMMA AttStep ==
  ASSUME TypeOK, NEW a \in Attempt, NEW await \in Awaits
  PROVE  /\ att[a].pc \in Awaits /\ Goto(a, await)
              => att' \in [Attempt -> Running \cup {Idle}]
         /\ Finish(a) => att' \in [Attempt -> Running \cup {Idle}]
<1>1. ASSUME att[a].pc \in Awaits, Goto(a, await)
      PROVE  att' \in [Attempt -> Running \cup {Idle}]
  <2>1. [att[a] EXCEPT !.pc = await] \in Running
    BY <1>1, RunningCall DEF Running
  <2> QED BY <1>1, <2>1 DEF TypeOK, Goto
<1>2. ASSUME Finish(a)
      PROVE  att' \in [Attempt -> Running \cup {Idle}]
  BY <1>2 DEF TypeOK, Finish
<1> QED BY <1>1, <1>2

\* UPDATE ... WHERE id = d with a well-formed row keeps the type of `row'.
LEMMA RowStep ==
  ASSUME TypeOK, NEW d \in Delivery, NEW new \in RowState, UpdateRow(d, new)
  PROVE  row' \in [Delivery -> RowState]
BY DEF TypeOK, UpdateRow

\* The rows that the UPDATEs of attemptDelivery write are well-formed.
LEMMA RowWritten ==
  ASSUME TypeOK, NEW d \in Delivery,
         NEW s \in {"pending", "delivered", "failed"},
         NEW t \in {"null", "future", "due"}
  PROVE  /\ [row[d] EXCEPT !.status = s] \in RowState
         /\ [row[d] EXCEPT !.status = s, !.retryAt = t] \in RowState
<1>1. row[d] \in RowState
  BY DEF TypeOK
<1> QED BY <1>1 DEF RowState

\* The breaker of a running call can be replaced by any well-formed entry.
LEMMA BreakerStep ==
  ASSUME TypeOK, NEW a \in Attempt, att[a].pc \in Awaits,
         NEW e \in Entry, SetBreaker(a, e)
  PROVE  breaker' \in [Proc -> [Webhook -> Entry]]
<1>1. att[a].proc \in Proc /\ HookOf(a) \in Webhook
  BY RunningCall DEF Running, HookOf
<1> QED BY <1>1 DEF TypeOK, SetBreaker

\* The steps of a running call keep the types.
LEMMA TypeAdvance ==
  ASSUME TypeOK, NEW a \in Attempt, Advance(a) \/ Throw(a)
  PROVE  TypeOK'
<1> USE DEF At, dbVars, historyVars, budgetVars, SpendFault
<1>1. att[a].pc \in Awaits
  BY DEF Advance, UrlChecked, Answered, ReadWebhook, FailInactive, Defer,
     Claim, SendPost, RefuseTarget, FailUnsafe, AnswerOk, MarkDelivered,
     AnswerFailure, FailExhausted, ScheduleRetry, AnswerGone, GoneFailOwn,
     GoneDisable, GoneSweep, GoneAudit, Throw, Awaits
<1>2. /\ att[a] \in Running
      /\ att[a].d \in Delivery
      /\ att[a].proc \in Proc
      /\ HookOf(a) \in Webhook
      /\ Ticket(a) \in Nat
      /\ BreakerOf(a) \in Entry
  BY <1>1, RunningCall DEF Running, HookOf, Ticket, BreakerOf, TypeOK
<1>3. \A await \in Awaits :
        Goto(a, await) \/ Finish(a) => att' \in [Attempt -> Running \cup {Idle}]
  BY <1>1, AttStep
<1>4. \A s \in {"pending", "delivered", "failed"}, t \in {"null", "future", "due"} :
        \/ UpdateRow(att[a].d, [row[att[a].d] EXCEPT !.status = s])
        \/ UpdateRow(att[a].d, [row[att[a].d] EXCEPT !.status = s, !.retryAt = t])
        => row' \in [Delivery -> RowState]
  BY <1>2, RowStep, RowWritten
<1>5. \A e \in Entry : SetBreaker(a, e) => breaker' \in [Proc -> [Webhook -> Entry]]
  BY <1>1, BreakerStep
<1>6. CASE ReadWebhook(a)
  <2>1. AfterShouldAttempt(BreakerOf(a)) \in Entry
    BY <1>2, EntryClosed
  <2>2. breaker' \in [Proc -> [Webhook -> Entry]]
    BY <1>5, <1>6, <2>1 DEF ReadWebhook, TypeOK
  <2>3. att' \in [Attempt -> Running \cup {Idle}]
    BY <1>3, <1>6 DEF ReadWebhook, Awaits
  <2> QED BY <1>6, <2>2, <2>3 DEF ReadWebhook, TypeOK
<1>7. CASE FailInactive(a)
  BY <1>3, <1>4, <1>7 DEF FailInactive, TypeOK, Awaits
<1>8. CASE Defer(a)
  BY <1>3, <1>4, <1>8 DEF Defer, TypeOK, Awaits
<1>9. CASE Claim(a)
  <2>1. row' \in [Delivery -> RowState]
    <3>1. row[att[a].d] \in RowState
      BY <1>2 DEF TypeOK
    <3>2. [row[att[a].d] EXCEPT !.attempts = Ticket(a)] \in RowState
      BY <1>2, <3>1 DEF RowState
    <3> QED BY <1>9, <3>2 DEF Claim, TypeOK
  <2>2. att' \in [Attempt -> Running \cup {Idle}]
    BY <1>3, <1>9 DEF Claim, Awaits
  <2> QED BY <1>9, <2>1, <2>2 DEF Claim, TypeOK
<1>10. CASE SendPost(a)
  <2>1. posted' \in [Delivery -> SUBSET Nat]
    BY <1>2, <1>10 DEF SendPost, TypeOK
  <2>2. att' \in [Attempt -> Running \cup {Idle}]
    BY <1>3, <1>10 DEF SendPost, Awaits
  <2> QED BY <1>10, <2>1, <2>2 DEF SendPost, TypeOK
<1>11. CASE RefuseTarget(a)
  BY <1>3, <1>11 DEF RefuseTarget, TypeOK, Awaits
<1>12. CASE FailUnsafe(a)
  BY <1>3, <1>4, <1>12 DEF FailUnsafe, MarkFailed, TypeOK, Awaits
<1>13. CASE AnswerOk(a)
  <2>1. AfterSuccess(BreakerOf(a)) \in Entry
    BY <1>2, EntryClosed
  <2>2. breaker' \in [Proc -> [Webhook -> Entry]]
    BY <1>5, <1>13, <2>1 DEF AnswerOk
  <2>3. att' \in [Attempt -> Running \cup {Idle}]
    BY <1>3, <1>13 DEF AnswerOk, Awaits
  <2> QED BY <1>2, <1>13, <2>2, <2>3 DEF AnswerOk, TypeOK
<1>14. CASE MarkDelivered(a)
  BY <1>3, <1>4, <1>14 DEF MarkDelivered, TypeOK, Awaits
<1>15. CASE AnswerFailure(a)
  <2>1. AfterFailure(BreakerOf(a)) \in Entry
    BY <1>2, EntryClosed
  <2>2. breaker' \in [Proc -> [Webhook -> Entry]]
    BY <1>5, <1>15, <2>1 DEF AnswerFailure
  <2>3. att' \in [Attempt -> Running \cup {Idle}]
    BY <1>3, <1>15 DEF AnswerFailure, Awaits
  <2> QED BY <1>15, <2>2, <2>3 DEF AnswerFailure, TypeOK
<1>16. CASE FailExhausted(a)
  BY <1>3, <1>4, <1>16 DEF FailExhausted, MarkFailed, TypeOK, Awaits
<1>17. CASE ScheduleRetry(a)
  BY <1>2, <1>3, <1>4, <1>17 DEF ScheduleRetry, TypeOK, Awaits
<1>18. CASE AnswerGone(a)
  <2>1. FreshEntry \in Entry
    BY <1>2, EntryClosed
  <2>2. breaker' \in [Proc -> [Webhook -> Entry]]
    BY <1>5, <1>18, <2>1 DEF AnswerGone
  <2>3. att' \in [Attempt -> Running \cup {Idle}]
    BY <1>3, <1>18 DEF AnswerGone, Awaits
  <2> QED BY <1>18, <2>2, <2>3 DEF AnswerGone, TypeOK
<1>19. CASE GoneFailOwn(a)
  BY <1>3, <1>4, <1>19 DEF GoneFailOwn, MarkFailed, TypeOK, Awaits
<1>20. CASE GoneDisable(a)
  <2>1. \A f \in BOOLEAN :
          [att[a] EXCEPT !.pc = "goneSweep", !.flipped = f] \in Running
    BY <1>2 DEF Running, Awaits
  <2>2. att' \in [Attempt -> Running \cup {Idle}]
    BY <1>20, <2>1 DEF GoneDisable, TypeOK
  <2>3. hook' \in [Webhook -> {"none", "active", "inactive", "deleted"}]
    BY <1>20 DEF GoneDisable, TypeOK
  <2> QED BY <1>20, <2>2, <2>3 DEF GoneDisable, TypeOK
<1>21. CASE GoneSweep(a)
  <2>1. row' \in [Delivery -> RowState]
    BY <1>21, RowWritten DEF GoneSweep, TypeOK
  <2>2. att' \in [Attempt -> Running \cup {Idle}]
    BY <1>3, <1>21 DEF GoneSweep, Awaits
  <2> QED BY <1>21, <2>1, <2>2 DEF GoneSweep, TypeOK
<1>22. CASE GoneAudit(a)
  BY <1>2, <1>3, <1>22 DEF GoneAudit, TypeOK, Awaits
<1>23. CASE Throw(a)
  BY <1>3, <1>23 DEF Throw, TypeOK, Awaits
<1> QED
  BY <1>6, <1>7, <1>8, <1>9, <1>10, <1>11, <1>12, <1>13, <1>14, <1>15, <1>16,
     <1>17, <1>18, <1>19, <1>20, <1>21, <1>22, <1>23
  DEF Advance, UrlChecked, Answered

\* The steps of dispatch, of the reaper, of time, of the administrator and a
\* crash keep the types.
LEMMA TypeOthers ==
  ASSUME TypeOK
  PROVE  /\ \A p \in Proc, d \in Delivery :
              \/ ListActiveWebhooks(p, d) \/ EnqueueDelivery(p, d)
              \/ \E a \in Attempt : ReadDelivery(a, p, d)
              => TypeOK'
         /\ \A p \in Proc : FlushDueRetries(p) \/ Crash(p) => TypeOK'
         /\ \A d \in Delivery : RetryTimePasses(d) => TypeOK'
         /\ \A p \in Proc, w \in Webhook :
              ResetTimePasses(p, w) \/ ResetBreaker(p, w) => TypeOK'
         /\ \A w \in Webhook :
              \/ \E active \in BOOLEAN : \/ CreateWebhook(w, active)
                                         \/ SetActive(w, active)
              \/ DeleteWebhook(w)
              => TypeOK'
<1> USE DEF dbVars, historyVars, budgetVars, SpendFault, SpendAdmin
<1>1. ASSUME NEW p \in Proc, NEW d \in Delivery, ListActiveWebhooks(p, d)
      PROVE  TypeOK'
  BY <1>1 DEF ListActiveWebhooks, TypeOK
<1>2. ASSUME NEW p \in Proc, NEW d \in Delivery, EnqueueDelivery(p, d)
      PROVE  TypeOK'
  <2>1. NewRow \in RowState /\ DeletedRow \in RowState
    BY DEF NewRow, DeletedRow, RowState
  <2> QED BY <1>2, <2>1 DEF EnqueueDelivery, TypeOK
<1>3. ASSUME NEW p \in Proc, NEW d \in Delivery, NEW a \in Attempt,
             ReadDelivery(a, p, d)
      PROVE  TypeOK'
  <2>1. [pc |-> "hook", proc |-> p, d |-> d, prev |-> row[d].attempts,
         flipped |-> FALSE] \in Running
    BY DEF Running, Awaits, TypeOK, RowState
  <2>2. att' \in [Attempt -> Running \cup {Idle}]
    BY <1>3, <2>1 DEF ReadDelivery, TypeOK
  <2> QED BY <1>3, <2>2 DEF ReadDelivery, TypeOK
<1>4. ASSUME NEW p \in Proc, FlushDueRetries(p)
      PROVE  TypeOK'
  BY <1>4 DEF FlushDueRetries, Due, TypeOK
<1>5. ASSUME NEW p \in Proc, Crash(p)
      PROVE  TypeOK'
  <2>1. breaker' \in [Proc -> [Webhook -> Entry]]
    BY <1>5 DEF Crash, TypeOK, FreshEntry, Entry
  <2>2. att' \in [Attempt -> Running \cup {Idle}]
    BY <1>5 DEF Crash, TypeOK
  <2> QED BY <1>5, <2>1, <2>2 DEF Crash, TypeOK
<1>6. ASSUME NEW d \in Delivery, RetryTimePasses(d)
      PROVE  TypeOK'
  <2>1. row[d] \in RowState
    BY DEF TypeOK
  <2>2. [row[d] EXCEPT !.retryAt = "due"] \in RowState
    BY <2>1 DEF RowState
  <2> QED BY <1>6, <2>2 DEF RetryTimePasses, TypeOK
<1>7. ASSUME NEW p \in Proc, NEW w \in Webhook, ResetTimePasses(p, w)
      PROVE  TypeOK'
  <2>1. AfterResetTimeout(breaker[p][w]) \in Entry
    BY EntryClosed DEF TypeOK
  <2> QED BY <1>7, <2>1 DEF ResetTimePasses, TypeOK
<1>8. ASSUME NEW p \in Proc, NEW w \in Webhook, ResetBreaker(p, w)
      PROVE  TypeOK'
  <2>1. FreshEntry \in Entry
    BY DEF FreshEntry, Entry
  <2> QED BY <1>8, <2>1 DEF ResetBreaker, TypeOK
<1>9. ASSUME NEW w \in Webhook, NEW active \in BOOLEAN, CreateWebhook(w, active)
      PROVE  TypeOK'
  BY <1>9 DEF CreateWebhook, TypeOK
<1>10. ASSUME NEW w \in Webhook, NEW active \in BOOLEAN, SetActive(w, active)
       PROVE  TypeOK'
  BY <1>10 DEF SetActive, TypeOK
<1>11. ASSUME NEW w \in Webhook, DeleteWebhook(w)
       PROVE  TypeOK'
  BY <1>11 DEF DeleteWebhook, TypeOK, DeletedRow, RowState
<1> QED
  BY <1>1, <1>2, <1>3, <1>4, <1>5, <1>6, <1>7, <1>8, <1>9, <1>10, <1>11

LEMMA TypeInit == Init => TypeOK
BY DEF Init, TypeOK, NoRow, RowState, FreshEntry, Entry

LEMMA TypeNext == TypeOK /\ [Next]_vars => TypeOK'
<1>1. ASSUME TypeOK, Next PROVE TypeOK'
  <2>1. CASE \E a \in Attempt : Advance(a) \/ Throw(a)
    BY <1>1, <2>1, TypeAdvance
  <2>2. CASE ~ \E a \in Attempt : Advance(a) \/ Throw(a)
    BY <1>1, <2>2, TypeOthers DEF Next, System, Environment
  <2> QED BY <2>1, <2>2
<1>2. ASSUME TypeOK, UNCHANGED vars PROVE TypeOK'
  BY <1>2 DEF TypeOK, vars
<1> QED BY <1>1, <1>2

\* Type correctness, for every instance of the constants.
THEOREM TypeCorrect == Spec => []TypeOK
BY TypeInit, TypeNext, PTL DEF Spec

-----------------------------------------------------------------------------
(* The optimistic claim.                                                   *)

\* A delivery id belongs to one dispatch until its row is inserted: it is in
\* one process's list at most, and nothing else knows it.
ListedIsNew ==
  \A d \in Delivery :
    /\ \A p, q \in Proc : <<p, d>> \in listed /\ <<q, d>> \in listed => p = q
    /\ \A p \in Proc : <<p, d>> \in listed => row[d].status = "none"
    /\ row[d].status = "none" =>
         /\ posted[d] = {}
         /\ \A a \in Attempt : att[a] # Idle => att[a].d # d

TicketInv == TypeOK /\ ListedIsNew /\ TicketsAreUnique

\* What most steps do to tickets: nothing.  No row appears, no row that stays
\* changes its attempts, and no call gets a ticket.
NoTicketTaken ==
  /\ posted' = posted
  /\ \A d \in Delivery : Exists(d)' => /\ Exists(d)
                                       /\ row'[d].attempts = row[d].attempts
  /\ \A a \in Attempt, d \in Delivery :
       Holds(a, d)' => /\ Holds(a, d)
                       /\ att'[a].prev = att[a].prev
                       /\ att'[a].pc \in Unsent => att[a].pc \in Unsent

\* And to deliveries not yet inserted: none is listed, inserted or attempted.
NothingListed ==
  /\ listed' \subseteq listed
  /\ posted' = posted
  /\ \A d \in Delivery : row'[d].status = "none" <=> row[d].status = "none"
  /\ \A a \in Attempt : att'[a] # Idle =>
       \/ att[a] # Idle /\ att'[a].d = att[a].d
       \/ att'[a].d \in Delivery /\ row[att'[a].d].status # "none"

LEMMA TicketsKept ==
  ASSUME TicketsAreUnique, NoTicketTaken
  PROVE  TicketsAreUnique'
BY DEF TicketsAreUnique, NoTicketTaken, Ticket

LEMMA ListedKept ==
  ASSUME ListedIsNew, NothingListed
  PROVE  ListedIsNew'
BY DEF ListedIsNew, NothingListed

\* An UPDATE that leaves `attempts' alone takes no ticket and inserts no row.
LEMMA UpdateKeeps ==
  ASSUME TypeOK, NEW a \in Attempt, NEW d \in Delivery,
         NEW s \in {"pending", "delivered", "failed"},
         NEW t \in {"null", "future", "due"},
         \/ UpdateRow(d, [row[d] EXCEPT !.status = s])
         \/ UpdateRow(d, [row[d] EXCEPT !.status = s, !.retryAt = t])
  PROVE  \A e \in Delivery : /\ Exists(e)' <=> Exists(e)
                             /\ row'[e].attempts = row[e].attempts
                             /\ row'[e].status = "none" <=> row[e].status = "none"
<1> SUFFICES ASSUME NEW e \in Delivery
             PROVE  /\ Exists(e)' <=> Exists(e)
                    /\ row'[e].attempts = row[e].attempts
                    /\ row'[e].status = "none" <=> row[e].status = "none"
  OBVIOUS
<1>1. CASE e = d /\ Exists(d)
  <2>1. \/ row'[e] = [row[e] EXCEPT !.status = s]
        \/ row'[e] = [row[e] EXCEPT !.status = s, !.retryAt = t]
    BY <1>1 DEF TypeOK, UpdateRow
  <2>2. row[e] \in RowState
    BY DEF TypeOK
  <2>3. row'[e].attempts = row[e].attempts /\ row'[e].status = s
    BY <2>1, <2>2 DEF RowState
  <2> QED BY <1>1, <2>3 DEF Exists
<1>2. CASE ~(e = d /\ Exists(d))
  <2>1. row'[e] = row[e]
    BY <1>2 DEF TypeOK, UpdateRow
  <2> QED BY <2>1 DEF Exists
<1> QED BY <1>1, <1>2

\* Ending a call, or moving it to an await at which it has no more than it
\* had, takes no ticket.
LEMMA CallKeeps ==
  ASSUME TypeOK, NEW a \in Attempt, NEW await \in Awaits,
         att[a].pc \in Awaits,
         \/ Finish(a)
         \/ Goto(a, await) /\ await \notin Unsent
                           /\ (await \in Claimed => att[a].pc \in Claimed)
  PROVE  /\ \A b \in Attempt, d \in Delivery :
              Holds(b, d)' => /\ Holds(b, d)
                              /\ att'[b].prev = att[b].prev
                              /\ att'[b].pc \in Unsent => att[b].pc \in Unsent
         /\ \A b \in Attempt : att'[b] # Idle =>
              att[b] # Idle /\ att'[b].d = att[b].d
<1>1. att[a] \in Running /\ att[a] # Idle
  BY RunningCall DEF Idle, Awaits
<1> SUFFICES ASSUME NEW b \in Attempt
             PROVE  /\ \A d \in Delivery :
                         Holds(b, d)' => /\ Holds(b, d)
                                         /\ att'[b].prev = att[b].prev
                                         /\ att'[b].pc \in Unsent => att[b].pc \in Unsent
                    /\ att'[b] # Idle => att[b] # Idle /\ att'[b].d = att[b].d
  OBVIOUS
<1>2. CASE b # a
  <2>1. att'[b] = att[b]
    BY <1>2 DEF TypeOK, Finish, Goto
  <2> QED BY <2>1 DEF Holds
<1>3. CASE b = a /\ Finish(a)
  <2>1. att'[b] = Idle
    BY <1>3 DEF TypeOK, Finish
  <2> QED BY <2>1 DEF Holds, Idle
<1>4. CASE b = a /\ Goto(a, await) /\ await \notin Unsent
             /\ (await \in Claimed => att[a].pc \in Claimed)
  <2>1. att'[b] = [att[a] EXCEPT !.pc = await]
    BY <1>4 DEF TypeOK, Goto
  <2>2. att'[b].pc = await /\ att'[b].d = att[a].d /\ att'[b].prev = att[a].prev
    BY <1>1, <2>1 DEF Running
  <2> QED BY <1>1, <1>4, <2>2 DEF Holds
<1> QED BY <1>2, <1>3, <1>4

\* The claim gives out the next number, which nobody holds or has POSTed.
LEMMA ClaimTakesNext ==
  ASSUME TicketInv, NEW a \in Attempt, Claim(a)
  PROVE  ListedIsNew' /\ TicketsAreUnique'
<1> USE DEF TicketInv, At
<1> DEFINE d == att[a].d
<1>1. /\ att[a] \in Running /\ att[a] # Idle
      /\ d \in Delivery
      /\ att[a].prev \in Nat
      /\ att[a].pc \in Awaits
  BY RunningCall DEF Claim, Idle, Awaits, Running
<1>2. CASE ~Claimable(a)
  <2>1. Finish(a) /\ UNCHANGED <<row, posted, listed>>
    BY <1>2 DEF Claim, historyVars
  <2>2. NoTicketTaken
    BY <1>1, <2>1, CallKeeps DEF NoTicketTaken, Exists, Awaits
  <2>3. NothingListed
    BY <1>1, <2>1, CallKeeps DEF NothingListed, Awaits
  <2> QED BY <2>2, <2>3, TicketsKept, ListedKept
<1>3. CASE Claimable(a)
  <2> DEFINE t == Ticket(a)
  <2>1. /\ row' = [row EXCEPT ![d].attempts = t]
        /\ att' = [att EXCEPT ![a].pc = "check"]
        /\ UNCHANGED <<posted, listed>>
        /\ row[d].attempts = att[a].prev
        /\ row[d].status = "pending"
    BY <1>3 DEF Claim, Claimable, historyVars, Goto
  <2>2. \A e \in Delivery :
          /\ row'[e].status = row[e].status
          /\ row'[e].attempts = IF e = d THEN t ELSE row[e].attempts
    <3>1. row'[d] = [row[d] EXCEPT !.attempts = t]
      BY <1>1, <2>1 DEF TypeOK
    <3>2. \A e \in Delivery : e # d => row'[e] = row[e]
      BY <2>1 DEF TypeOK
    <3> QED BY <1>1, <3>1, <3>2 DEF TypeOK, RowState
  <2>3. \A b \in Attempt : b # a => att'[b] = att[b]
    BY <2>1 DEF TypeOK
  <2>4. /\ att'[a].pc = "check" /\ att'[a].d = d /\ att'[a].prev = att[a].prev
        /\ att'[a] # Idle
    BY <1>1, <2>1 DEF TypeOK, Running, Idle
  <2>5. t = row[d].attempts + 1 /\ row[d].attempts \in Nat
    BY <1>1, <2>1 DEF Ticket
  <2>6. ListedIsNew'
    BY <1>1, <2>1, <2>2, <2>3, <2>4 DEF ListedIsNew
  <2>7. TicketsAreUnique'
    <3> SUFFICES ASSUME NEW e \in Delivery, Exists(e)'
                 PROVE  /\ \A n \in posted[e] : n <= row'[e].attempts
                        /\ \A c \in Attempt : Holds(c, e)' =>
                             /\ Ticket(c)' <= row'[e].attempts
                             /\ att'[c].pc \in Unsent => Ticket(c)' \notin posted[e]
                             /\ \A b \in Attempt :
                                  Holds(b, e)' /\ Ticket(b)' = Ticket(c)' => b = c
      BY <2>1 DEF TicketsAreUnique
    <3>1. Exists(e)
      BY <2>2 DEF Exists
    <3>2. \A c \in Attempt : c # a =>
            /\ Holds(c, e)' <=> Holds(c, e)
            /\ Ticket(c)' = Ticket(c)
            /\ att'[c].pc = att[c].pc
      BY <2>3 DEF Holds, Ticket
    <3>3. Ticket(a)' = t /\ (Holds(a, e)' => e = d)
      BY <2>4 DEF Holds, Ticket
    <3>4. CASE e # d
      <4>1. row'[e].attempts = row[e].attempts
        BY <2>2, <3>4
      <4> QED BY <3>1, <3>2, <3>3, <3>4, <4>1 DEF TicketsAreUnique
    <3>5. CASE e = d
      <4>1. row'[e].attempts = t
        BY <1>1, <2>2, <3>5
      <4>2. \A n \in posted[e] : n \in Nat /\ n <= row[e].attempts
        BY <3>1 DEF TicketsAreUnique, TypeOK
      <4>3. \A c \in Attempt : Holds(c, e) =>
              /\ Ticket(c) \in Nat
              /\ Ticket(c) <= row[e].attempts
              /\ att[c].pc \in Unsent => Ticket(c) \notin posted[e]
              /\ \A b \in Attempt : Holds(b, e) /\ Ticket(b) = Ticket(c) => b = c
        <5>1. \A c \in Attempt : Holds(c, e) => att[c] \in Running
          BY DEF Holds, TypeOK
        <5>2. \A c \in Attempt : Holds(c, e) => Ticket(c) \in Nat
          BY <5>1 DEF Ticket, Running
        <5> QED BY <3>1, <5>2 DEF TicketsAreUnique
      <4>4. t \in Nat /\ row[e].attempts < t
        BY <1>1, <2>5, <3>5
      <4>5. row[e].attempts \in Nat
        BY DEF TypeOK, RowState
      <4> HIDE DEF t
      <4>6. \A n \in posted[e] : n <= t /\ n # t
        BY <4>2, <4>4, <4>5
      <4>7. \A c \in Attempt : Holds(c, e) => Ticket(c) <= t /\ Ticket(c) # t
        BY <4>3, <4>4, <4>5
      <4>8. ASSUME NEW c \in Attempt, Holds(c, e)'
            PROVE  /\ Ticket(c)' <= t
                   /\ att'[c].pc \in Unsent => Ticket(c)' \notin posted[e]
                   /\ \A b \in Attempt :
                        Holds(b, e)' /\ Ticket(b)' = Ticket(c)' => b = c
        <5>1. CASE c = a
          BY <3>2, <3>3, <4>4, <4>6, <4>7, <5>1
        <5>2. CASE c # a
          BY <3>2, <3>3, <4>3, <4>7, <4>8, <5>2
        <5> QED BY <5>1, <5>2
      <4> QED BY <4>1, <4>6, <4>8
    <3> QED BY <3>4, <3>5
  <2> QED BY <2>6, <2>7
<1> QED BY <1>2, <1>3

\* Sending the POST uses the number of the call that sends it.
LEMMA SendPostUsesTicket ==
  ASSUME TicketInv, NEW a \in Attempt, SendPost(a)
  PROVE  ListedIsNew' /\ TicketsAreUnique'
<1> USE DEF TicketInv, At, dbVars
<1> DEFINE d == att[a].d
<1>1. /\ att[a] \in Running /\ att[a] # Idle
      /\ d \in Delivery
      /\ Holds(a, d)
      /\ att[a].pc = "check"
  BY RunningCall DEF SendPost, Idle, Awaits, Running, Holds, Claimed
<1>2. /\ att' = [att EXCEPT ![a].pc = "post"]
      /\ posted' = [posted EXCEPT ![d] = @ \cup {Ticket(a)}]
      /\ UNCHANGED <<row, listed>>
  BY DEF SendPost, Goto
<1>3. \A b \in Attempt : b # a => att'[b] = att[b]
  BY <1>2 DEF TypeOK
<1>4. /\ att'[a].pc = "post" /\ att'[a].d = d /\ att'[a].prev = att[a].prev
      /\ att'[a] # Idle
  BY <1>1, <1>2 DEF TypeOK, Running, Idle
<1>5. \A e \in Delivery :
        posted'[e] = IF e = d THEN posted[d] \cup {Ticket(a)} ELSE posted[e]
  BY <1>1, <1>2 DEF TypeOK
<1>6. ListedIsNew'
  BY <1>1, <1>2, <1>3, <1>4, <1>5 DEF ListedIsNew
<1>7. \A c \in Attempt, e \in Delivery :
        /\ Holds(c, e)' <=> Holds(c, e)
        /\ Ticket(c)' = Ticket(c)
        /\ att'[c].pc \in Unsent => c # a /\ att[c].pc \in Unsent
  <2> SUFFICES ASSUME NEW c \in Attempt, NEW e \in Delivery
               PROVE  /\ Holds(c, e)' <=> Holds(c, e)
                      /\ Ticket(c)' = Ticket(c)
                      /\ att'[c].pc \in Unsent => c # a /\ att[c].pc \in Unsent
    OBVIOUS
  <2>1. CASE c # a
    BY <1>3, <2>1 DEF Holds, Ticket
  <2>2. CASE c = a
    BY <1>1, <1>4, <2>2 DEF Holds, Ticket, Unsent, Claimed, Awaits
  <2> QED BY <2>1, <2>2
<1>8. TicketsAreUnique'
  <2> SUFFICES ASSUME NEW e \in Delivery, Exists(e)'
               PROVE  /\ \A n \in posted'[e] : n <= row[e].attempts
                      /\ \A c \in Attempt : Holds(c, e) =>
                           /\ Ticket(c) <= row[e].attempts
                           /\ att'[c].pc \in Unsent => Ticket(c) \notin posted'[e]
                           /\ \A b \in Attempt :
                                Holds(b, e) /\ Ticket(b) = Ticket(c) => b = c
    BY <1>2, <1>7 DEF TicketsAreUnique
  <2>1. Exists(e)
    BY <1>2 DEF Exists
  <2> QED BY <1>1, <1>5, <1>7, <2>1 DEF TicketsAreUnique
<1> QED BY <1>6, <1>8

\* Every other step of a running call leaves tickets and lists alone.
LEMMA TicketsAdvance ==
  ASSUME TicketInv, NEW a \in Attempt, Advance(a) \/ Throw(a)
  PROVE  ListedIsNew' /\ TicketsAreUnique'
<1> USE DEF TicketInv, At, dbVars, historyVars, budgetVars
<1>1. att[a].pc \in Awaits
  BY DEF Advance, UrlChecked, Answered, ReadWebhook, FailInactive, Defer,
     Claim, SendPost, RefuseTarget, FailUnsafe, AnswerOk, MarkDelivered,
     AnswerFailure, FailExhausted, ScheduleRetry, AnswerGone, GoneFailOwn,
     GoneDisable, GoneSweep, GoneAudit, Throw, Awaits
<1>2. att[a] \in Running /\ att[a].d \in Delivery
  BY <1>1, RunningCall DEF Running
<1> DEFINE CallQuiet ==
      /\ \A b \in Attempt, d \in Delivery :
           Holds(b, d)' => /\ Holds(b, d)
                           /\ att'[b].prev = att[b].prev
                           /\ att'[b].pc \in Unsent => att[b].pc \in Unsent
      /\ \A b \in Attempt : att'[b] # Idle =>
           att[b] # Idle /\ att'[b].d = att[b].d
    RowsQuiet ==
      \A e \in Delivery : /\ Exists(e)' <=> Exists(e)
                          /\ row'[e].attempts = row[e].attempts
                          /\ row'[e].status = "none" <=> row[e].status = "none"
<1>3. ASSUME CallQuiet, RowsQuiet, UNCHANGED <<posted, listed>>
      PROVE  ListedIsNew' /\ TicketsAreUnique'
  <2>1. NoTicketTaken
    BY <1>3 DEF NoTicketTaken
  <2>2. NothingListed
    BY <1>3 DEF NothingListed
  <2> QED BY <2>1, <2>2, TicketsKept, ListedKept
<1>4. (UNCHANGED row) => RowsQuiet
  BY DEF Exists
<1>5. \A s \in {"pending", "delivered", "failed"}, t \in {"null", "future", "due"} :
        \/ UpdateRow(att[a].d, [row[att[a].d] EXCEPT !.status = s])
        \/ UpdateRow(att[a].d, [row[att[a].d] EXCEPT !.status = s, !.retryAt = t])
        => RowsQuiet
  BY <1>2, UpdateKeeps
<1>6. \A await \in Awaits :
        \/ Finish(a)
        \/ Goto(a, await) /\ await \notin Unsent
                          /\ (await \in Claimed => att[a].pc \in Claimed)
        => CallQuiet
  BY <1>1, CallKeeps
<1> HIDE DEF CallQuiet, RowsQuiet
<1> USE DEF Awaits, Claimed, Unsent
<1>7. CASE ReadWebhook(a)
  BY <1>3, <1>4, <1>6, <1>7 DEF ReadWebhook
<1>8. CASE FailInactive(a)
  BY <1>3, <1>5, <1>6, <1>8 DEF FailInactive
<1>9. CASE Defer(a)
  BY <1>3, <1>5, <1>6, <1>9 DEF Defer
<1>10. CASE Claim(a)
  BY <1>10, ClaimTakesNext
<1>11. CASE SendPost(a)
  BY <1>11, SendPostUsesTicket
<1>12. CASE RefuseTarget(a)
  BY <1>3, <1>4, <1>6, <1>12 DEF RefuseTarget
<1>13. CASE FailUnsafe(a)
  BY <1>3, <1>5, <1>6, <1>13 DEF FailUnsafe, MarkFailed
<1>14. CASE AnswerOk(a)
  BY <1>3, <1>4, <1>6, <1>14 DEF AnswerOk
<1>15. CASE MarkDelivered(a)
  BY <1>3, <1>5, <1>6, <1>15 DEF MarkDelivered
<1>16. CASE AnswerFailure(a)
  BY <1>3, <1>4, <1>6, <1>16 DEF AnswerFailure
<1>17. CASE FailExhausted(a)
  BY <1>3, <1>5, <1>6, <1>17 DEF FailExhausted, MarkFailed
<1>18. CASE ScheduleRetry(a)
  BY <1>3, <1>5, <1>6, <1>18 DEF ScheduleRetry
<1>19. CASE AnswerGone(a)
  BY <1>3, <1>4, <1>6, <1>19 DEF AnswerGone
<1>20. CASE GoneFailOwn(a)
  BY <1>3, <1>5, <1>6, <1>20 DEF GoneFailOwn, MarkFailed
<1>21. CASE GoneDisable(a)
  <2>1. PICK f \in BOOLEAN :
          att' = [att EXCEPT ![a] = [@ EXCEPT !.pc = "goneSweep", !.flipped = f]]
    BY <1>21 DEF GoneDisable
  <2>2. \A b \in Attempt : b # a => att'[b] = att[b]
    BY <2>1 DEF TypeOK
  <2>3. /\ att'[a].pc = "goneSweep"
        /\ att'[a].d = att[a].d
        /\ att'[a].prev = att[a].prev
    BY <1>2, <2>1 DEF TypeOK, Running
  <2>4. att[a].pc = "goneDisable" /\ att[a] # Idle
    BY <1>21 DEF GoneDisable, Idle
  <2>5. CallQuiet
    BY <2>2, <2>3, <2>4 DEF CallQuiet, Holds
  <2> QED BY <1>3, <1>4, <1>21, <2>5 DEF GoneDisable
<1>22. CASE GoneSweep(a)
  <2>1. \A e \in Delivery :
          \/ row'[e] = row[e]
          \/ /\ row[e].status = "pending"
             /\ row'[e] = [row[e] EXCEPT !.status = "failed", !.retryAt = "null"]
    BY <1>22 DEF GoneSweep
  <2>2. \A e \in Delivery : row[e] \in RowState
    BY DEF TypeOK
  <2>3. \A e \in Delivery :
          \/ row'[e] = row[e]
          \/ /\ row[e].status = "pending" /\ row'[e].status = "failed"
             /\ row'[e].attempts = row[e].attempts
    <3> SUFFICES ASSUME NEW e \in Delivery, row'[e] # row[e]
                 PROVE  /\ row[e].status = "pending"
                        /\ row'[e].status = "failed"
                        /\ row'[e].attempts = row[e].attempts
      OBVIOUS
    <3>1. /\ row[e].status = "pending"
          /\ row'[e] = [row[e] EXCEPT !.status = "failed", !.retryAt = "null"]
      BY <2>1
    <3>2. row[e] \in RowState
      BY <2>2
    <3> QED BY <3>1, <3>2 DEF RowState
  <2>4. RowsQuiet
    BY <2>3 DEF RowsQuiet, Exists
  <2> QED BY <1>3, <1>6, <1>22, <2>4 DEF GoneSweep
<1>23. CASE GoneAudit(a)
  BY <1>3, <1>4, <1>6, <1>23 DEF GoneAudit
<1>24. CASE Throw(a)
  BY <1>3, <1>4, <1>6, <1>24 DEF Throw
<1> QED
  BY <1>7, <1>8, <1>9, <1>10, <1>11, <1>12, <1>13, <1>14, <1>15, <1>16,
     <1>17, <1>18, <1>19, <1>20, <1>21, <1>22, <1>23, <1>24
  DEF Advance, UrlChecked, Answered

\* Neither do dispatch, the reaper, a crash, time or the administrator.
LEMMA TicketsOthers ==
  ASSUME TicketInv
  PROVE  /\ \A p \in Proc, d \in Delivery :
              \/ ListActiveWebhooks(p, d) \/ EnqueueDelivery(p, d)
              \/ \E a \in Attempt : ReadDelivery(a, p, d)
              => ListedIsNew' /\ TicketsAreUnique'
         /\ \A p \in Proc : FlushDueRetries(p) \/ Crash(p) =>
              ListedIsNew' /\ TicketsAreUnique'
         /\ \A d \in Delivery : RetryTimePasses(d) =>
              ListedIsNew' /\ TicketsAreUnique'
         /\ \A p \in Proc, w \in Webhook :
              ResetTimePasses(p, w) \/ ResetBreaker(p, w) =>
                ListedIsNew' /\ TicketsAreUnique'
         /\ \A w \in Webhook :
              \/ \E active \in BOOLEAN : \/ CreateWebhook(w, active)
                                         \/ SetActive(w, active)
              \/ DeleteWebhook(w)
              => ListedIsNew' /\ TicketsAreUnique'
<1> USE DEF TicketInv, dbVars, historyVars, budgetVars
<1>1. ASSUME UNCHANGED <<row, att, posted>>, listed' \subseteq listed
      PROVE  ListedIsNew' /\ TicketsAreUnique'
  <2>1. NoTicketTaken
    BY <1>1 DEF NoTicketTaken, Exists, Holds
  <2>2. NothingListed
    BY <1>1 DEF NothingListed
  <2> QED BY <2>1, <2>2, TicketsKept, ListedKept
<1>2. ASSUME NEW p \in Proc, NEW d \in Delivery, ListActiveWebhooks(p, d)
      PROVE  ListedIsNew' /\ TicketsAreUnique'
  <2>1. /\ listed' = listed \cup {<<p, d>>}
        /\ UNCHANGED <<row, att, posted>>
        /\ row[d].status = "none"
        /\ \A q \in Proc : <<q, d>> \notin listed
    BY <1>2 DEF ListActiveWebhooks, NoRow
  <2>2. ListedIsNew'
    BY <2>1 DEF ListedIsNew
  <2>3. NoTicketTaken
    BY <2>1 DEF NoTicketTaken, Exists, Holds
  <2> QED BY <2>2, <2>3, TicketsKept
<1>3. ASSUME NEW p \in Proc, NEW d \in Delivery, EnqueueDelivery(p, d)
      PROVE  ListedIsNew' /\ TicketsAreUnique'
  <2>1. /\ listed' = listed \ {<<p, d>>}
        /\ UNCHANGED <<att, posted>>
        /\ <<p, d>> \in listed
    BY <1>3 DEF EnqueueDelivery
  <2>2. /\ row'[d] = NewRow \/ row'[d] = DeletedRow
        /\ \A e \in Delivery : e # d => row'[e] = row[e]
    BY <1>3 DEF EnqueueDelivery, TypeOK
  <2>3. /\ row[d].status = "none"
        /\ posted[d] = {}
        /\ \A a \in Attempt : att[a] # Idle => att[a].d # d
    BY <2>1 DEF ListedIsNew
  <2>4. row'[d].status # "none"
    BY <2>2 DEF NewRow, DeletedRow
  <2>5. ListedIsNew'
    BY <2>1, <2>2, <2>3, <2>4 DEF ListedIsNew
  <2>6. \A a \in Attempt, e \in Delivery : Holds(a, e)' <=> Holds(a, e) /\ e # d
    BY <2>1, <2>3 DEF Holds
  <2>7. TicketsAreUnique'
    BY <2>1, <2>2, <2>3, <2>6 DEF TicketsAreUnique, Exists, Ticket
  <2> QED BY <2>5, <2>7
<1>4. ASSUME NEW p \in Proc, NEW d \in Delivery, NEW a \in Attempt,
             ReadDelivery(a, p, d)
      PROVE  ListedIsNew' /\ TicketsAreUnique'
  <2>1. UNCHANGED <<row, listed, posted>>
    BY <1>4 DEF ReadDelivery
  <2>2. \A b \in Attempt : b # a => att'[b] = att[b]
    BY <1>4 DEF ReadDelivery, TypeOK
  <2>3. \/ att'[a] = Idle
        \/ /\ att'[a].pc = "hook" /\ att'[a].d = d
           /\ row[d].status # "none"
    BY <1>4 DEF ReadDelivery, TypeOK
  <2>4. ~Holds(a, d)' /\ \A e \in Delivery : ~Holds(a, e)'
    BY <2>3 DEF Holds, Claimed, Idle
  <2>5. NoTicketTaken
    BY <2>1, <2>2, <2>4 DEF NoTicketTaken, Holds, Exists
  <2>6. NothingListed
    BY <2>1, <2>2, <2>3 DEF NothingListed
  <2> QED BY <2>5, <2>6, TicketsKept, ListedKept
<1>5. ASSUME NEW p \in Proc, FlushDueRetries(p)
      PROVE  ListedIsNew' /\ TicketsAreUnique'
  BY <1>1, <1>5 DEF FlushDueRetries
<1>6. ASSUME NEW p \in Proc, Crash(p)
      PROVE  ListedIsNew' /\ TicketsAreUnique'
  <2>1. UNCHANGED <<row, posted>> /\ listed' \subseteq listed
    BY <1>6 DEF Crash
  <2>2. \A b \in Attempt : att'[b] = Idle \/ att'[b] = att[b]
    BY <1>6 DEF Crash
  <2>3. NoTicketTaken
    BY <2>1, <2>2 DEF NoTicketTaken, Holds, Exists
  <2>4. NothingListed
    BY <2>1, <2>2 DEF NothingListed
  <2> QED BY <2>3, <2>4, TicketsKept, ListedKept
<1>7. ASSUME NEW d \in Delivery, RetryTimePasses(d)
      PROVE  ListedIsNew' /\ TicketsAreUnique'
  <2>1. /\ UNCHANGED <<listed, posted, att>>
        /\ \A e \in Delivery : /\ row'[e].status = row[e].status
                               /\ row'[e].attempts = row[e].attempts
    BY <1>7 DEF RetryTimePasses, TypeOK, RowState
  <2>2. NoTicketTaken
    BY <2>1 DEF NoTicketTaken, Holds, Exists
  <2>3. NothingListed
    BY <2>1 DEF NothingListed
  <2> QED BY <2>2, <2>3, TicketsKept, ListedKept
<1>8. ASSUME NEW p \in Proc, NEW w \in Webhook,
             ResetTimePasses(p, w) \/ ResetBreaker(p, w)
      PROVE  ListedIsNew' /\ TicketsAreUnique'
  BY <1>1, <1>8 DEF ResetTimePasses, ResetBreaker
<1>9. ASSUME NEW w \in Webhook, NEW active \in BOOLEAN,
             CreateWebhook(w, active) \/ SetActive(w, active)
      PROVE  ListedIsNew' /\ TicketsAreUnique'
  BY <1>1, <1>9 DEF CreateWebhook, SetActive
<1>10. ASSUME NEW w \in Webhook, DeleteWebhook(w)
       PROVE  ListedIsNew' /\ TicketsAreUnique'
  <2>1. UNCHANGED <<listed, posted, att>>
    BY <1>10 DEF DeleteWebhook
  <2>2. \A e \in Delivery : \/ row'[e] = row[e]
                            \/ Exists(e) /\ row'[e] = DeletedRow
    BY <1>10 DEF DeleteWebhook
  <2>3. \A e \in Delivery : Exists(e)' => row'[e] = row[e]
    BY <2>2 DEF Exists, DeletedRow
  <2>4. NoTicketTaken
    BY <2>1, <2>3 DEF NoTicketTaken, Holds, Exists
  <2>5. \A e \in Delivery : row'[e].status = "none" <=> row[e].status = "none"
    BY <2>2 DEF Exists, DeletedRow
  <2>6. NothingListed
    BY <2>1, <2>5 DEF NothingListed
  <2> QED BY <2>4, <2>6, TicketsKept, ListedKept
<1> QED
  BY <1>2, <1>3, <1>4, <1>5, <1>6, <1>7, <1>8, <1>9, <1>10

LEMMA TicketInit == Init => TicketInv
<1> SUFFICES ASSUME Init PROVE TicketInv
  OBVIOUS
<1>1. TypeOK
  BY TypeInit
<1>2. ListedIsNew
  BY DEF Init, ListedIsNew, Idle
<1>3. TicketsAreUnique
  BY DEF Init, TicketsAreUnique, Holds, Exists, NoRow
<1> QED BY <1>1, <1>2, <1>3 DEF TicketInv

LEMMA TicketNext == TicketInv /\ [Next]_vars => TicketInv'
<1>1. ASSUME TicketInv, Next PROVE ListedIsNew' /\ TicketsAreUnique'
  <2>1. CASE \E a \in Attempt : Advance(a) \/ Throw(a)
    BY <1>1, <2>1, TicketsAdvance
  <2>2. CASE ~ \E a \in Attempt : Advance(a) \/ Throw(a)
    BY <1>1, <2>2, TicketsOthers DEF Next, System, Environment
  <2> QED BY <2>1, <2>2
<1>2. ASSUME TicketInv, UNCHANGED vars PROVE ListedIsNew' /\ TicketsAreUnique'
  BY <1>2 DEF TicketInv, ListedIsNew, TicketsAreUnique, Holds, Exists, Ticket,
     vars
<1> QED BY <1>1, <1>2, TypeNext DEF TicketInv

\* The optimistic claim of attemptDelivery never lets two calls POST the same
\* attempt of a delivery, whatever the number of replicas, timers and reapers.
THEOREM UniqueTickets == Spec => []TicketsAreUnique
<1>1. Spec => []TicketInv
  BY TicketInit, TicketNext, PTL DEF Spec
<1>2. TicketInv => TicketsAreUnique
  BY DEF TicketInv
<1> QED BY <1>1, <1>2, PTL

-----------------------------------------------------------------------------
(* The breakers.                                                           *)

\* A step changes a breaker only by one of its methods, by a restart or by
\* the passing of its reset timeout.
BreakerMoves ==
  \A p \in Proc, w \in Webhook :
    \/ breaker'[p][w] \in {breaker[p][w], FreshEntry,
                           AfterShouldAttempt(breaker[p][w]),
                           AfterSuccess(breaker[p][w]),
                           AfterFailure(breaker[p][w])}
    \/ /\ breaker[p][w].openedAt = "recent"
       /\ breaker'[p][w] = AfterResetTimeout(breaker[p][w])

LEMMA BreakerStepMoves ==
  ASSUME TypeOK, [Next]_vars
  PROVE  BreakerMoves
<1> USE DEF At, dbVars, historyVars, budgetVars
<1>1. CASE UNCHANGED breaker
  BY <1>1 DEF BreakerMoves
<1>2. ASSUME NEW a \in Attempt, att[a].pc \in Awaits,
             \/ SetBreaker(a, FreshEntry)
             \/ SetBreaker(a, AfterShouldAttempt(BreakerOf(a)))
             \/ SetBreaker(a, AfterSuccess(BreakerOf(a)))
             \/ SetBreaker(a, AfterFailure(BreakerOf(a)))
      PROVE  BreakerMoves
  BY <1>2, RunningCall DEF TypeOK, Running, SetBreaker, BreakerOf, HookOf,
     BreakerMoves
<1>3. ASSUME NEW a \in Attempt, Advance(a) \/ Throw(a)
      PROVE  BreakerMoves
  <2>1. CASE UNCHANGED breaker
    BY <2>1 DEF BreakerMoves
  <2>2. CASE ~ UNCHANGED breaker
    <3>1. \/ ReadWebhook(a) \/ AnswerOk(a) \/ AnswerFailure(a) \/ AnswerGone(a)
      BY <1>3, <2>2
      DEF Advance, UrlChecked, Answered, FailInactive, Defer, Claim, SendPost,
          RefuseTarget, FailUnsafe, MarkDelivered, FailExhausted,
          ScheduleRetry, GoneFailOwn, GoneDisable, GoneSweep, GoneAudit, Throw
    <3> QED BY <1>2, <2>2, <3>1
            DEF ReadWebhook, AnswerOk, AnswerFailure, AnswerGone, Awaits
  <2> QED BY <2>1, <2>2
<1>4. ASSUME NEW p \in Proc, Crash(p)
      PROVE  BreakerMoves
  BY <1>4 DEF Crash, TypeOK, BreakerMoves
<1>5. ASSUME NEW p \in Proc, NEW w \in Webhook,
             ResetTimePasses(p, w) \/ ResetBreaker(p, w)
      PROVE  BreakerMoves
  BY <1>5 DEF ResetTimePasses, ResetBreaker, TypeOK, BreakerMoves
<1>6. CASE ~ UNCHANGED breaker
  <2>1. \/ \E a \in Attempt : Advance(a) \/ Throw(a)
        \/ \E p \in Proc : Crash(p)
        \/ \E p \in Proc, w \in Webhook :
             ResetTimePasses(p, w) \/ ResetBreaker(p, w)
    BY <1>6
    DEF Next, System, Environment, ListActiveWebhooks, EnqueueDelivery,
        ReadDelivery, FlushDueRetries, RetryTimePasses, CreateWebhook,
        SetActive, DeleteWebhook, vars
  <2> QED BY <1>3, <1>4, <1>5, <2>1
<1> QED BY <1>1, <1>6

\* No interleaving of attempts, answers, restarts and resets brings a breaker
\* into a state its methods were not written for.
THEOREM BreakersStayConsistent == Spec => []BreakersConsistent
<1>1. Init => BreakersConsistent
  BY DEF Init, BreakersConsistent, Consistent, FreshEntry
<1>2. TypeOK /\ BreakersConsistent /\ [Next]_vars => BreakersConsistent'
  <2> SUFFICES ASSUME TypeOK, BreakersConsistent, [Next]_vars,
                      NEW p \in Proc, NEW w \in Webhook
               PROVE  Consistent(breaker'[p][w])
    BY DEF BreakersConsistent
  <2>1. breaker[p][w] \in Entry /\ Consistent(breaker[p][w])
    BY DEF TypeOK, BreakersConsistent
  <2>2. \/ breaker'[p][w] \in {breaker[p][w], FreshEntry,
                               AfterShouldAttempt(breaker[p][w]),
                               AfterSuccess(breaker[p][w]),
                               AfterFailure(breaker[p][w])}
        \/ /\ breaker[p][w].openedAt = "recent"
           /\ breaker'[p][w] = AfterResetTimeout(breaker[p][w])
    BY BreakerStepMoves DEF BreakerMoves
  <2> QED BY <2>1, <2>2, EntryConsistent
<1> QED BY <1>1, <1>2, TypeCorrect, PTL DEF Spec

-----------------------------------------------------------------------------
(* What a delivered row means.                                             *)

\* A call that is about to mark its row delivered has had a 2xx.
OkMeansAcked ==
  \A a \in Attempt : att[a].pc = "ok" => att[a].d \in acked

AckInv == DeliveredWasAcked /\ OkMeansAcked

\* Only AnswerOk brings a call to "ok", and only MarkDelivered writes
\* `delivered'.
LEMMA AckNext == TypeOK /\ AckInv /\ [Next]_vars => AckInv'
<1> SUFFICES ASSUME TypeOK, DeliveredWasAcked, OkMeansAcked, [Next]_vars
             PROVE  DeliveredWasAcked' /\ OkMeansAcked'
  BY DEF AckInv
<1> USE DEF At, dbVars, historyVars, budgetVars
<1>1. acked \subseteq acked'
  BY DEF Next, System, Environment, Advance, UrlChecked, Answered,
     ListActiveWebhooks, EnqueueDelivery, ReadDelivery, FlushDueRetries,
     ReadWebhook, FailInactive, Defer, Claim, SendPost, RefuseTarget,
     FailUnsafe, AnswerOk, MarkDelivered, AnswerFailure, FailExhausted,
     ScheduleRetry, AnswerGone, GoneFailOwn, GoneDisable, GoneSweep,
     GoneAudit, Throw, Crash, RetryTimePasses, ResetTimePasses,
     CreateWebhook, SetActive, DeleteWebhook, ResetBreaker, vars
<1>2. ASSUME \A a \in Attempt : \/ att'[a] = att[a]
                                \/ att'[a].pc # "ok"
      PROVE  OkMeansAcked'
  BY <1>1, <1>2 DEF OkMeansAcked
<1>3. ASSUME \A d \in Delivery : \/ row'[d].status = row[d].status
                                 \/ row'[d].status # "delivered"
      PROVE  DeliveredWasAcked'
  BY <1>1, <1>3 DEF DeliveredWasAcked
<1>4. \A a \in Attempt, await \in Awaits \ {"ok"} :
        Goto(a, await) \/ Finish(a) => OkMeansAcked'
  <2> SUFFICES ASSUME NEW a \in Attempt, NEW await \in Awaits \ {"ok"},
                      Goto(a, await) \/ Finish(a), NEW b \in Attempt
               PROVE  att'[b] = att[b] \/ att'[b].pc # "ok"
    BY <1>2
  <2>1. CASE b # a
    BY <2>1 DEF TypeOK, Goto, Finish
  <2>2. CASE b = a /\ Finish(a)
    BY <2>2 DEF TypeOK, Finish, Idle
  <2>3. CASE b = a /\ Goto(a, await)
    BY <2>3 DEF TypeOK, Goto, Running, Idle
  <2> QED BY <2>1, <2>2, <2>3
<1>5. \A d \in Delivery, s \in {"pending", "failed"}, t \in {"null", "future", "due"} :
        \/ UpdateRow(d, [row[d] EXCEPT !.status = s])
        \/ UpdateRow(d, [row[d] EXCEPT !.status = s, !.retryAt = t])
        => DeliveredWasAcked'
  <2> SUFFICES ASSUME NEW d \in Delivery, NEW s \in {"pending", "failed"},
                      NEW t \in {"null", "future", "due"},
                      \/ UpdateRow(d, [row[d] EXCEPT !.status = s])
                      \/ UpdateRow(d, [row[d] EXCEPT !.status = s, !.retryAt = t]),
                      NEW e \in Delivery
               PROVE  row'[e].status = row[e].status \/ row'[e].status # "delivered"
    BY <1>3
  <2>1. \/ row'[e] = row[e]
        \/ row'[e] = [row[e] EXCEPT !.status = s]
        \/ row'[e] = [row[e] EXCEPT !.status = s, !.retryAt = t]
    BY DEF TypeOK, UpdateRow
  <2>2. row[e] \in RowState
    BY DEF TypeOK
  <2> QED BY <2>1, <2>2 DEF RowState
<1>6. ASSUME NEW a \in Attempt, Advance(a) \/ Throw(a)
      PROVE  DeliveredWasAcked' /\ OkMeansAcked'
  <2>1. att[a].pc \in Awaits
    BY <1>6 DEF Advance, UrlChecked, Answered, ReadWebhook, FailInactive, Defer,
       Claim, SendPost, RefuseTarget, FailUnsafe, AnswerOk, MarkDelivered,
       AnswerFailure, FailExhausted, ScheduleRetry, AnswerGone, GoneFailOwn,
       GoneDisable, GoneSweep, GoneAudit, Throw, Awaits
  <2>2. att[a] \in Running /\ att[a].d \in Delivery
    BY <2>1, RunningCall DEF Running
  <2> USE DEF Awaits
  <2>3. (UNCHANGED row) => DeliveredWasAcked'
    BY <1>3
  <2>4. CASE \/ ReadWebhook(a) \/ RefuseTarget(a) \/ AnswerFailure(a)
             \/ AnswerGone(a) \/ GoneAudit(a) \/ Throw(a) \/ SendPost(a)
    BY <1>4, <2>3, <2>4 DEF ReadWebhook, RefuseTarget, AnswerFailure,
       AnswerGone, GoneAudit, Throw, SendPost
  <2>5. CASE \/ FailInactive(a) \/ Defer(a) \/ FailUnsafe(a) \/ FailExhausted(a)
             \/ ScheduleRetry(a) \/ GoneFailOwn(a)
    BY <1>4, <1>5, <2>2, <2>5 DEF FailInactive, Defer, FailUnsafe,
       FailExhausted, ScheduleRetry, GoneFailOwn, MarkFailed
  <2>6. CASE Claim(a)
    <3> DEFINE own     == att[a].d
               claimed == [row[own] EXCEPT !.attempts = Ticket(a)]
    <3>1. \/ row' = [row EXCEPT ![own] = claimed]
          \/ row' = row
      BY <2>6 DEF Claim
    <3>2. claimed.status = row[own].status
      BY <2>2 DEF TypeOK, RowState
    <3> HIDE DEF claimed
    <3>3. \A d \in Delivery : row'[d].status = row[d].status
      BY <3>1, <3>2 DEF TypeOK
    <3> QED BY <1>3, <1>4, <2>6, <3>3 DEF Claim
  <2>7. CASE AnswerOk(a)
    <3>1. \A b \in Attempt : b # a => att'[b] = att[b]
      BY <2>7 DEF AnswerOk, Goto, TypeOK
    <3>2. att'[a].d = att[a].d
      BY <2>2, <2>7 DEF AnswerOk, Goto, TypeOK, Running
    <3>3. att[a].d \in acked'
      BY <2>7 DEF AnswerOk
    <3>4. OkMeansAcked'
      BY <1>1, <3>1, <3>2, <3>3 DEF OkMeansAcked
    <3> QED BY <2>3, <2>7, <3>4 DEF AnswerOk
  <2>8. CASE MarkDelivered(a)
    <3>1. att[a].d \in acked
      BY <2>8 DEF MarkDelivered, OkMeansAcked
    <3>2. \A e \in Delivery : e # att[a].d => row'[e] = row[e]
      BY <2>8 DEF MarkDelivered, UpdateRow, TypeOK
    <3>3. DeliveredWasAcked'
      BY <1>1, <3>1, <3>2 DEF DeliveredWasAcked
    <3> QED BY <1>4, <2>8, <3>3 DEF MarkDelivered
  <2>9. CASE GoneDisable(a)
    <3>1. \A b \in Attempt : b # a => att'[b] = att[b]
      BY <2>9 DEF GoneDisable, TypeOK
    <3>2. att'[a].pc = "goneSweep"
      BY <2>2, <2>9 DEF GoneDisable, TypeOK, Running
    <3> QED BY <1>2, <2>3, <2>9, <3>1, <3>2 DEF GoneDisable
  <2>10. CASE GoneSweep(a)
    <3>1. \A e \in Delivery : \/ row'[e] = row[e]
                              \/ row'[e] = [row[e] EXCEPT !.status = "failed",
                                                          !.retryAt = "null"]
      BY <2>10 DEF GoneSweep
    <3>2. \A e \in Delivery : row[e] \in RowState
      BY DEF TypeOK
    <3>3. \A e \in Delivery : \/ row'[e] = row[e]
                              \/ row'[e].status # "delivered"
      BY <3>1, <3>2 DEF RowState
    <3> QED BY <1>3, <1>4, <2>10, <3>3 DEF GoneSweep
  <2> QED
    BY <1>6, <2>4, <2>5, <2>6, <2>7, <2>8, <2>9, <2>10
    DEF Advance, UrlChecked, Answered
<1>7. ASSUME NEW p \in Proc, NEW d \in Delivery, NEW a \in Attempt,
             ReadDelivery(a, p, d)
      PROVE  DeliveredWasAcked' /\ OkMeansAcked'
  <2>1. \A b \in Attempt : \/ att'[b] = att[b] \/ att'[b].pc = "hook"
    BY <1>7 DEF ReadDelivery, TypeOK
  <2> QED BY <1>2, <1>3, <1>7, <2>1 DEF ReadDelivery
<1>8. ASSUME NEW p \in Proc, NEW d \in Delivery, EnqueueDelivery(p, d)
      PROVE  DeliveredWasAcked' /\ OkMeansAcked'
  <2>1. \A e \in Delivery : row'[e] \in {row[e], NewRow, DeletedRow}
    BY <1>8 DEF EnqueueDelivery, TypeOK
  <2>2. \A e \in Delivery : \/ row'[e].status = row[e].status
                            \/ row'[e].status # "delivered"
    BY <2>1 DEF NewRow, DeletedRow
  <2> QED BY <1>2, <1>3, <1>8, <2>2 DEF EnqueueDelivery
<1>9. ASSUME NEW p \in Proc, Crash(p)
      PROVE  DeliveredWasAcked' /\ OkMeansAcked'
  <2>1. \A b \in Attempt : \/ att'[b] = att[b] \/ att'[b].pc # "ok"
    BY <1>9 DEF Crash, Idle
  <2> QED BY <1>2, <1>3, <1>9, <2>1 DEF Crash
<1>10. ASSUME NEW d \in Delivery, RetryTimePasses(d)
       PROVE  DeliveredWasAcked' /\ OkMeansAcked'
  <2>1. \A e \in Delivery : row'[e].status = row[e].status
    BY <1>10 DEF RetryTimePasses, TypeOK, RowState
  <2> QED BY <1>2, <1>3, <1>10, <2>1 DEF RetryTimePasses
<1>11. ASSUME NEW w \in Webhook, DeleteWebhook(w)
       PROVE  DeliveredWasAcked' /\ OkMeansAcked'
  <2>1. \A e \in Delivery : row'[e] \in {row[e], DeletedRow}
    BY <1>11 DEF DeleteWebhook
  <2>2. \A e \in Delivery : \/ row'[e].status = row[e].status
                            \/ row'[e].status # "delivered"
    BY <2>1 DEF DeletedRow
  <2> QED BY <1>2, <1>3, <1>11, <2>2 DEF DeleteWebhook
<1>12. CASE UNCHANGED <<att, row>>
  BY <1>2, <1>3, <1>12
<1> QED
  BY <1>6, <1>7, <1>8, <1>9, <1>10, <1>11, <1>12
  DEF Next, System, Environment, ListActiveWebhooks, FlushDueRetries,
      ResetTimePasses, ResetBreaker, CreateWebhook, SetActive, vars

\* `delivered' in the table means that the receiver answered a POST with 2xx.
THEOREM DeliveredMeansAcked == Spec => []DeliveredWasAcked
<1>1. Init => AckInv
  BY DEF Init, AckInv, DeliveredWasAcked, OkMeansAcked, NoRow, Idle
<1>2. Spec => []AckInv
  BY <1>1, AckNext, TypeCorrect, PTL DEF Spec
<1>3. AckInv => DeliveredWasAcked
  BY DEF AckInv
<1> QED BY <1>2, <1>3, PTL
-----------------------------------------------------------------------------
(* The audit rows of a 410.                                                *)

\* The calls that flipped w out of service and have still to audit it.
Auditing(w) ==
  {a \in Attempt : /\ HookOf(a) = w
                   /\ \/ att[a].pc = "goneAudit"
                      \/ att[a].pc = "goneSweep" /\ att[a].flipped}

\* An activation pays for one audit row: the row is written, or some call has
\* still to write it, or the webhook is active and nobody has flipped it.
AuditInv ==
  \A w \in Webhook :
    audits[w] + Cardinality(Auditing(w)) + (IF hook[w] = "active" THEN 1 ELSE 0)
      <= activations[w]

LEMMA CallSets ==
  ASSUME NEW S \in SUBSET Attempt
  PROVE  IsFiniteSet(S) /\ Cardinality(S) \in Nat
BY FS_Subset, FS_CardinalityType, CallAssumption

\* What most steps do to audits: nothing.  No call joins those that have to
\* audit, and no webhook becomes active without being counted.
NobodyFlips ==
  /\ UNCHANGED <<audits, activations>>
  /\ \A w \in Webhook : /\ Auditing(w)' \subseteq Auditing(w)
                        /\ hook'[w] = "active" => hook[w] = "active"

LEMMA AuditKept ==
  ASSUME TypeOK, AuditInv, NobodyFlips
  PROVE  AuditInv'
<1> SUFFICES ASSUME NEW w \in Webhook
             PROVE  audits[w] + Cardinality(Auditing(w)')
                      + (IF hook'[w] = "active" THEN 1 ELSE 0) <= activations[w]
  BY DEF AuditInv, NobodyFlips
<1>1. audits[w] + Cardinality(Auditing(w)) + (IF hook[w] = "active" THEN 1 ELSE 0)
        <= activations[w]
  BY DEF AuditInv
<1>2. Auditing(w) \subseteq Attempt /\ Auditing(w)' \subseteq Auditing(w)
  BY DEF Auditing, NobodyFlips
<1>3. /\ Cardinality(Auditing(w)) \in Nat
      /\ Cardinality(Auditing(w)') \in Nat
      /\ Cardinality(Auditing(w)') <= Cardinality(Auditing(w))
  BY <1>2, CallSets, FS_Subset
<1>4. audits[w] \in Nat /\ activations[w] \in Nat
  BY DEF TypeOK
<1>5. hook'[w] = "active" => hook[w] = "active"
  BY DEF NobodyFlips
<1> QED BY <1>1, <1>3, <1>4, <1>5

\* A step of one call leaves the others where they were.
LEMMA OtherCalls ==
  ASSUME NEW a \in Attempt, \A b \in Attempt : b # a => att'[b] = att[b]
  PROVE  \A b \in Attempt, w \in Webhook :
           b # a => (b \in Auditing(w)' <=> b \in Auditing(w))
BY DEF Auditing, HookOf

\* Ending a call, or moving it to an await that is not one of the audit's.
LEMMA CallDoesNotFlip ==
  ASSUME TypeOK, NEW a \in Attempt, att[a].pc \in Awaits,
         NEW await \in Awaits \ {"goneSweep", "goneAudit"},
         Finish(a) \/ Goto(a, await)
  PROVE  \A w \in Webhook : Auditing(w)' \subseteq Auditing(w)
<1>1. att[a] \in Running
  BY RunningCall
<1>2. \A b \in Attempt : b # a => att'[b] = att[b]
  BY DEF TypeOK, Finish, Goto
<1>3. att'[a] = Idle \/ att'[a] = [att[a] EXCEPT !.pc = await]
  BY DEF TypeOK, Finish, Goto
<1>4. att'[a].pc \notin {"goneSweep", "goneAudit"}
  BY <1>1, <1>3 DEF Running, Idle
<1>5. \A w \in Webhook : a \notin Auditing(w)'
  BY <1>4 DEF Auditing
<1> QED BY <1>2, <1>5, OtherCalls DEF Auditing

\* The UPDATE ... WHERE active = true: who flips joins, and nobody else can.
LEMMA DisableFlipsOnce ==
  ASSUME TypeOK, AuditInv, NEW a \in Attempt, GoneDisable(a)
  PROVE  AuditInv'
<1> DEFINE v == HookOf(a)
           flips == hook[v] = "active"
<1>1. att[a] \in Running /\ v \in Webhook /\ att[a].pc = "goneDisable"
  BY RunningCall DEF GoneDisable, At, Awaits, Running, HookOf
<1>2. /\ att' = [att EXCEPT ![a] = [@ EXCEPT !.pc = "goneSweep", !.flipped = flips]]
      /\ hook' = IF flips THEN [hook EXCEPT ![v] = "inactive"] ELSE hook
      /\ UNCHANGED <<audits, activations>>
  BY DEF GoneDisable, historyVars
<1>3. \A b \in Attempt : b # a => att'[b] = att[b]
  BY <1>2 DEF TypeOK
<1>4. att'[a].pc = "goneSweep" /\ att'[a].flipped = flips /\ att'[a].d = att[a].d
  BY <1>1, <1>2 DEF TypeOK, Running
<1>5. \A w \in Webhook : /\ a \notin Auditing(w)
                         /\ a \in Auditing(w)' <=> (w = v /\ flips)
  BY <1>1, <1>4 DEF Auditing, HookOf
<1>6. \A w \in Webhook : Auditing(w)' = IF w = v /\ flips THEN Auditing(w) \cup {a}
                                        ELSE Auditing(w)
  BY <1>3, <1>5, OtherCalls DEF Auditing
<1>7. CASE ~flips
  <2>1. NobodyFlips
    BY <1>2, <1>6, <1>7 DEF NobodyFlips
  <2> QED BY <2>1, AuditKept
<1>8. CASE flips
  <2> SUFFICES ASSUME NEW w \in Webhook
               PROVE  audits[w] + Cardinality(Auditing(w)')
                        + (IF hook'[w] = "active" THEN 1 ELSE 0) <= activations[w]
    BY <1>2 DEF AuditInv
  <2>1. audits[w] + Cardinality(Auditing(w)) + (IF hook[w] = "active" THEN 1 ELSE 0)
          <= activations[w]
    BY DEF AuditInv
  <2>2. audits[w] \in Nat /\ activations[w] \in Nat
    BY DEF TypeOK
  <2>3. CASE w # v
    <3>1. hook'[w] = hook[w] /\ Auditing(w)' = Auditing(w)
      BY <1>2, <1>6, <2>3 DEF TypeOK
    <3> QED BY <2>1, <3>1
  <2>4. CASE w = v
    <3>1. IsFiniteSet(Auditing(w)) /\ Cardinality(Auditing(w)) \in Nat
      BY CallSets DEF Auditing
    <3>2. Cardinality(Auditing(w)') = Cardinality(Auditing(w)) + 1
      BY <1>5, <1>6, <1>8, <2>4, <3>1, FS_AddElement
    <3>3. hook[w] = "active" /\ hook'[w] = "inactive"
      BY <1>1, <1>2, <1>8, <2>4 DEF TypeOK
    <3> QED BY <2>1, <2>2, <3>1, <3>2, <3>3
  <2> QED BY <2>3, <2>4
<1> QED BY <1>7, <1>8

\* The row is written by a call that had to, which has then no other to write.
LEMMA AuditIsPaid ==
  ASSUME TypeOK, AuditInv, NEW a \in Attempt, GoneAudit(a)
  PROVE  AuditInv'
<1> DEFINE v == HookOf(a)
<1>1. att[a] \in Running /\ v \in Webhook /\ att[a].pc = "goneAudit"
  BY RunningCall DEF GoneAudit, At, Awaits, Running, HookOf
<1>2. /\ att' = [att EXCEPT ![a] = Idle]
      /\ audits' = [audits EXCEPT ![v] = @ + 1]
      /\ UNCHANGED <<hook, activations>>
  BY DEF GoneAudit, Finish, historyVars
<1>3. \A b \in Attempt : b # a => att'[b] = att[b]
  BY <1>2 DEF TypeOK
<1>4. att'[a].pc = "idle"
  BY <1>2 DEF TypeOK, Idle
<1>5. \A w \in Webhook : /\ a \in Auditing(w) <=> w = v
                         /\ a \notin Auditing(w)'
  BY <1>1, <1>4 DEF Auditing
<1>6. \A w \in Webhook : Auditing(w)' = Auditing(w) \ {a}
  BY <1>3, <1>5, OtherCalls DEF Auditing
<1> SUFFICES ASSUME NEW w \in Webhook
             PROVE  audits'[w] + Cardinality(Auditing(w)')
                      + (IF hook[w] = "active" THEN 1 ELSE 0) <= activations[w]
  BY <1>2 DEF AuditInv
<1>7. audits[w] + Cardinality(Auditing(w)) + (IF hook[w] = "active" THEN 1 ELSE 0)
        <= activations[w]
  BY DEF AuditInv
<1>8. audits[w] \in Nat /\ activations[w] \in Nat
  BY DEF TypeOK
<1>9. IsFiniteSet(Auditing(w)) /\ Cardinality(Auditing(w)) \in Nat
  BY CallSets DEF Auditing
<1>10. CASE w # v
  <2>1. audits'[w] = audits[w]
    BY <1>1, <1>2, <1>10 DEF TypeOK
  <2>2. Auditing(w)' = Auditing(w)
    BY <1>5, <1>6, <1>10
  <2> QED BY <1>7, <2>1, <2>2
<1>11. CASE w = v
  <2>1. audits'[w] = audits[w] + 1
    BY <1>1, <1>2, <1>11 DEF TypeOK
  <2>2. Cardinality(Auditing(w)') = Cardinality(Auditing(w)) - 1
    BY <1>5, <1>6, <1>9, <1>11, FS_RemoveElement
  <2> QED BY <1>7, <1>8, <1>9, <2>1, <2>2
<1> QED BY <1>10, <1>11

\* The steps of a running call.
LEMMA AuditAdvance ==
  ASSUME TypeOK, AuditInv, NEW a \in Attempt, Advance(a) \/ Throw(a)
  PROVE  AuditInv'
<1> USE DEF At, dbVars, historyVars, budgetVars
<1>1. att[a].pc \in Awaits
  BY DEF Advance, UrlChecked, Answered, ReadWebhook, FailInactive, Defer,
     Claim, SendPost, RefuseTarget, FailUnsafe, AnswerOk, MarkDelivered,
     AnswerFailure, FailExhausted, ScheduleRetry, AnswerGone, GoneFailOwn,
     GoneDisable, GoneSweep, GoneAudit, Throw, Awaits
<1>2. CASE GoneDisable(a)
  BY <1>2, DisableFlipsOnce
<1>3. CASE GoneAudit(a)
  BY <1>3, AuditIsPaid
<1>4. CASE GoneSweep(a)
  <2>1. att[a] \in Running /\ att[a].pc = "goneSweep"
    BY <1>1, <1>4, RunningCall DEF GoneSweep
  <2>2. UNCHANGED <<hook, audits, activations>>
    BY <1>4 DEF GoneSweep
  <2>3. CASE ~att[a].flipped
    <3>1. Finish(a)
      BY <1>4, <2>3 DEF GoneSweep
    <3>2. \A w \in Webhook : Auditing(w)' \subseteq Auditing(w)
      BY <1>1, <3>1, CallDoesNotFlip DEF Awaits
    <3>3. NobodyFlips
      BY <2>2, <3>2 DEF NobodyFlips
    <3> QED BY <3>3, AuditKept
  <2>4. CASE att[a].flipped
    <3>1. att' = [att EXCEPT ![a].pc = "goneAudit"]
      BY <1>4, <2>4 DEF GoneSweep, Goto
    <3>2. \A b \in Attempt : b # a => att'[b] = att[b]
      BY <3>1 DEF TypeOK
    <3>3. att'[a].d = att[a].d
      BY <2>1, <3>1 DEF TypeOK, Running
    <3>4. \A w \in Webhook : a \in Auditing(w)' => a \in Auditing(w)
      BY <2>1, <2>4, <3>3 DEF Auditing, HookOf
    <3>5. NobodyFlips
      BY <2>2, <3>2, <3>4, OtherCalls DEF NobodyFlips, Auditing
    <3> QED BY <3>5, AuditKept
  <2> QED BY <2>3, <2>4
<1>5. CASE ~(GoneDisable(a) \/ GoneAudit(a) \/ GoneSweep(a))
  <2>1. UNCHANGED <<hook, audits, activations>>
    BY <1>5 DEF Advance, UrlChecked, Answered, ReadWebhook, FailInactive, Defer,
       Claim, SendPost, RefuseTarget, FailUnsafe, AnswerOk, MarkDelivered,
       AnswerFailure, FailExhausted, ScheduleRetry, AnswerGone, GoneFailOwn, Throw
  <2>2. \E await \in Awaits \ {"goneSweep", "goneAudit"} : Finish(a) \/ Goto(a, await)
    BY <1>5 DEF Advance, UrlChecked, Answered, ReadWebhook, FailInactive, Defer,
       Claim, SendPost, RefuseTarget, FailUnsafe, AnswerOk, MarkDelivered,
       AnswerFailure, FailExhausted, ScheduleRetry, AnswerGone, GoneFailOwn, Throw,
       Awaits
  <2>3. \A w \in Webhook : Auditing(w)' \subseteq Auditing(w)
    BY <1>1, <2>2, CallDoesNotFlip
  <2>4. NobodyFlips
    BY <2>1, <2>3 DEF NobodyFlips
  <2> QED BY <2>4, AuditKept
<1> QED BY <1>2, <1>3, <1>4, <1>5

\* The administrator: an activation is counted when it happens.
LEMMA AuditAdmin ==
  ASSUME TypeOK, AuditInv, NEW v \in Webhook, NEW active \in BOOLEAN,
         CreateWebhook(v, active) \/ SetActive(v, active)
  PROVE  AuditInv'
<1>1. /\ hook' = [hook EXCEPT ![v] = IF active THEN "active" ELSE "inactive"]
      /\ activations' = IF active THEN [activations EXCEPT ![v] = @ + 1] ELSE activations
      /\ UNCHANGED <<audits, att>>
  BY DEF CreateWebhook, SetActive
<1> SUFFICES ASSUME NEW w \in Webhook
             PROVE  audits[w] + Cardinality(Auditing(w))
                      + (IF hook'[w] = "active" THEN 1 ELSE 0) <= activations'[w]
  BY <1>1 DEF AuditInv, Auditing, HookOf
<1>2. audits[w] + Cardinality(Auditing(w)) + (IF hook[w] = "active" THEN 1 ELSE 0)
        <= activations[w]
  BY DEF AuditInv
<1>3. audits[w] \in Nat /\ activations[w] \in Nat /\ Cardinality(Auditing(w)) \in Nat
  BY CallSets DEF TypeOK, Auditing
<1>4. CASE w = v /\ active
  <2>1. hook'[w] = "active" /\ activations'[w] = activations[w] + 1
    BY <1>1, <1>4 DEF TypeOK
  <2> QED BY <1>2, <1>3, <2>1
<1>5. CASE ~(w = v /\ active)
  <2>1. activations'[w] = activations[w] /\ (hook'[w] = "active" => hook[w] = "active")
    BY <1>1, <1>5 DEF TypeOK
  <2> QED BY <1>2, <1>3, <2>1
<1> QED BY <1>4, <1>5

LEMMA AuditNext == TypeOK /\ AuditInv /\ [Next]_vars => AuditInv'
<1> SUFFICES ASSUME TypeOK, AuditInv, [Next]_vars
             PROVE  AuditInv'
  OBVIOUS
<1> USE DEF dbVars, historyVars, budgetVars
<1>1. CASE \E a \in Attempt : Advance(a) \/ Throw(a)
  BY <1>1, AuditAdvance
<1>2. CASE \E v \in Webhook, active \in BOOLEAN : CreateWebhook(v, active) \/ SetActive(v, active)
  BY <1>2, AuditAdmin
<1>3. ASSUME NEW p \in Proc, NEW d \in Delivery, NEW a \in Attempt, ReadDelivery(a, p, d)
      PROVE  AuditInv'
  <2>1. UNCHANGED <<hook, audits, activations>>
    BY <1>3 DEF ReadDelivery
  <2>2. \A b \in Attempt : b # a => att'[b] = att[b]
    BY <1>3 DEF ReadDelivery, TypeOK
  <2>3. att'[a] = att[a] \/ att'[a].pc = "hook"
    BY <1>3 DEF ReadDelivery, TypeOK
  <2>4. att[a].pc = "idle"
    BY <1>3 DEF ReadDelivery, Idle
  <2>5. \A w \in Webhook : a \notin Auditing(w)'
    BY <2>3, <2>4 DEF Auditing
  <2>6. NobodyFlips
    BY <2>1, <2>2, <2>5, OtherCalls DEF NobodyFlips, Auditing
  <2> QED BY <2>6, AuditKept
<1>4. ASSUME NEW p \in Proc, Crash(p)
      PROVE  AuditInv'
  <2>1. UNCHANGED <<hook, audits, activations>>
    BY <1>4 DEF Crash
  <2>2. \A b \in Attempt : att'[b] = att[b] \/ att'[b].pc = "idle"
    BY <1>4 DEF Crash, Idle
  <2>3. \A w \in Webhook : Auditing(w)' \subseteq Auditing(w)
    BY <2>2 DEF Auditing, HookOf
  <2>4. NobodyFlips
    BY <2>1, <2>3 DEF NobodyFlips
  <2> QED BY <2>4, AuditKept
<1>5. ASSUME NEW v \in Webhook, DeleteWebhook(v)
      PROVE  AuditInv'
  <2>1. UNCHANGED <<att, audits, activations>> /\ hook' = [hook EXCEPT ![v] = "deleted"]
    BY <1>5 DEF DeleteWebhook
  <2>2. NobodyFlips
    BY <2>1 DEF NobodyFlips, Auditing, HookOf, TypeOK
  <2> QED BY <2>2, AuditKept
<1>6. CASE \/ \E p \in Proc, d \in Delivery : ListActiveWebhooks(p, d) \/ EnqueueDelivery(p, d)
           \/ \E p \in Proc : FlushDueRetries(p)
           \/ \E d \in Delivery : RetryTimePasses(d)
           \/ \E p \in Proc, w \in Webhook : ResetTimePasses(p, w) \/ ResetBreaker(p, w)
           \/ UNCHANGED vars
  <2>1. UNCHANGED <<att, hook, audits, activations>>
    BY <1>6 DEF ListActiveWebhooks, EnqueueDelivery, FlushDueRetries, RetryTimePasses,
       ResetTimePasses, ResetBreaker, vars
  <2>2. NobodyFlips
    BY <2>1 DEF NobodyFlips, Auditing, HookOf
  <2> QED BY <2>2, AuditKept
<1> QED
  BY <1>1, <1>2, <1>3, <1>4, <1>5, <1>6 DEF Next, System, Environment

\* However many POSTs are answered 410 at the same time, by whatever replicas,
\* an activation is followed by one audit row of its end at most.
THEOREM AuditedOnce == Spec => []AuditedOncePerActivation
<1>1. Init => AuditInv
  <2> SUFFICES ASSUME Init PROVE AuditInv
    OBVIOUS
  <2>1. \A w \in Webhook : Auditing(w) = {}
    BY DEF Init, Auditing, Idle
  <2>2. \A w \in Webhook : Cardinality(Auditing(w)) = 0
    BY <2>1, FS_EmptySet
  <2>3. \A w \in Webhook : /\ audits[w] = 0 /\ activations[w] = 0
                           /\ hook[w] = "none"
    BY DEF Init
  <2> QED BY <2>2, <2>3 DEF AuditInv
<1>2. TypeOK /\ AuditInv => AuditedOncePerActivation
  <2> SUFFICES ASSUME TypeOK, AuditInv, NEW w \in Webhook
               PROVE  audits[w] <= activations[w]
    BY DEF AuditedOncePerActivation
  <2>1. audits[w] \in Nat /\ activations[w] \in Nat /\ Cardinality(Auditing(w)) \in Nat
    BY CallSets DEF TypeOK, Auditing
  <2> QED BY <2>1 DEF AuditInv
<1> QED BY <1>1, <1>2, TypeInit, TypeNext, AuditNext, PTL DEF Spec
=============================================================================
