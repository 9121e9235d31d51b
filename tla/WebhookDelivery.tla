-------------------------- MODULE WebhookDelivery --------------------------
(***************************************************************************)
(* Webhook delivery: src/src/lib/webhooks/service.ts over the tables       *)
(* `webhooks' and `webhook_deliveries', run by several replicas, with the  *)
(* in-memory breaker of circuit-breaker.ts in each of them.                *)
(*                                                                         *)
(* Every call of attemptDelivery that has run its first SELECT occupies an *)
(* Attempt, whose `pc' is the await it has reached.  One step is one       *)
(* database statement (or one answer to a POST) together with the          *)
(* synchronous code that runs before the next await, which on one event    *)
(* loop nothing can interrupt.  A call that is due to run -- the fire-and- *)
(* forget call of enqueueDelivery, an armed retry timer, a slice of a      *)
(* reaper pass -- is a member of `scheduled' until then; calls of one      *)
(* process for one delivery that have not started yet count as one.        *)
(*                                                                         *)
(* Time is the two comparisons the code makes: a row's nextRetryAt is      *)
(* "null", in the "future" or "due", and a breaker's reset timeout has or  *)
(* has not elapsed.  A timer may fire at any moment after it was armed.    *)
(***************************************************************************)
EXTENDS CircuitBreaker, FiniteSets

CONSTANTS
  Proc,              \* replicas of the control plane
  Webhook,
  Delivery,          \* delivery ids that may be created
  Target,            \* [Delivery -> Webhook]: webhook_deliveries.webhook_id
  Attempt,           \* bounds the calls of attemptDelivery running at once
  MaxAttempts,       \* config.webhookRetryAttempts
  FlushBatchLimit,   \* FLUSH_BATCH_LIMIT
  MaxTickets,        \* bounds the claims of one delivery
  MaxFaults,         \* bounds the refusals, errors and crashes of a behaviour
  MaxAdminOps        \* bounds the administrator's requests of a behaviour

ASSUME DeliveryAssumption ==
  /\ Target \in [Delivery -> Webhook]
  /\ MaxAttempts \in Nat \ {0}
  /\ FlushBatchLimit \in Nat \ {0}
  /\ MaxTickets \in Nat
  /\ MaxFaults \in Nat
  /\ MaxAdminOps \in Nat

\* What counts running calls needs only finitely many of them.
ASSUME CallAssumption == IsFiniteSet(Attempt)

VARIABLES
  hook,        \* webhooks: "none", "active", "inactive" or "deleted"
  row,         \* webhook_deliveries
  listed,      \* <<p, d>>: p has read an active-webhook list that contains
               \* Target[d], and has not yet inserted the row
  scheduled,   \* <<p, d>>: a call of attemptDelivery(d) is due to run in p
  att,         \* the running calls of attemptDelivery
  breaker,     \* webhookBreaker of each process
  faults,      \* faults the environment may still produce
  adminOps,    \* requests the administrator may still make
  posted,      \* history: the attempt numbers POSTed for each delivery
  acked,       \* history: deliveries some POST of which was answered 2xx
  activations, \* history: times the administrator made the webhook active
  audits       \* admin_audit_log: its `webhook.unsubscribed' rows

dbVars      == <<hook, row, audits>>
historyVars == <<posted, acked, activations>>
budgetVars  == <<faults, adminOps>>
vars == <<hook, row, listed, scheduled, att, breaker, faults, adminOps,
          posted, acked, activations, audits>>

-----------------------------------------------------------------------------

RowState == [status   : {"none", "pending", "delivered", "failed", "gone"},
             attempts : Nat,
             retryAt  : {"null", "future", "due"}]

NoRow      == [status |-> "none", attempts |-> 0, retryAt |-> "null"]
DeletedRow == [status |-> "gone", attempts |-> 0, retryAt |-> "null"]
NewRow     == [status |-> "pending", attempts |-> 0, retryAt |-> "null"]

\* The awaits a running call can be at.
Awaits == {"hook", "inactive", "defer", "claim", "check", "unsafe", "post",
           "ok", "goneOwn", "goneDisable", "goneSweep", "goneAudit",
           "exhausted", "backoff"}

Idle    == [pc |-> "idle"]
Running == [pc : Awaits, proc : Proc, d : Delivery, prev : Nat,
            flipped : BOOLEAN]

\* Inserted and not deleted with its webhook (ON DELETE CASCADE).
Exists(d) == row[d].status \in {"pending", "delivered", "failed"}

\* UPDATE webhook_deliveries SET ... WHERE id = d: no effect on a lost row.
UpdateRow(d, new) == row' = [row EXCEPT ![d] = IF Exists(d) THEN new ELSE @]

At(a, await)   == att[a].pc = await
Goto(a, await) == att' = [att EXCEPT ![a].pc = await]
Finish(a)      == att' = [att EXCEPT ![a] = Idle]

\* The number under which the running call has claimed its delivery.
Ticket(a) == att[a].prev + 1

HookOf(a)    == Target[att[a].d]
BreakerOf(a) == breaker[att[a].proc][HookOf(a)]
SetBreaker(a, entry) ==
  breaker' = [breaker EXCEPT ![att[a].proc][HookOf(a)] = entry]

SpendFault == faults > 0 /\ faults' = faults - 1
SpendAdmin == adminOps > 0 /\ adminOps' = adminOps - 1

Init ==
  /\ hook = [w \in Webhook |-> "none"]
  /\ row = [d \in Delivery |-> NoRow]
  /\ listed = {}
  /\ scheduled = {}
  /\ att = [a \in Attempt |-> Idle]
  /\ breaker = [p \in Proc |-> [w \in Webhook |-> FreshEntry]]
  /\ faults = MaxFaults
  /\ adminOps = MaxAdminOps
  /\ posted = [d \in Delivery |-> {}]
  /\ acked = {}
  /\ activations = [w \in Webhook |-> 0]
  /\ audits = [w \in Webhook |-> 0]

-----------------------------------------------------------------------------
(* Dispatch: from an event to a scheduled first attempt.                   *)

\* dispatchWebhooks, or the listActiveWebhooks of the ingest route: the list
\* of active webhooks is read once and used later.
ListActiveWebhooks(p, d) ==
  /\ row[d] = NoRow
  /\ \A q \in Proc : <<q, d>> \notin listed
  /\ hook[Target[d]] = "active"
  /\ listed' = listed \cup {<<p, d>>}
  /\ UNCHANGED <<dbVars, scheduled, att, breaker, budgetVars, historyVars>>

\* enqueueDelivery.  The webhook may have been disabled since it was listed,
\* and the row is inserted all the same; if it was deleted, the foreign key
\* makes the INSERT fail and the caller logs the error.
EnqueueDelivery(p, d) ==
  /\ <<p, d>> \in listed
  /\ listed' = listed \ {<<p, d>>}
  /\ IF hook[Target[d]] = "deleted"
     THEN /\ row' = [row EXCEPT ![d] = DeletedRow]
          /\ UNCHANGED scheduled
     ELSE /\ row' = [row EXCEPT ![d] = NewRow]
          /\ scheduled' = scheduled \cup {<<p, d>>}
  /\ UNCHANGED <<hook, audits, att, breaker, budgetVars, historyVars>>

\* For the mutation runs: a row whose first attempt never ran is not due.
DueOnlyTimed == {d \in Delivery : /\ row[d].status = "pending"
                                  /\ row[d].retryAt = "due"}

\* flushDueRetries: the boot pass or a tick of the reaper.
Due == {d \in Delivery : /\ row[d].status = "pending"
                         /\ row[d].retryAt \in {"null", "due"}}

FlushDueRetries(p) ==
  /\ \E batch \in SUBSET Due :
       /\ Cardinality(batch) <= FlushBatchLimit
       /\ batch # Due => Cardinality(batch) = FlushBatchLimit
       /\ scheduled' = scheduled \cup ({p} \X batch)
  /\ UNCHANGED <<dbVars, listed, att, breaker, budgetVars, historyVars>>

-----------------------------------------------------------------------------
(* attemptDelivery.                                                        *)

\* The first SELECT.  A failed row does not make the call return.
ReadDelivery(a, p, d) ==
  /\ att[a] = Idle
  /\ <<p, d>> \in scheduled
  /\ scheduled' = scheduled \ {<<p, d>>}
  /\ att' = IF row[d].status \in {"pending", "failed"}
            THEN [att EXCEPT ![a] = [pc |-> "hook", proc |-> p, d |-> d,
                                     prev |-> row[d].attempts,
                                     flipped |-> FALSE]]
            ELSE att
  /\ UNCHANGED <<dbVars, listed, breaker, budgetVars, historyVars>>

\* The second SELECT, and shouldAttempt in the same turn of the event loop.
ReadWebhook(a) ==
  /\ At(a, "hook")
  /\ IF hook[HookOf(a)] # "active"
     THEN Goto(a, "inactive") /\ UNCHANGED breaker
     ELSE /\ SetBreaker(a, AfterShouldAttempt(BreakerOf(a)))
          /\ Goto(a, IF MayAttempt(BreakerOf(a))
                     THEN "claim" ELSE "defer")
  /\ UNCHANGED <<dbVars, listed, scheduled, budgetVars, historyVars>>

\* For the mutation runs: an early return without the UPDATE.
SkipInactive(a) ==
  /\ At(a, "inactive")
  /\ Finish(a)
  /\ UNCHANGED <<dbVars, listed, scheduled, breaker, budgetVars, historyVars>>

\* "webhook missing or inactive": nextRetryAt keeps its value.
FailInactive(a) ==
  /\ At(a, "inactive")
  /\ UpdateRow(att[a].d, [row[att[a].d] EXCEPT !.status = "failed"])
  /\ Finish(a)
  /\ UNCHANGED <<hook, audits, listed, scheduled, breaker, budgetVars,
                 historyVars>>

\* "circuit breaker open": whatever the row has become, it is pending again.
Defer(a) ==
  /\ At(a, "defer")
  /\ UpdateRow(att[a].d, [row[att[a].d] EXCEPT !.status = "pending",
                                               !.retryAt = "future"])
  /\ Finish(a)
  /\ UNCHANGED <<hook, audits, listed, scheduled, breaker, budgetVars,
                 historyVars>>

\* For the mutation runs: the claim forgets to compare `attempts'.
ClaimableIfPending(a) == row[att[a].d].status = "pending"

\* The WHERE clause of the optimistic claim.
Claimable(a) == /\ row[att[a].d].status = "pending"
                /\ row[att[a].d].attempts = att[a].prev

\* A call that loses the claim returns; the breaker is not told.
Claim(a) ==
  /\ At(a, "claim")
  /\ att[a].prev < MaxTickets
  /\ IF Claimable(a)
     THEN /\ row' = [row EXCEPT ![att[a].d].attempts = Ticket(a)]
          /\ Goto(a, "check")
     ELSE Finish(a) /\ UNCHANGED row
  /\ UNCHANGED <<hook, audits, listed, scheduled, breaker, budgetVars,
                 historyVars>>

\* assertSafeWebhookUrl accepts the target and the POST is sent.
SendPost(a) ==
  /\ At(a, "check")
  /\ Goto(a, "post")
  /\ posted' = [posted EXCEPT ![att[a].d] = @ \cup {Ticket(a)}]
  /\ UNCHANGED <<dbVars, listed, scheduled, breaker, budgetVars, acked,
                 activations>>

\* UnsafeWebhookUrlError, which includes a host name that does not resolve.
RefuseTarget(a) ==
  /\ At(a, "check")
  /\ SpendFault
  /\ Goto(a, "unsafe")
  /\ UNCHANGED <<dbVars, listed, scheduled, breaker, adminOps, historyVars>>

\* A terminal UPDATE that also clears nextRetryAt.
MarkFailed(a) ==
  UpdateRow(att[a].d, [row[att[a].d] EXCEPT !.status = "failed",
                                            !.retryAt = "null"])

FailUnsafe(a) ==
  /\ At(a, "unsafe")
  /\ MarkFailed(a)
  /\ Finish(a)
  /\ UNCHANGED <<hook, audits, listed, scheduled, breaker, budgetVars,
                 historyVars>>

-----------------------------------------------------------------------------
(* The answer to the POST, and what follows it.                            *)

AnswerOk(a) ==
  /\ At(a, "post")
  /\ acked' = acked \cup {att[a].d}
  /\ SetBreaker(a, AfterSuccess(BreakerOf(a)))
  /\ Goto(a, "ok")
  /\ UNCHANGED <<dbVars, listed, scheduled, budgetVars, posted, activations>>

MarkDelivered(a) ==
  /\ At(a, "ok")
  /\ UpdateRow(att[a].d, [row[att[a].d] EXCEPT !.status = "delivered",
                                               !.retryAt = "null"])
  /\ Finish(a)
  /\ UNCHANGED <<hook, audits, listed, scheduled, breaker, budgetVars,
                 historyVars>>

\* For the mutation runs: any answer that arrives counts as a success.
AnswerUnchecked(a) ==
  /\ At(a, "post")
  /\ SpendFault
  /\ SetBreaker(a, AfterSuccess(BreakerOf(a)))
  /\ Goto(a, "ok")
  /\ UNCHANGED <<dbVars, listed, scheduled, adminOps, historyVars>>

\* Any other answer, a network error or the 10 s timeout.
AnswerFailure(a) ==
  /\ At(a, "post")
  /\ SpendFault
  /\ SetBreaker(a, AfterFailure(BreakerOf(a)))
  /\ Goto(a, IF Ticket(a) >= MaxAttempts THEN "exhausted" ELSE "backoff")
  /\ UNCHANGED <<dbVars, listed, scheduled, adminOps, historyVars>>

FailExhausted(a) ==
  /\ At(a, "exhausted")
  /\ MarkFailed(a)
  /\ Finish(a)
  /\ UNCHANGED <<hook, audits, listed, scheduled, breaker, budgetVars,
                 historyVars>>

\* nextRetryAt is stored for the reaper and a timer is armed in this process.
ScheduleRetry(a) ==
  /\ At(a, "backoff")
  /\ UpdateRow(att[a].d, [row[att[a].d] EXCEPT !.status = "pending",
                                               !.retryAt = "future"])
  /\ scheduled' = scheduled \cup {<<att[a].proc, att[a].d>>}
  /\ Finish(a)
  /\ UNCHANGED <<hook, audits, listed, breaker, budgetVars, historyVars>>

\* 410 Gone: the receiver unsubscribes.  Four statements follow.
AnswerGone(a) ==
  /\ At(a, "post")
  /\ SpendFault
  /\ SetBreaker(a, FreshEntry)
  /\ Goto(a, "goneOwn")
  /\ UNCHANGED <<dbVars, listed, scheduled, adminOps, historyVars>>

GoneFailOwn(a) ==
  /\ At(a, "goneOwn")
  /\ MarkFailed(a)
  /\ Goto(a, "goneDisable")
  /\ UNCHANGED <<hook, audits, listed, scheduled, breaker, budgetVars,
                 historyVars>>

\* For the mutation runs: the UPDATE does not ask for active = true.
GoneDisableAgain(a) ==
  /\ At(a, "goneDisable")
  /\ hook' = IF hook[HookOf(a)] = "deleted" THEN hook
             ELSE [hook EXCEPT ![HookOf(a)] = "inactive"]
  /\ att' = [att EXCEPT ![a] = [@ EXCEPT !.pc = "goneSweep",
                                         !.flipped = hook[HookOf(a)] # "deleted"]]
  /\ UNCHANGED <<row, audits, listed, scheduled, breaker, budgetVars,
                 historyVars>>

GoneDisable(a) ==
  /\ At(a, "goneDisable")
  /\ LET flips == hook[HookOf(a)] = "active"
     IN  /\ hook' = IF flips THEN [hook EXCEPT ![HookOf(a)] = "inactive"]
                    ELSE hook
         /\ att' = [att EXCEPT ![a] = [@ EXCEPT !.pc = "goneSweep",
                                                !.flipped = flips]]
  /\ UNCHANGED <<row, audits, listed, scheduled, breaker, budgetVars,
                 historyVars>>

\* Every pending row of the webhook fails, those being POSTed included.
GoneSweep(a) ==
  /\ At(a, "goneSweep")
  /\ row' = [d \in Delivery |->
               IF Target[d] = HookOf(a) /\ row[d].status = "pending"
               THEN [row[d] EXCEPT !.status = "failed", !.retryAt = "null"]
               ELSE row[d]]
  /\ IF att[a].flipped THEN Goto(a, "goneAudit") ELSE Finish(a)
  /\ UNCHANGED <<hook, audits, listed, scheduled, breaker, budgetVars,
                 historyVars>>

GoneAudit(a) ==
  /\ At(a, "goneAudit")
  /\ audits' = [audits EXCEPT ![HookOf(a)] = @ + 1]
  /\ Finish(a)
  /\ UNCHANGED <<hook, row, listed, scheduled, breaker, budgetVars,
                 historyVars>>

-----------------------------------------------------------------------------
(* What fails.                                                             *)

\* A database statement (or the URL guard) throws: the promise rejects and
\* the caller logs it.  Nothing already done is undone, and the breaker is
\* not told.
Throw(a) ==
  /\ att[a].pc \in Awaits \ {"post"}
  /\ SpendFault
  /\ Finish(a)
  /\ UNCHANGED <<dbVars, listed, scheduled, breaker, adminOps, historyVars>>

\* The process dies and restarts: timers, running calls, breakers and lists
\* in memory are gone.
Crash(p) ==
  /\ SpendFault
  /\ listed' = {l \in listed : l[1] # p}
  /\ scheduled' = {s \in scheduled : s[1] # p}
  /\ att' = [a \in Attempt |->
               IF att[a] # Idle /\ att[a].proc = p THEN Idle ELSE att[a]]
  /\ breaker' = [breaker EXCEPT
                   ![p] = [w \in Webhook |-> FreshEntry]]
  /\ UNCHANGED <<dbVars, adminOps, historyVars>>

-----------------------------------------------------------------------------
(* Time and the administrator.                                             *)

RetryTimePasses(d) ==
  /\ row[d].retryAt = "future"
  /\ row' = [row EXCEPT ![d].retryAt = "due"]
  /\ UNCHANGED <<hook, audits, listed, scheduled, att, breaker, budgetVars,
                 historyVars>>

ResetTimePasses(p, w) ==
  /\ breaker[p][w].openedAt = "recent"
  /\ breaker' = [breaker EXCEPT
                   ![p][w] = AfterResetTimeout(breaker[p][w])]
  /\ UNCHANGED <<dbVars, listed, scheduled, att, budgetVars, historyVars>>

\* POST /api/webhooks (createWebhook): `active' defaults to true and may be false.
\* The audit row of this and of the next two is of another action.
CreateWebhook(w, active) ==
  /\ hook[w] = "none"
  /\ hook' = [hook EXCEPT ![w] = IF active THEN "active" ELSE "inactive"]
  /\ activations' = IF active THEN [activations EXCEPT ![w] = @ + 1]
                    ELSE activations
  /\ UNCHANGED <<row, audits, listed, scheduled, att, breaker, budgetVars,
                 posted, acked>>

\* PATCH (updateWebhook) with `active': the UPDATE ignores the old value.
SetActive(w, active) ==
  /\ hook[w] \in {"active", "inactive"}
  /\ SpendAdmin
  /\ hook' = [hook EXCEPT ![w] = IF active THEN "active" ELSE "inactive"]
  /\ activations' = IF active THEN [activations EXCEPT ![w] = @ + 1]
                    ELSE activations
  /\ UNCHANGED <<row, audits, listed, scheduled, att, breaker, faults,
                 posted, acked>>

\* DELETE (deleteWebhook): the foreign key cascades to the deliveries.
DeleteWebhook(w) ==
  /\ hook[w] \in {"active", "inactive"}
  /\ SpendAdmin
  /\ hook' = [hook EXCEPT ![w] = "deleted"]
  /\ row' = [d \in Delivery |-> IF Target[d] = w /\ Exists(d)
                                THEN DeletedRow ELSE row[d]]
  /\ UNCHANGED <<audits, listed, scheduled, att, breaker, faults,
                 historyVars>>

\* POST /api/webhooks/:id/circuit-breaker/reset, in the replica it reaches.
ResetBreaker(p, w) ==
  /\ SpendAdmin
  /\ breaker' = [breaker EXCEPT ![p][w] = FreshEntry]
  /\ UNCHANGED <<dbVars, listed, scheduled, att, faults, historyVars>>

-----------------------------------------------------------------------------

\* The answer to a POST, and the verdict of the URL guard, are choices of the
\* environment; which of them happens is not the process's to decide.
UrlChecked(a) == SendPost(a) \/ RefuseTarget(a)
Answered(a)   == AnswerOk(a) \/ AnswerFailure(a) \/ AnswerGone(a)

Advance(a) ==
  \/ ReadWebhook(a) \/ FailInactive(a) \/ Defer(a) \/ Claim(a)
  \/ UrlChecked(a) \/ FailUnsafe(a)
  \/ Answered(a) \/ MarkDelivered(a) \/ FailExhausted(a) \/ ScheduleRetry(a)
  \/ GoneFailOwn(a) \/ GoneDisable(a) \/ GoneSweep(a) \/ GoneAudit(a)

System ==
  \/ \E p \in Proc, d \in Delivery : \/ ListActiveWebhooks(p, d)
                                     \/ EnqueueDelivery(p, d)
                                     \/ \E a \in Attempt : ReadDelivery(a, p, d)
  \/ \E p \in Proc : FlushDueRetries(p)
  \/ \E a \in Attempt : Advance(a)

Environment ==
  \/ \E a \in Attempt : Throw(a)
  \/ \E p \in Proc : Crash(p)
  \/ \E d \in Delivery : RetryTimePasses(d)
  \/ \E p \in Proc, w \in Webhook : ResetTimePasses(p, w) \/ ResetBreaker(p, w)
  \/ \E w \in Webhook, active \in BOOLEAN : \/ CreateWebhook(w, active)
                                            \/ SetActive(w, active)
  \/ \E w \in Webhook : DeleteWebhook(w)

Next == System \/ Environment

Spec == Init /\ [][Next]_vars

\* Every await of a running call is answered, a scheduled call starts (strong
\* fairness, because calls share the bounded set of Attempts, which the code
\* does not), the reaper of every process ticks, and time passes.  Nothing is
\* assumed of faults, of the administrator or of new events.
Fairness ==
  /\ \A a \in Attempt : WF_vars(Advance(a))
  /\ \A p \in Proc, d \in Delivery :
       SF_vars(\E a \in Attempt : ReadDelivery(a, p, d))
  /\ \A p \in Proc : WF_vars(FlushDueRetries(p))
  /\ \A d \in Delivery : WF_vars(RetryTimePasses(d))
  /\ \A p \in Proc, w \in Webhook : WF_vars(ResetTimePasses(p, w))

FairSpec == Spec /\ Fairness

-----------------------------------------------------------------------------
(* Properties.                                                             *)

\* Every variable has its type; in particular a running call works on a
\* delivery of the pool and its breaker entry is one of circuit-breaker.ts.
TypeOK ==
  /\ hook \in [Webhook -> {"none", "active", "inactive", "deleted"}]
  /\ row \in [Delivery -> RowState]
  /\ listed \subseteq Proc \X Delivery
  /\ scheduled \subseteq Proc \X Delivery
  /\ att \in [Attempt -> Running \cup {Idle}]
  /\ breaker \in [Proc -> [Webhook -> Entry]]
  /\ faults \in Nat
  /\ adminOps \in Nat
  /\ posted \in [Delivery -> SUBSET Nat]
  /\ acked \subseteq Delivery
  /\ activations \in [Webhook -> Nat]
  /\ audits \in [Webhook -> Nat]

\* The awaits at which a call holds a claim, and those before its POST.
Claimed == Awaits \ {"hook", "inactive", "defer", "claim"}
Unsent  == {"check"}
Holds(a, d) == att[a] # Idle /\ att[a].pc \in Claimed /\ att[a].d = d

\* The optimistic claim works as a ticket machine: however many replicas,
\* timers and reaper passes attempt one delivery at once, no two of them ever
\* POST it under the same attempt number, and `attempts' counts every POST.
TicketsAreUnique ==
  \A d \in Delivery : Exists(d) =>
    /\ \A n \in posted[d] : n <= row[d].attempts
    /\ \A a \in Attempt : Holds(a, d) =>
         /\ Ticket(a) <= row[d].attempts
         /\ att[a].pc \in Unsent => Ticket(a) \notin posted[d]
         /\ \A b \in Attempt : Holds(b, d) /\ Ticket(b) = Ticket(a) => b = a

\* A delivery is shown as delivered only if the receiver answered some POST
\* of it with a 2xx, whatever overtook that answer.
DeliveredWasAcked ==
  \A d \in Delivery : row[d].status = "delivered" => d \in acked

\* The breaker of every webhook in every process is consistent although calls
\* that were let through in one state report their outcome in another.
BreakersConsistent ==
  \A p \in Proc, w \in Webhook : Consistent(breaker[p][w])

\* "Only the attempt that flipped `active` audits": between two activations by
\* the administrator at most one `webhook.unsubscribed' row is written,
\* however many POSTs are answered 410 at the same time.
AuditedOncePerActivation ==
  \A w \in Webhook : audits[w] <= activations[w]

\* A pending row does not stay pending: it is delivered, failed or deleted
\* with its webhook, even if the process that inserted it dies.
Settles ==
  \A d \in Delivery :
    row[d].status = "pending" ~> row[d].status \in {"delivered", "failed",
                                                    "gone"}

\* Once a webhook is out of service for good, its rows stop being pending for
\* good, including the rows inserted from a list read before.
DisabledHookDrains ==
  \A w \in Webhook :
    <>[](hook[w] # "active") =>
      <>[](\A d \in Delivery : Target[d] = w => row[d].status # "pending")

-----------------------------------------------------------------------------
(* What the repository says and the code does not do, refuted by a run of   *)
(* its own.                                                                *)

\* circuit-breaker.ts: probeInFlight "is set when a probe is claimed and
\* cleared on its outcome".  So while it is set, a call of that process is
\* between shouldAttempt and its outcome.
ProbeIsHeld ==
  \A p \in Proc, w \in Webhook :
    breaker[p][w].probe =>
      \E a \in Attempt : /\ att[a] # Idle
                         /\ att[a].pc \in {"claim", "check", "post"}
                         /\ att[a].proc = p
                         /\ HookOf(a) = w
=============================================================================
