--------------------------- MODULE CircuitBreaker ---------------------------
(***************************************************************************)
(* The per-webhook circuit breaker of src/src/lib/webhooks/                *)
(* circuit-breaker.ts: what each method of WebhookCircuitBreaker does to   *)
(* one BreakerEntry.  The map from webhooks to entries, and the callers,   *)
(* belong to WebhookDelivery.                                              *)
(*                                                                         *)
(* Two abstractions.  `openedAt' is not a time but what shouldAttempt asks *)
(* of it: "never" (null), "recent" (resetTimeoutMs has not passed) or      *)
(* "elapsed".  `failures' stops counting at FailureThreshold: the code     *)
(* compares it with the threshold only while closed, and every way back to *)
(* closed sets it to zero, so higher counts cannot be told apart.          *)
(***************************************************************************)
EXTENDS Naturals

CONSTANTS
  FailureThreshold,   \* WEBHOOK_BREAKER_FAILURE_THRESHOLD (default 5)
  SuccessThreshold    \* successThresholdToClose (1 in every process)

ASSUME BreakerAssumption ==
  /\ FailureThreshold \in Nat \ {0}
  /\ SuccessThreshold \in Nat \ {0}

Entry == [state     : {"closed", "open", "half_open"},
          failures  : 0..FailureThreshold,
          successes : 0..SuccessThreshold,
          openedAt  : {"never", "recent", "elapsed"},
          probe     : BOOLEAN]

\* The entry a first use creates, and the one `reset' stores.
FreshEntry == [state |-> "closed", failures |-> 0, successes |-> 0,
               openedAt |-> "never", probe |-> FALSE]

\* shouldAttempt: the answer ...
MayAttempt(e) ==
  \/ e.state = "closed"
  \/ e.state = "open" /\ e.openedAt = "elapsed"
  \/ e.state = "half_open" /\ ~e.probe

\* ... and the entry it leaves: whoever is let through a breaker that is not
\* closed holds the probe.
AfterShouldAttempt(e) ==
  IF e.state # "closed" /\ MayAttempt(e)
  THEN [e EXCEPT !.state = "half_open", !.probe = TRUE]
  ELSE e

\* A success closes a half-open breaker once there are enough of them; an open
\* one (the attempt was let through before it opened) stays open.
AfterSuccess(e) ==
  LET counted == IF e.successes < SuccessThreshold
                 THEN e.successes + 1 ELSE e.successes
      probing == e.state = "half_open"
      closes  == probing /\ counted >= SuccessThreshold
  IN  [state     |-> IF closes THEN "closed" ELSE e.state,
       failures  |-> IF probing /\ ~closes THEN e.failures ELSE 0,
       successes |-> IF probing THEN counted ELSE 0,
       openedAt  |-> IF closes THEN "never" ELSE e.openedAt,
       probe     |-> FALSE]

\* For the mutation runs: the threshold is compared with `>'.
AfterFailureLate(e) ==
  LET trips == \/ e.state = "half_open"
               \/ e.state = "closed" /\ e.failures + 1 > FailureThreshold
  IN  [state     |-> IF trips THEN "open" ELSE e.state,
       failures  |-> e.failures + 1,
       successes |-> 0,
       openedAt  |-> IF trips THEN "recent" ELSE e.openedAt,
       probe     |-> FALSE]

\* A probe that fails reopens the breaker; so does any failure recorded while
\* it is half open.  A failure recorded while it is open only counts.
AfterFailure(e) ==
  LET counted == IF e.failures < FailureThreshold
                 THEN e.failures + 1 ELSE e.failures
      trips   == \/ e.state = "half_open"
                 \/ e.state = "closed" /\ counted >= FailureThreshold
  IN  [state     |-> IF trips THEN "open" ELSE e.state,
       failures  |-> counted,
       successes |-> 0,
       openedAt  |-> IF trips THEN "recent" ELSE e.openedAt,
       probe     |-> FALSE]

\* Time: Date.now() - openedAt reaches resetTimeoutMs.
AfterResetTimeout(e) == [e EXCEPT !.openedAt = "elapsed"]

\* What holds of an entry after any sequence of calls: a closed breaker is
\* below its threshold and holds no probe, and one that is not closed has a
\* time from which its reset timeout runs (without it, it would never probe).
Consistent(e) ==
  /\ e.state = "closed" => /\ e.failures < FailureThreshold
                           /\ e.openedAt = "never"
  /\ e.state # "closed" => e.openedAt # "never"
  /\ e.state = "half_open" => e.openedAt = "elapsed"
  /\ e.probe => e.state = "half_open"
=============================================================================
