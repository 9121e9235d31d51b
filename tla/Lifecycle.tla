----------------------------- MODULE Lifecycle ------------------------------
(***************************************************************************)
(* The life of one replica: the boot of instrumentation.ts, the periodic   *)
(* jobs and the starters that arm them, the readiness route, and the       *)
(* shutdown of lib/shutdown.ts.                                            *)
(*                                                                         *)
(* An action is the code between two turns of the event loop.  register    *)
(* awaits an import before each starter, so signals and requests come in   *)
(* between.  When nothing is left to wait for, the promises of the         *)
(* shutdown settle and the process exits before the loop does anything     *)
(* else (`Leaving').                                                       *)
(***************************************************************************)
EXTENDS Integers, Sequences

CONSTANTS
  Hook,      \* the extra hooks: the flush of OpenTelemetry, or none
  Prober,    \* load balancers; each has one probe under way at most
  Disabled   \* jobs that the configuration switches off

Job == {"jwks", "webhook", "expiry", "retention", "limiterGc"}

\* startBackgroundJobs, and the re-arm calls of POST /api/events.
BootOrder == <<"jwks", "webhook", "expiry", "retention">>
IngestJobs == {"expiry", "webhook", "retention"}

\* clearBackgroundTimers
ClearedJobs == {"expiry", "retention", "webhook", "limiterGc"}

Signals == {"SIGTERM", "SIGINT"}

\* What a probe that asks the database is answered.
Answer == {"ready", "db_unreachable"}

ASSUME LifecycleAssumption == Disabled \subseteq {"jwks", "retention"}

VARIABLES
  toStart,    \* the jobs that register has still to start
  handle,     \* the globalThis.__*Interval that are set
  timers,     \* the intervals that run, for each job
  listening,  \* signals whose listener is installed
  draining,   \* __shuttingDown
  hook,       \* the extra hooks
  graceOver,  \* the deadline has fired
  exited,
  probing,    \* probers whose probe waits for the database
  told        \* what each prober was last answered

lifeVars == <<toStart, handle, timers, listening, draining, hook, graceOver,
              exited, probing, told>>

-----------------------------------------------------------------------------

\* The limiter's interval is set when its module is loaded; registerShutdownHooks
\* has run.
LifeInit ==
  /\ toStart = BootOrder
  /\ handle = [j \in Job |-> j = "limiterGc"]
  /\ timers = [j \in Job |-> IF j = "limiterGc" THEN 1 ELSE 0]
  /\ listening = Signals
  /\ draining = FALSE
  /\ hook = [h \in Hook |-> "idle"]
  /\ graceOver = FALSE
  /\ exited = FALSE
  /\ probing = {}
  /\ told = [p \in Prober |-> "nothing"]

Settled(h) == hook[h] \in {"ended", "failed"}

\* Promise.race of all hooks, whose failures are caught, and the deadline.
MayLeave == graceOver \/ \A h \in Hook : Settled(h)

Leaving == draining /\ MayLeave
Runs == ~exited /\ ~Leaving

-----------------------------------------------------------------------------
(* Periodic jobs.                                                          *)

\* For the mutation runs: a starter that does not look for a handle.
WillStartAlways(j) == j \notin Disabled

\* A starter: nothing if the job is switched off or has its handle.
WillStart(j) == j \notin Disabled /\ ~handle[j]

Start(jobs) ==
  LET started == {j \in jobs : WillStart(j)}
  IN  /\ handle' = [j \in Job |-> handle[j] \/ j \in started]
      /\ timers' = [j \in Job |-> IF j \in started THEN timers[j] + 1
                                  ELSE timers[j]]

\* The next starter of startBackgroundJobs.
Boot ==
  /\ Runs
  /\ toStart # <<>>
  /\ toStart' = Tail(toStart)
  /\ Start({Head(toStart)})
  /\ UNCHANGED <<listening, draining, hook, graceOver, exited, probing, told>>

\* POST /api/events, which a draining process serves as well.
Rearm ==
  /\ Runs
  /\ toStart = <<>>
  /\ Start(IngestJobs)
  /\ UNCHANGED <<toStart, listening, draining, hook, graceOver, exited, probing, told>>

-----------------------------------------------------------------------------
(* Readiness.                                                              *)

\* The first condition of GET /api/readyz
IsRefused == draining

\* For the mutation runs: that condition does not return.
AsksAnyway == TRUE

AsksDatabase == ~IsRefused

ProbeBegins(p) ==
  /\ Runs
  /\ toStart = <<>>
  /\ p \notin probing
  /\ told' = IF IsRefused THEN [told EXCEPT ![p] = "shutting_down"] ELSE told
  /\ probing' = IF AsksDatabase THEN probing \cup {p} ELSE probing
  /\ UNCHANGED <<toStart, handle, timers, listening, draining, hook, graceOver,
                 exited>>

\* SELECT 1 returns, or throws; the drain flag is not read again.
ProbeEnds(p, answer) ==
  /\ Runs
  /\ p \in probing
  /\ probing' = probing \ {p}
  /\ told' = [told EXCEPT ![p] = answer]
  /\ UNCHANGED <<toStart, handle, timers, listening, draining, hook, graceOver,
                 exited>>

-----------------------------------------------------------------------------
(* Shutdown.                                                               *)

HandleAfterClear(j) == handle[j] /\ j \notin ClearedJobs

\* The intervals of the handles that are set.
TimersAfterClear(j) == IF j \in ClearedJobs /\ handle[j] THEN 0 ELSE timers[j]

\* A signal, each once; the second finds the flag set.
Signal(s) ==
  /\ Runs
  /\ s \in listening
  /\ listening' = listening \ {s}
  /\ draining' = TRUE
  /\ IF draining
     THEN UNCHANGED <<handle, timers, hook>>
     ELSE /\ handle' = [j \in Job |-> HandleAfterClear(j)]
          /\ timers' = [j \in Job |-> TimersAfterClear(j)]
          /\ hook' = [h \in Hook |-> "running"]
  /\ UNCHANGED <<toStart, graceOver, exited, probing, told>>

\* A hook ends, or throws and is logged.  It may as well hang.
HookSettles(h, outcome) ==
  /\ Runs
  /\ hook[h] = "running"
  /\ hook' = [hook EXCEPT ![h] = outcome]
  /\ UNCHANGED <<toStart, handle, timers, listening, draining, graceOver,
                 exited, probing, told>>

\* For the mutation runs: all hooks are awaited, however long.
DeadlineRunsNever == FALSE

\* The timer that handle set with the flag.
DeadlineRuns == draining /\ ~graceOver

\* GRACE_PERIOD_MS have passed.
GraceEnds ==
  /\ Runs
  /\ DeadlineRuns
  /\ graceOver' = TRUE
  /\ UNCHANGED <<toStart, handle, timers, listening, draining, hook, exited,
                 probing, told>>

\* process.exit(0)
Exit ==
  /\ Leaving /\ ~exited
  /\ exited' = TRUE
  /\ timers' = [j \in Job |-> 0]
  /\ handle' = [j \in Job |-> FALSE]
  /\ UNCHANGED <<toStart, listening, draining, hook, graceOver, probing, told>>

LifeNext ==
  \/ Boot \/ Rearm
  \/ \E p \in Prober : ProbeBegins(p) \/ \E a \in Answer : ProbeEnds(p, a)
  \/ \E s \in Signals : Signal(s)
  \/ \E h \in Hook, outcome \in {"ended", "failed"} : HookSettles(h, outcome)
  \/ GraceEnds \/ Exit

LifeSpec == LifeInit /\ [][LifeNext]_lifeVars

-----------------------------------------------------------------------------
(* Properties.                                                             *)

LifeTypeOK ==
  /\ toStart \in Seq(Job)
  /\ handle \in [Job -> BOOLEAN]
  /\ timers \in [Job -> Nat]
  /\ listening \subseteq Signals
  /\ draining \in BOOLEAN
  /\ hook \in [Hook -> {"idle", "running", "ended", "failed"}]
  /\ graceOver \in BOOLEAN /\ exited \in BOOLEAN
  /\ probing \subseteq Prober
  /\ told \in [Prober -> Answer \cup {"nothing", "shutting_down"}]

(***************************************************************************)
(* However boot, ingests and the shutdown arm and clear it, a job has one  *)
(* interval if its handle is set and none otherwise: no job runs twice in  *)
(* a process, and no interval is left that the shutdown cannot find.       *)
(***************************************************************************)
OneTimerPerJob ==
  \A j \in Job : timers[j] = IF handle[j] THEN 1 ELSE 0

(***************************************************************************)
(* A probe that waits for the database when the signal comes may still say *)
(* that the replica is ready.  No later one does: what has been told that  *)
(* the replica drains is never told that it is back (readyz, GET).         *)
(***************************************************************************)
NoReturnToService ==
  [][\A p \in Prober : told[p] = "shutting_down" =>
                         told'[p] = "shutting_down"]_lifeVars

(***************************************************************************)
(* "Wait up to GRACE_PERIOD_MS for the LB readiness probe to notice and    *)
(* stop sending traffic, then exit" (shutdown.ts:12-13).                   *)
(***************************************************************************)
ExitIsNoticed == exited => graceOver \/ \A p \in Prober : told[p] # "ready"

(***************************************************************************)
(* A signalled process exits, even if a hook hangs.                        *)
(***************************************************************************)
Exits == draining ~> exited
=============================================================================
