----------------------------- MODULE Enrollment -----------------------------
(***************************************************************************)
(* Enrollment tokens and the agent registry: src/src/lib/registry/         *)
(* {enrollment,register,jti-store,store,expiry-job}.ts, the routes under   *)
(* src/src/app/api/registry, and the part of the retention sweep           *)
(* (src/src/lib/retention.ts) that deletes their rows.                     *)
(*                                                                         *)
(* POST /api/registry/enroll signs a token; nothing is stored until POST   *)
(* /api/registry/agents spends its jti and stores the agent in one         *)
(* transaction.  Any number of requests may run at once, and any of them   *)
(* may fail or die and be rolled back.  Replicas share one clock.          *)
(*                                                                         *)
(* A manifest stands for its exact bytes, so msh is the manifest itself.   *)
(* Signatures, namespaces, the checks of columns and all events but        *)
(* agent.expired are left out; Idempotency-Key is another module's.        *)
(***************************************************************************)
EXTENDS Naturals, FiniteSets

CONSTANTS
  Aid,
  Manifest,
  ManifestAid,       \* manifest.aid
  ManifestExpires,   \* manifest.expires_at in ticks, or NoExpiry
  Supported,         \* manifests of SUPPORTED_MANIFEST_VERSION
  Jti,               \* random ids: a token's is new
  Request,           \* registrations running at once
  Sweeper,           \* ticks of the expiry job running at once
  NoExpiry, None,
  Lifetime,          \* TOKEN_LIFETIME_SECS
  Guard,             \* REGISTRATION_EXPIRY_GUARD_MS, in ticks
  RetentionEnabled,  \* RETENTION_ENABLED
  MaxClock, MaxUses, MaxCrashes, MaxDeletes  \* bounds for TLC

ASSUME EnrollmentAssumption ==
  /\ ManifestAid \in [Manifest -> Aid]
  /\ ManifestExpires \in [Manifest -> Nat \cup {NoExpiry}]
  /\ NoExpiry \notin Nat
  /\ Supported \subseteq Manifest
  /\ None \notin Manifest /\ None \notin [manifest : Manifest, exp : Nat]
  /\ IsFiniteSet(Sweeper)
  /\ Lifetime \in Nat /\ Guard \in Nat
  /\ RetentionEnabled \in BOOLEAN
  /\ {MaxClock, MaxUses, MaxCrashes, MaxDeletes} \subseteq Nat

VARIABLES
  clock,        \* Date.now(), in ticks
  tokens,       \* tokens signed: [jti -> [manifest, exp]]
  agents,       \* agents: [aid -> [status, manifest]]
  spent,        \* enrollment_jtis
  requests,     \* what each registration is doing
  sweeps,       \* what each tick of the expiry job is doing
  uses,         \* history: registrations each jti has made
  activations,  \* history: times each agent was made active
  expiredEvents,\* history: agent.expired events emitted for each agent
  crashes, deletes  \* budgets

vars == <<clock, tokens, agents, spent, requests, sweeps, uses, activations,
          expiredEvents, crashes, deletes>>

-----------------------------------------------------------------------------

\* Tokens expire in whole seconds and rows in milliseconds; a tick is half a
\* second.
Seconds(t) == t \div 2
Ticks(s) == 2 * s

Token == [manifest : Manifest, exp : Nat]
NoRow == [status |-> "none", manifest |-> None]
Row == {NoRow} \cup [status : {"active", "expired", "deregistered"},
                     manifest : Manifest]

\* A registration whose token is valid is about to spend it ("consume"), or
\* has and is about to store the agent ("upsert"), uncommitted.
Idle == [at |-> "idle", jti |-> None, manifest |-> None]
Registration == {Idle} \cup
  [at : {"consume", "upsert"}, jti : Jti, manifest : Manifest]

\* A tick emits the events of its first UPDATE, then of its second.
Rest == [at |-> "idle", rows |-> {}]
Sweep == [at : {"idle", "expired", "unsupported"}, rows : SUBSET Aid]

PreCutover(a) == {m \in Manifest \ Supported : ManifestAid[m] = a}

\* Rows stored before the cutover to aitp/0.3 may still be there.
Init ==
  /\ clock = 0
  /\ tokens = [j \in Jti |-> None]
  /\ agents \in [Aid -> Row]
  /\ \A a \in Aid : agents[a] # NoRow =>
       agents[a].status = "active" /\ agents[a].manifest \in PreCutover(a)
  /\ spent = {}
  /\ requests = [r \in Request |-> Idle]
  /\ sweeps = [s \in Sweeper |-> Rest]
  /\ uses = [j \in Jti |-> 0]
  /\ activations = [a \in Aid |-> IF agents[a] = NoRow THEN 0 ELSE 1]
  /\ expiredEvents = [a \in Aid |-> 0]
  /\ crashes = 0
  /\ deletes = 0

registry == <<agents, spent>>
history == <<uses, activations, expiredEvents>>
budgets == <<crashes, deletes>>

-----------------------------------------------------------------------------
(* POST /api/registry/enroll.                                              *)

\* Both routes refuse a manifest that expires within the guard.
ExpiresSoon(m) ==
  ManifestExpires[m] # NoExpiry /\ ManifestExpires[m] < clock + Guard

\* verifyAndIssueToken.  The SDK verifies only the supported version.
Enroll(j, m) ==
  /\ tokens[j] = None
  /\ m \in Supported
  /\ ~ExpiresSoon(m)
  /\ tokens' = [tokens EXCEPT ![j] =
                  [manifest |-> m, exp |-> Seconds(clock) + Lifetime]]
  /\ UNCHANGED <<clock, registry, requests, sweeps, history, budgets>>

-----------------------------------------------------------------------------
(* POST /api/registry/agents.                                              *)

\* For the mutation runs: the token is bound to the aid only.
ValidTokenForAid(j, m) ==
  /\ tokens[j] # None
  /\ Seconds(clock) <= tokens[j].exp
  /\ ManifestAid[tokens[j].manifest] = ManifestAid[m]

\* validateToken.
ValidToken(j, m) ==
  /\ tokens[j] # None
  /\ Seconds(clock) <= tokens[j].exp
  /\ tokens[j].manifest = m

Register(r, j, m) ==
  /\ requests[r] = Idle
  /\ ValidToken(j, m)
  /\ m \in Supported
  /\ ~ExpiresSoon(m)
  /\ requests' = [requests EXCEPT ![r] = [at |-> "consume", jti |-> j, manifest |-> m]]
  /\ UNCHANGED <<clock, tokens, registry, sweeps, history, budgets>>

\* For the mutation runs: the INSERT commits at once.
ConsumeOutside(r) ==
  /\ requests[r].at = "consume"
  /\ IF requests[r].jti \in spent
     THEN requests' = [requests EXCEPT ![r] = Idle] /\ UNCHANGED spent
     ELSE /\ requests' = [requests EXCEPT ![r].at = "upsert"]
          /\ spent' = spent \cup {requests[r].jti}
  /\ UNCHANGED <<clock, tokens, agents, sweeps, history, budgets>>

\* For the mutation runs: a SELECT that sees only what is committed.
SelectThenInsert(r) ==
  /\ requests[r].at = "consume"
  /\ requests' = [requests EXCEPT ![r] =
       IF requests[r].jti \in spent THEN Idle ELSE [@ EXCEPT !.at = "upsert"]]
  /\ UNCHANGED <<clock, tokens, registry, sweeps, history, budgets>>

\* consumeEnrollmentJti: INSERT ... ON CONFLICT DO NOTHING, which waits for
\* another transaction that has inserted the jti.  A conflict is answered 401.
Consume(r) ==
  /\ requests[r].at = "consume"
  /\ \A q \in Request :
       ~(requests[q].at = "upsert" /\ requests[q].jti = requests[r].jti)
  /\ requests' = [requests EXCEPT ![r] =
       IF requests[r].jti \in spent THEN Idle ELSE [@ EXCEPT !.at = "upsert"]]
  /\ UNCHANGED <<clock, tokens, registry, sweeps, history, budgets>>

\* upsertAgent, COMMIT.  It makes an expired or deregistered agent active.
Commit(r) ==
  /\ requests[r].at = "upsert"
  /\ uses[requests[r].jti] < MaxUses
  /\ LET a == ManifestAid[requests[r].manifest] IN
       /\ agents' = [agents EXCEPT ![a] =
                       [status |-> "active", manifest |-> requests[r].manifest]]
       /\ activations' = [activations EXCEPT ![a] = @ + 1]
  /\ spent' = spent \cup {requests[r].jti}
  /\ uses' = [uses EXCEPT ![requests[r].jti] = @ + 1]
  /\ requests' = [requests EXCEPT ![r] = Idle]
  /\ UNCHANGED <<clock, tokens, sweeps, expiredEvents, budgets>>

\* A statement throws or the process dies: the transaction is rolled back.
Fail(r) ==
  /\ requests[r] # Idle
  /\ requests' = [requests EXCEPT ![r] = Idle]
  /\ UNCHANGED <<clock, tokens, registry, sweeps, history, budgets>>

-----------------------------------------------------------------------------
(* DELETE /api/registry/agents/:aid.                                       *)

\* deactivateAgent, whatever the status; no row is answered 404.
Deregister(a) ==
  /\ deletes < MaxDeletes
  /\ agents[a] # NoRow
  /\ agents' = [agents EXCEPT ![a].status = "deregistered"]
  /\ deletes' = deletes + 1
  /\ UNCHANGED <<clock, tokens, spent, requests, sweeps, history, crashes>>

-----------------------------------------------------------------------------
(* enforceManifestExpiry.                                                  *)

\* For the mutation runs: the WHERE without the status, or with another one;
\* `now' read only once.
ExpiredAnyStatus ==
  {a \in Aid : /\ agents[a] # NoRow
               /\ ManifestExpires[agents[a].manifest] # NoExpiry
               /\ ManifestExpires[agents[a].manifest] < clock}
ExpiredAgain ==
  {a \in Aid : /\ agents[a].status \in {"active", "expired"}
               /\ ManifestExpires[agents[a].manifest] # NoExpiry
               /\ ManifestExpires[agents[a].manifest] < clock}
ExpiredAtStart ==
  {a \in Aid : /\ agents[a].status = "active"
               /\ ManifestExpires[agents[a].manifest] # NoExpiry
               /\ ManifestExpires[agents[a].manifest] < 0}

Expired ==
  {a \in Aid : /\ agents[a].status = "active"
               /\ ManifestExpires[agents[a].manifest] # NoExpiry
               /\ ManifestExpires[agents[a].manifest] < clock}

Unsupported ==
  {a \in Aid : agents[a].status = "active" /\ agents[a].manifest \notin Supported}

\* UPDATE ... RETURNING, for the rows of one of the two sweeps.
Retire(s, at, rows) ==
  /\ agents' = [a \in Aid |-> IF a \in rows
                              THEN [agents[a] EXCEPT !.status = "expired"]
                              ELSE agents[a]]
  /\ sweeps' = [sweeps EXCEPT ![s] = [at |-> at, rows |-> rows]]
  /\ UNCHANGED <<clock, tokens, spent, requests, history, budgets>>

SweepExpired(s) == sweeps[s].at = "idle" /\ Retire(s, "expired", Expired)

SweepUnsupported(s) ==
  /\ sweeps[s].at = "expired" /\ sweeps[s].rows = {}
  /\ Retire(s, "unsupported", Unsupported)

\* emitExpired: a failed ingest is logged, and the event is still published.
EmitExpired(s, a) ==
  /\ a \in sweeps[s].rows
  /\ sweeps' = [sweeps EXCEPT ![s].rows = @ \ {a}]
  /\ expiredEvents' = [expiredEvents EXCEPT ![a] = @ + 1]
  /\ UNCHANGED <<clock, tokens, registry, requests, uses, activations, budgets>>

FinishSweep(s) ==
  /\ sweeps[s].at = "unsupported" /\ sweeps[s].rows = {}
  /\ sweeps' = [sweeps EXCEPT ![s] = Rest]
  /\ UNCHANGED <<clock, tokens, registry, requests, history, budgets>>

\* The process dies, or an UPDATE throws: the tick ends, its events are lost.
CrashSweep(s) ==
  /\ sweeps[s] # Rest
  /\ crashes < MaxCrashes
  /\ sweeps' = [sweeps EXCEPT ![s] = Rest]
  /\ crashes' = crashes + 1
  /\ UNCHANGED <<clock, tokens, registry, requests, history, deletes>>

-----------------------------------------------------------------------------
(* runRetentionSweep: purgeDeregisteredAgents, purgeEnrollmentJtis.        *)

\* Rows of jtis past their expires_at, up to the batch limit; and deregistered
\* agents not seen for the grace, which may be any of them.
RetentionSweep(js, as) ==
  /\ RetentionEnabled
  /\ js # {} \/ as # {}
  /\ js \subseteq {j \in spent : Ticks(tokens[j].exp) < clock}
  /\ as \subseteq {a \in Aid : agents[a].status = "deregistered"}
  /\ spent' = spent \ js
  /\ agents' = [a \in Aid |-> IF a \in as THEN NoRow ELSE agents[a]]
  /\ UNCHANGED <<clock, tokens, requests, sweeps, history, budgets>>

Tick ==
  /\ clock < MaxClock
  /\ clock' = clock + 1
  /\ UNCHANGED <<tokens, registry, requests, sweeps, history, budgets>>

-----------------------------------------------------------------------------

Next ==
  \/ \E j \in Jti, m \in Manifest : Enroll(j, m)
  \/ \E r \in Request :
       \/ \E j \in Jti, m \in Manifest : Register(r, j, m)
       \/ Consume(r) \/ Commit(r) \/ Fail(r)
  \/ \E a \in Aid : Deregister(a)
  \/ \E s \in Sweeper :
       \/ SweepExpired(s) \/ SweepUnsupported(s) \/ FinishSweep(s) \/ CrashSweep(s)
       \/ \E a \in Aid : EmitExpired(s, a)
  \/ \E js \in SUBSET Jti, as \in SUBSET Aid : RetentionSweep(js, as)
  \/ Tick

Spec == Init /\ [][Next]_vars

\* The interval fires again and again, and a tick that is not cut off ends.
Fairness ==
  /\ WF_vars(Tick)
  /\ \A s \in Sweeper :
       /\ WF_vars(SweepExpired(s))
       /\ WF_vars(SweepUnsupported(s))
       /\ WF_vars(FinishSweep(s))
       /\ \A a \in Aid : WF_vars(EmitExpired(s, a))

FairSpec == Spec /\ Fairness

-----------------------------------------------------------------------------
(* Properties.                                                             *)

TypeOK ==
  /\ clock \in Nat
  /\ tokens \in [Jti -> Token \cup {None}]
  /\ agents \in [Aid -> Row]
  /\ spent \subseteq Jti
  /\ requests \in [Request -> Registration]
  /\ sweeps \in [Sweeper -> Sweep]
  /\ uses \in [Jti -> Nat]
  /\ activations \in [Aid -> Nat]
  /\ expiredEvents \in [Aid -> Nat]
  /\ crashes \in Nat /\ deletes \in Nat

\* A token is one-time: however many registrations present it at once, fail
\* and retry, and whatever retention deletes, no second one commits before the
\* token's own expiry.
TokenIsOneTime ==
  [][\A j \in Jti : uses[j] >= 1 /\ clock <= Ticks(tokens[j].exp)
                      => uses'[j] = uses[j]]_vars

\* register.ts: a token "is spent only by a registration that commits", so one
\* whose registration failed can be retried.
SpentByRegistration == \A j \in spent : uses[j] >= 1

\* The registry holds exactly what some enrollment verified: a token never
\* stores a manifest other than the one it was signed for.
StoredAsEnrolled ==
  \A a \in Aid : agents[a].manifest \in Supported =>
    /\ ManifestAid[agents[a].manifest] = a
    /\ \E j \in Jti : tokens[j] # None /\ tokens[j].manifest = agents[a].manifest

\* The sweeps that still have an agent's event to emit.
ToEmit(a) == {s \in Sweeper : a \in sweeps[s].rows}

\* expiry-job.ts: "each agent.expired event fires exactly once across the
\* cluster": never more often than the agent was active, counting the events
\* still to be emitted and, if it is active now, the one it may yet cause.
ExpiredAtMostOnce ==
  \A a \in Aid :
    expiredEvents[a] + Cardinality(ToEmit(a))
      + (IF agents[a].status = "active" THEN 1 ELSE 0) <= activations[a]

\* What the operator deregistered stays so until it is deleted or enrolls
\* again; an overlapping sweep does not turn it into an expired one, which
\* retention would keep.
DeregisteredStays ==
  [][\A a \in Aid : agents[a].status = "deregistered" =>
       \/ agents'[a] = agents[a]
       \/ agents'[a] = NoRow
       \/ activations'[a] > activations[a]]_vars

\* An agent listed with a manifest that has expired or is of an unsupported
\* version is retired, or enrolls again, whatever crashes.
Outdated(a) ==
  /\ agents[a].status = "active"
  /\ \/ agents[a].manifest \notin Supported
     \/ /\ ManifestExpires[agents[a].manifest] # NoExpiry
        /\ ManifestExpires[agents[a].manifest] < clock

AgentsRetire == \A a \in Aid : Outdated(a) ~> ~Outdated(a)

Registry == INSTANCE Registrar

\* To the holders of tokens and the readers of the registry a registration is
\* one step of Registrar: however many requests present a token at once, and
\* whatever fails, is rolled back, swept or deleted in between, it spends the
\* token and stores the very manifest the token was signed for, or does neither.
ImplementsRegistrar == Registry!Spec
=============================================================================
