-------------------------- MODULE EnrollmentProofs --------------------------
(***************************************************************************)
(* Theorems about Enrollment, for any agents, manifests, tokens and number *)
(* of concurrent registrations and sweeps.                                 *)
(*                                                                         *)
(* A token is one-time because a registration that has inserted its jti    *)
(* and not yet committed is alone with it (Exclusive), has not found it    *)
(* spent (Unspent), and a jti that was used stays spent as long as         *)
(* retention may not delete it (StaysSpent).  That also makes a COMMIT the *)
(* atomic registration of Registrar.                                       *)
(***************************************************************************)
EXTENDS Enrollment, FiniteSetTheorems, TLAPS

-----------------------------------------------------------------------------
(* Types.                                                                  *)

LEMMA RequestAt ==
  ASSUME TypeOK, NEW r \in Request, requests[r] # Idle
  PROVE  /\ requests[r] \in [at : {"consume", "upsert"}, jti : Jti, manifest : Manifest]
         /\ requests[r].jti \in Jti
         /\ requests[r].manifest \in Manifest
         /\ ManifestAid[requests[r].manifest] \in Aid
<1>1. requests[r] \in [at : {"consume", "upsert"}, jti : Jti, manifest : Manifest]
  BY DEF TypeOK, Registration
<1> QED BY <1>1, EnrollmentAssumption

LEMMA ToUpsertType ==
  ASSUME TypeOK, NEW r \in Request, requests[r] # Idle
  PROVE  [requests[r] EXCEPT !.at = "upsert"] \in Registration
BY RequestAt DEF Registration

LEMMA TypeInit == Init => TypeOK
BY DEF Init, TypeOK, NoRow, Registration, Rest, Sweep

LEMMA CountType ==
  ASSUME NEW S, NEW f \in [S -> Nat], NEW x \in S
  PROVE  [f EXCEPT ![x] = @ + 1] \in [S -> Nat]
OBVIOUS

LEMMA RetireType ==
  ASSUME TypeOK, NEW s \in Sweeper, NEW at \in {"expired", "unsupported"},
         NEW rows \in SUBSET Aid, \A a \in rows : agents[a].status = "active",
         Retire(s, at, rows)
  PROVE  TypeOK'
<1>1. \A a \in rows : [agents[a] EXCEPT !.status = "expired"] \in Row
  BY DEF TypeOK, Row, NoRow
<1>2. agents' \in [Aid -> Row]
  BY <1>1 DEF Retire, TypeOK
<1>3. [at |-> at, rows |-> rows] \in Sweep
  BY DEF Sweep
<1>4. sweeps' \in [Sweeper -> Sweep]
  BY <1>3 DEF Retire, TypeOK
<1> QED BY <1>2, <1>4 DEF Retire, TypeOK, history, budgets

LEMMA TypeNext == TypeOK /\ [Next]_vars => TypeOK'
<1> SUFFICES ASSUME TypeOK, [Next]_vars
             PROVE  TypeOK'
  OBVIOUS
<1> USE DEF registry, history, budgets
<1>1. CASE UNCHANGED vars
  BY <1>1 DEF TypeOK, vars
<1>2. ASSUME NEW j \in Jti, NEW m \in Manifest, Enroll(j, m)
      PROVE  TypeOK'
  <2>1. Seconds(clock) + Lifetime \in Nat
    BY EnrollmentAssumption DEF TypeOK, Seconds
  <2>2. [manifest |-> m, exp |-> Seconds(clock) + Lifetime] \in Token
    BY <2>1 DEF Token
  <2>3. tokens' \in [Jti -> Token \cup {None}]
    BY <1>2, <2>2 DEF Enroll, TypeOK
  <2> QED BY <1>2, <2>3 DEF Enroll, TypeOK
<1>3. ASSUME NEW r \in Request, NEW j \in Jti, NEW m \in Manifest, Register(r, j, m)
      PROVE  TypeOK'
  <2>1. [at |-> "consume", jti |-> j, manifest |-> m] \in Registration
    BY DEF Registration
  <2>2. requests' \in [Request -> Registration]
    BY <1>3, <2>1 DEF Register, TypeOK
  <2> QED BY <1>3, <2>2 DEF Register, TypeOK
<1>4. Idle \in Registration
  BY DEF Registration
<1>5. ASSUME NEW r \in Request, Consume(r)
      PROVE  TypeOK'
  <2>1. requests[r] # Idle
    BY <1>5 DEF Consume, Idle
  <2>2. requests' \in [Request -> Registration]
    BY <1>4, <1>5, <2>1, ToUpsertType DEF Consume, TypeOK
  <2> QED BY <1>5, <2>2 DEF Consume, TypeOK
<1>6. ASSUME NEW r \in Request, Commit(r)
      PROVE  TypeOK'
  <2>1. requests[r] # Idle
    BY <1>6 DEF Commit, Idle
  <2>2. requests[r].jti \in Jti /\ requests[r].manifest \in Manifest
    BY <2>1, RequestAt
  <2>3. [status |-> "active", manifest |-> requests[r].manifest] \in Row
    BY <2>2 DEF Row
  <2>4. agents' \in [Aid -> Row]
    BY <1>6, <2>3 DEF Commit, TypeOK
  <2>5. requests' \in [Request -> Registration]
    BY <1>4, <1>6 DEF Commit, TypeOK
  <2>6. uses' \in [Jti -> Nat] /\ activations' \in [Aid -> Nat]
    BY <1>6, <2>1, RequestAt, CountType DEF Commit, TypeOK
  <2> QED BY <1>6, <2>2, <2>4, <2>5, <2>6 DEF Commit, TypeOK
<1>7. ASSUME NEW r \in Request, Fail(r)
      PROVE  TypeOK'
  BY <1>4, <1>7 DEF Fail, TypeOK
<1>8. ASSUME NEW a \in Aid, Deregister(a)
      PROVE  TypeOK'
  <2>1. [agents[a] EXCEPT !.status = "deregistered"] \in Row
    BY <1>8 DEF Deregister, TypeOK, Row
  <2>2. agents' \in [Aid -> Row]
    BY <1>8, <2>1 DEF Deregister, TypeOK
  <2> QED BY <1>8, <2>2 DEF Deregister, TypeOK
<1>9. ASSUME NEW s \in Sweeper, SweepExpired(s)
      PROVE  TypeOK'
  BY <1>9, RetireType DEF SweepExpired, Expired
<1>10. ASSUME NEW s \in Sweeper, SweepUnsupported(s)
       PROVE  TypeOK'
  BY <1>10, RetireType DEF SweepUnsupported, Unsupported
<1>11. Rest \in Sweep
  BY DEF Rest, Sweep
<1>12. ASSUME NEW s \in Sweeper, FinishSweep(s) \/ CrashSweep(s)
       PROVE  TypeOK'
  BY <1>11, <1>12 DEF FinishSweep, CrashSweep, TypeOK
<1>13. ASSUME NEW s \in Sweeper, NEW a \in Aid, EmitExpired(s, a)
       PROVE  TypeOK'
  <2>1. [sweeps[s] EXCEPT !.rows = @ \ {a}] \in Sweep
    BY DEF TypeOK, Sweep
  <2>2. sweeps' \in [Sweeper -> Sweep]
    BY <1>13, <2>1 DEF EmitExpired, TypeOK
  <2>3. expiredEvents' \in [Aid -> Nat]
    BY <1>13 DEF EmitExpired, TypeOK
  <2> QED BY <1>13, <2>2, <2>3 DEF EmitExpired, TypeOK
<1>14. ASSUME NEW js \in SUBSET Jti, NEW as \in SUBSET Aid, RetentionSweep(js, as)
       PROVE  TypeOK'
  <2>1. agents' \in [Aid -> Row]
    BY <1>14 DEF RetentionSweep, TypeOK, Row
  <2> QED BY <1>14, <2>1 DEF RetentionSweep, TypeOK
<1>15. CASE Tick
  BY <1>15 DEF Tick, TypeOK
<1> QED BY <1>1, <1>2, <1>3, <1>5, <1>6, <1>7, <1>8, <1>9, <1>10, <1>12,
           <1>13, <1>14, <1>15 DEF Next

\* Rows, tokens, registrations and sweeps keep their types.
THEOREM TypeCorrect == Spec => []TypeOK
<1> QED BY TypeInit, TypeNext, PTL DEF Spec

-----------------------------------------------------------------------------
(* Tokens.                                                                 *)

Signed ==
  \A r \in Request : requests[r] # Idle =>
    /\ requests[r].manifest \in Supported
    /\ tokens[requests[r].jti] # None
    /\ tokens[requests[r].jti].manifest = requests[r].manifest

Exclusive ==
  \A q, r \in Request :
    /\ requests[q].at = "upsert" /\ requests[r].at = "upsert"
    /\ requests[q].jti = requests[r].jti
    => q = r

Unspent ==
  \A r \in Request : requests[r].at = "upsert" => requests[r].jti \notin spent

StaysSpent ==
  \A j \in Jti : uses[j] >= 1 =>
    /\ tokens[j] # None
    /\ clock <= Ticks(tokens[j].exp) => j \in spent

TokenInv ==
  /\ TypeOK
  /\ Signed
  /\ Exclusive
  /\ Unspent
  /\ StaysSpent
  /\ SpentByRegistration
  /\ StoredAsEnrolled

LEMMA TokenInit == Init => TokenInv
<1> SUFFICES ASSUME Init PROVE TokenInv
  OBVIOUS
<1>1. TypeOK
  BY TypeInit
<1>2. \A r \in Request : requests[r] = Idle /\ requests[r].at = "idle"
  BY DEF Init, Idle
<1>3. Signed /\ Exclusive /\ Unspent
  BY <1>2 DEF Signed, Exclusive, Unspent
<1>4. StaysSpent /\ SpentByRegistration
  BY DEF Init, StaysSpent, SpentByRegistration
<1>5. \A a \in Aid : agents[a].manifest \notin Supported
  BY EnrollmentAssumption DEF Init, NoRow, PreCutover
<1> QED BY <1>1, <1>3, <1>4, <1>5 DEF TokenInv, StoredAsEnrolled

\* Steps that leave tokens, requests and what was spent alone, and store no
\* manifest that was not stored.
LEMMA TokenQuiet ==
  ASSUME TokenInv, TypeOK',
         UNCHANGED <<tokens, spent, requests, uses>>, clock' >= clock,
         \A a \in Aid : agents'[a].manifest \in {agents[a].manifest, None}
  PROVE  TokenInv'
<1>1. Signed' /\ Exclusive' /\ Unspent' /\ SpentByRegistration'
  BY DEF TokenInv, Signed, Exclusive, Unspent, SpentByRegistration
<1>2. StaysSpent'
  <2>1. \A j \in Jti : tokens[j] # None => Ticks(tokens[j].exp) \in Nat
    BY DEF TokenInv, TypeOK, Token, Ticks
  <2>2. SUFFICES ASSUME NEW j \in Jti, uses[j] >= 1
                 PROVE  /\ tokens[j] # None
                        /\ clock' <= Ticks(tokens[j].exp) => j \in spent
    BY DEF StaysSpent, Ticks
  <2>3. tokens[j] # None /\ (clock <= Ticks(tokens[j].exp) => j \in spent)
    BY <2>2 DEF TokenInv, StaysSpent
  <2> QED BY <2>1, <2>3 DEF TokenInv, TypeOK
<1>3. StoredAsEnrolled'
  BY EnrollmentAssumption DEF TokenInv, StoredAsEnrolled
<1> QED BY <1>1, <1>2, <1>3 DEF TokenInv

\* A step of one request alone, to `new'.
LEMMA RequestSteps ==
  ASSUME TokenInv, TypeOK', NEW r \in Request, NEW new,
         requests' = [requests EXCEPT ![r] = new],
         \/ new.at # "upsert"
         \/ /\ new.jti \notin spent
            /\ \A q \in Request : ~(requests[q].at = "upsert" /\ requests[q].jti = new.jti),
         \/ new = Idle
         \/ /\ new.manifest \in Supported
            /\ tokens[new.jti] # None
            /\ tokens[new.jti].manifest = new.manifest,
         UNCHANGED <<clock, tokens, agents, spent, uses>>
  PROVE  TokenInv'
<1>1. \A q \in Request : requests'[q] = IF q = r THEN new ELSE requests[q]
  BY DEF TokenInv, TypeOK
<1>2. Signed'
  BY <1>1 DEF TokenInv, Signed
<1>3. Exclusive'
  BY <1>1 DEF TokenInv, Exclusive
<1>4. Unspent'
  BY <1>1 DEF TokenInv, Unspent
<1>5. StaysSpent' /\ SpentByRegistration' /\ StoredAsEnrolled'
  BY DEF TokenInv, StaysSpent, SpentByRegistration, StoredAsEnrolled, Ticks
<1> QED BY <1>2, <1>3, <1>4, <1>5 DEF TokenInv

LEMMA TokenNext == TokenInv /\ [Next]_vars => TokenInv'
<1> SUFFICES ASSUME TokenInv, [Next]_vars
             PROVE  TokenInv'
  OBVIOUS
<1> USE DEF registry, history, budgets
<1>1. TypeOK /\ TypeOK'
  BY TypeNext DEF TokenInv
<1>2. CASE UNCHANGED vars
  BY <1>1, <1>2, TokenQuiet DEF vars, TypeOK
<1>3. ASSUME NEW j \in Jti, NEW m \in Manifest, Enroll(j, m)
      PROVE  TokenInv'
  <2>1. tokens'[j] = [manifest |-> m, exp |-> Seconds(clock) + Lifetime]
    BY <1>1, <1>3 DEF Enroll, TypeOK
  <2>2. Seconds(clock) + Lifetime \in Nat
    BY <1>1, EnrollmentAssumption DEF TypeOK, Seconds
  <2>3. tokens'[j] # None
    BY <2>1, <2>2, EnrollmentAssumption
  <2>4. \A i \in Jti : tokens[i] # None => i # j /\ tokens'[i] = tokens[i]
    BY <1>1, <1>3 DEF Enroll, TypeOK
  <2>5. UNCHANGED <<clock, agents, spent, requests, uses>>
    BY <1>3 DEF Enroll
  <2>6. Signed'
    BY <1>1, <2>4, <2>5, RequestAt DEF TokenInv, Signed
  <2>7. Exclusive' /\ Unspent' /\ SpentByRegistration'
    BY <2>5 DEF TokenInv, Exclusive, Unspent, SpentByRegistration
  <2>8. StaysSpent'
    BY <2>4, <2>5 DEF TokenInv, StaysSpent, Ticks
  <2>9. StoredAsEnrolled'
    BY <2>4, <2>5 DEF TokenInv, StoredAsEnrolled
  <2> QED BY <1>1, <2>6, <2>7, <2>8, <2>9 DEF TokenInv
<1>5. ASSUME NEW r \in Request, NEW j \in Jti, NEW m \in Manifest, Register(r, j, m)
      PROVE  TokenInv'
  <2> DEFINE new == [at |-> "consume", jti |-> j, manifest |-> m]
  <2>1. new.at = "consume" /\ new.jti = j /\ new.manifest = m
    OBVIOUS
  <2>2. requests' = [requests EXCEPT ![r] = new]
    BY <1>5 DEF Register
  <2> HIDE DEF new
  <2>3. tokens[j] # None /\ tokens[j].manifest = m /\ m \in Supported
    BY <1>5 DEF Register, ValidToken
  <2>4. UNCHANGED <<clock, tokens, agents, spent, uses>>
    BY <1>5 DEF Register
  <2> QED BY <1>1, <2>1, <2>2, <2>3, <2>4, RequestSteps
<1>6. ASSUME NEW r \in Request, requests' = [requests EXCEPT ![r] = Idle],
             UNCHANGED <<clock, tokens, agents, spent, uses>>
      PROVE  TokenInv'
  <2>1. Idle.at # "upsert"
    BY DEF Idle
  <2> QED BY <1>1, <1>6, <2>1, RequestSteps
<1>7. ASSUME NEW r \in Request, Consume(r)
      PROVE  TokenInv'
  <2>1. CASE requests[r].jti \in spent
    BY <1>6, <1>7, <2>1 DEF Consume
  <2>2. CASE requests[r].jti \notin spent
    <3> DEFINE new == [requests[r] EXCEPT !.at = "upsert"]
    <3>1. requests[r] # Idle
      BY <1>7 DEF Consume, Idle
    <3>2. /\ new.at = "upsert" /\ new.jti = requests[r].jti
          /\ new.manifest = requests[r].manifest
      BY <1>1, <3>1, RequestAt
    <3>3. requests' = [requests EXCEPT ![r] = new]
      BY <1>7, <2>2 DEF Consume
    <3> HIDE DEF new
    <3>4. /\ new.manifest \in Supported
          /\ tokens[new.jti] # None
          /\ tokens[new.jti].manifest = new.manifest
      BY <3>1, <3>2 DEF TokenInv, Signed
    <3>5. /\ new.jti \notin spent
          /\ \A q \in Request : ~(requests[q].at = "upsert" /\ requests[q].jti = new.jti)
      BY <1>7, <2>2, <3>2 DEF Consume
    <3>6. UNCHANGED <<clock, tokens, agents, spent, uses>>
      BY <1>7 DEF Consume
    <3> QED BY <1>1, <3>3, <3>4, <3>5, <3>6, RequestSteps
  <2> QED BY <2>1, <2>2
<1>8. ASSUME NEW r \in Request, Commit(r)
      PROVE  TokenInv'
  <2> DEFINE j == requests[r].jti
             m == requests[r].manifest
  <2>1. requests[r] # Idle /\ requests[r].at = "upsert"
    BY <1>8 DEF Commit, Idle
  <2>2. j \in Jti /\ m \in Supported /\ tokens[j] # None /\ tokens[j].manifest = m
    BY <1>1, <2>1, RequestAt DEF TokenInv, Signed
  <2>3. ManifestAid[m] \in Aid
    BY <1>1, <2>1, RequestAt
  <2>4. \A q \in Request : requests'[q] = IF q = r THEN Idle ELSE requests[q]
    BY <1>1, <1>8 DEF Commit, TypeOK
  <2>5. spent' = spent \cup {j} /\ UNCHANGED <<clock, tokens>>
    BY <1>8 DEF Commit
  <2>6. \A i \in Jti : uses'[i] = IF i = j THEN uses[i] + 1 ELSE uses[i]
    BY <1>1, <1>8, <2>2 DEF Commit, TypeOK
  <2>7. \A a \in Aid : IF a = ManifestAid[m] THEN agents'[a].manifest = m
                                             ELSE agents'[a] = agents[a]
    BY <1>1, <1>8, <2>3 DEF Commit, TypeOK
  <2>8. Idle.at = "idle"
    BY DEF Idle
  <2>9. Signed' /\ Exclusive'
    BY <2>4, <2>5, <2>8 DEF TokenInv, Signed, Exclusive
  <2>10. Unspent'
    BY <2>1, <2>4, <2>5, <2>8 DEF TokenInv, Unspent, Exclusive
  <2>11. \A i \in Jti : uses'[i] >= 1 <=> i = j \/ uses[i] >= 1
    BY <1>1, <2>6 DEF TypeOK
  <2>12. StaysSpent'
    BY <2>2, <2>5, <2>11 DEF TokenInv, StaysSpent, Ticks
  <2>13. SpentByRegistration'
    BY <1>1, <2>2, <2>5, <2>11 DEF TokenInv, SpentByRegistration, TypeOK
  <2>14. StoredAsEnrolled'
    BY <2>2, <2>5, <2>7 DEF TokenInv, StoredAsEnrolled
  <2> QED BY <1>1, <2>9, <2>10, <2>12, <2>13, <2>14 DEF TokenInv
<1>9. ASSUME NEW r \in Request, Fail(r)
      PROVE  TokenInv'
  BY <1>6, <1>9 DEF Fail
<1>10. ASSUME NEW a \in Aid, Deregister(a)
       PROVE  TokenInv'
  <2>1. \A b \in Aid : agents'[b].manifest = agents[b].manifest
    BY <1>1, <1>10 DEF Deregister, TypeOK, Row, NoRow
  <2> QED BY <1>1, <1>10, <2>1, TokenQuiet DEF Deregister, TypeOK
<1>11. ASSUME NEW s \in Sweeper, SweepExpired(s) \/ SweepUnsupported(s)
       PROVE  TokenInv'
  <2>1. \A b \in Aid : agents'[b].manifest = agents[b].manifest
    BY <1>1, <1>11 DEF SweepExpired, SweepUnsupported, Retire, TypeOK, Row, NoRow
  <2> QED BY <1>1, <1>11, <2>1, TokenQuiet
          DEF SweepExpired, SweepUnsupported, Retire, TypeOK
<1>12. ASSUME NEW s \in Sweeper,
              \/ FinishSweep(s) \/ CrashSweep(s)
              \/ \E a \in Aid : EmitExpired(s, a)
       PROVE  TokenInv'
  BY <1>1, <1>12, TokenQuiet DEF FinishSweep, CrashSweep, EmitExpired, TypeOK
<1>13. CASE Tick
  BY <1>1, <1>13, TokenQuiet DEF Tick, TypeOK
<1>14. ASSUME NEW js \in SUBSET Jti, NEW as \in SUBSET Aid, RetentionSweep(js, as)
       PROVE  TokenInv'
  <2>1. spent' \subseteq spent /\ UNCHANGED <<clock, tokens, requests, uses>>
    BY <1>14 DEF RetentionSweep
  <2>2. \A a \in Aid : agents'[a] = agents[a] \/ agents'[a].manifest = None
    BY <1>14 DEF RetentionSweep, NoRow
  <2>3. Signed' /\ Exclusive' /\ Unspent' /\ SpentByRegistration'
    BY <2>1 DEF TokenInv, Signed, Exclusive, Unspent, SpentByRegistration
  <2>4. \A j \in spent \ spent' : Ticks(tokens[j].exp) < clock
    BY <1>14 DEF RetentionSweep
  <2>5. \A j \in Jti : tokens[j] # None => Ticks(tokens[j].exp) \in Nat
    BY <1>1 DEF TypeOK, Token, Ticks
  <2>6. StaysSpent'
    <3>1. SUFFICES ASSUME NEW j \in Jti, uses[j] >= 1
                   PROVE  /\ tokens[j] # None
                          /\ clock <= Ticks(tokens[j].exp) => j \in spent'
      BY <2>1 DEF StaysSpent, Ticks
    <3>2. tokens[j] # None /\ (clock <= Ticks(tokens[j].exp) => j \in spent)
      BY <3>1 DEF TokenInv, StaysSpent
    <3> QED BY <1>1, <2>4, <2>5, <3>2 DEF TypeOK
  <2>7. StoredAsEnrolled'
    BY <2>1, <2>2, EnrollmentAssumption DEF TokenInv, StoredAsEnrolled
  <2> QED BY <1>1, <2>3, <2>6, <2>7 DEF TokenInv
<1> QED BY <1>2, <1>3, <1>5, <1>7, <1>8, <1>9, <1>10, <1>11, <1>12, <1>13,
           <1>14 DEF Next

\* A failed registration leaves its token unspent, so the caller can retry: no
\* jti is ever stored without the registration it was spent on.
THEOREM RollbackKeepsToken == Spec => []SpentByRegistration
<1>1. TokenInv => SpentByRegistration
  BY DEF TokenInv
<1> QED BY <1>1, TokenInit, TokenNext, PTL DEF Spec

\* The registry never holds a supported manifest that enrollment did not
\* verify, under the agent it names.
THEOREM RegistryIsEnrolled == Spec => []StoredAsEnrolled
<1>1. TokenInv => StoredAsEnrolled
  BY DEF TokenInv
<1> QED BY <1>1, TokenInit, TokenNext, PTL DEF Spec

LEMMA UsesNext ==
  ASSUME TokenInv, [Next]_vars, NEW j \in Jti,
         uses[j] >= 1, clock <= Ticks(tokens[j].exp)
  PROVE  uses'[j] = uses[j]
<1> USE DEF registry, history, budgets
<1>1. CASE UNCHANGED uses
  BY <1>1
<1>2. ASSUME NEW r \in Request, Commit(r)
      PROVE  uses'[j] = uses[j]
  <2>1. requests[r].jti \notin spent /\ j \in spent
    BY <1>2 DEF Commit, TokenInv, Unspent, StaysSpent
  <2> QED BY <1>2, <2>1 DEF Commit, TokenInv, TypeOK
<1> QED BY <1>1, <1>2
        DEF Next, vars, Enroll, Register, Consume, Fail, Deregister, Retire,
            SweepExpired, SweepUnsupported, FinishSweep, CrashSweep, EmitExpired,
            RetentionSweep, Tick

\* Until it expires a token registers at most once, for any number of
\* concurrent presentations of any number of tokens, with retention or without.
THEOREM OneTimeToken == Spec => TokenIsOneTime
<1>1. TokenInv /\ [Next]_vars =>
        [\A j \in Jti : uses[j] >= 1 /\ clock <= Ticks(tokens[j].exp)
                          => uses'[j] = uses[j]]_vars
  BY UsesNext
<1> QED BY <1>1, TokenInit, TokenNext, PTL DEF Spec, TokenIsOneTime

-----------------------------------------------------------------------------
(* Agents.                                                                 *)

RestIsEmpty == \A s \in Sweeper : sweeps[s].at = "idle" => sweeps[s].rows = {}

EventInv == TypeOK /\ RestIsEmpty /\ ExpiredAtMostOnce

LEMMA ToEmitFinite ==
  ASSUME NEW a
  PROVE  IsFiniteSet(ToEmit(a)) /\ Cardinality(ToEmit(a)) \in Nat
<1>1. ToEmit(a) \subseteq Sweeper
  BY DEF ToEmit
<1> QED BY <1>1, FS_Subset, FS_CardinalityType, EnrollmentAssumption

LEMMA EventInit == Init => EventInv
<1> SUFFICES ASSUME Init PROVE EventInv
  OBVIOUS
<1>1. RestIsEmpty
  BY DEF Init, RestIsEmpty, Rest
<1>2. \A a \in Aid : ToEmit(a) = {}
  BY DEF Init, Rest, ToEmit
<1>3. \A a \in Aid : Cardinality(ToEmit(a)) = 0
  BY <1>2, FS_EmptySet
<1>4. \A a \in Aid : activations[a] = 1 \/ (activations[a] = 0 /\ agents[a].status = "none")
  BY DEF Init, NoRow
<1> QED BY <1>1, <1>3, <1>4, TypeInit DEF EventInv, ExpiredAtMostOnce, Init

\* Steps that leave the sweeps alone, and by which agents become active only
\* as counted.
LEMMA EventQuiet ==
  ASSUME EventInv, TypeOK', UNCHANGED <<sweeps, expiredEvents>>,
         \A a \in Aid : \/ /\ agents'[a].status = "active" => agents[a].status = "active"
                           /\ activations'[a] = activations[a]
                        \/ activations'[a] = activations[a] + 1
  PROVE  EventInv'
<1>1. \A a \in Aid : ToEmit(a)' = ToEmit(a)
  BY DEF ToEmit
<1>2. \A a \in Aid : Cardinality(ToEmit(a)) \in Nat
  BY ToEmitFinite
<1>3. ExpiredAtMostOnce'
  <2> SUFFICES ASSUME NEW a \in Aid
               PROVE  expiredEvents[a] + Cardinality(ToEmit(a))
                        + (IF agents'[a].status = "active" THEN 1 ELSE 0)
                      <= activations'[a]
    BY <1>1 DEF ExpiredAtMostOnce
  <2>1. expiredEvents[a] + Cardinality(ToEmit(a))
          + (IF agents[a].status = "active" THEN 1 ELSE 0) <= activations[a]
    BY DEF EventInv, ExpiredAtMostOnce
  <2>2. expiredEvents[a] \in Nat /\ activations[a] \in Nat
    BY DEF EventInv, TypeOK
  <2> QED BY <1>2, <2>1, <2>2
<1> QED BY <1>3 DEF EventInv, RestIsEmpty

\* An UPDATE takes each row it returns from active, and owes one event for it.
LEMMA EventRetire ==
  ASSUME EventInv, TypeOK', NEW s \in Sweeper, sweeps[s].rows = {},
         NEW at \in {"expired", "unsupported"}, NEW rows \in SUBSET Aid,
         \A a \in rows : agents[a].status = "active",
         Retire(s, at, rows)
  PROVE  EventInv'
<1>1. \A t \in Sweeper : sweeps'[t] = IF t = s THEN [at |-> at, rows |-> rows]
                                               ELSE sweeps[t]
  BY DEF Retire, EventInv, TypeOK
<1>2. RestIsEmpty'
  BY <1>1 DEF RestIsEmpty, EventInv
<1>3. ExpiredAtMostOnce'
  <2> SUFFICES ASSUME NEW a \in Aid
               PROVE  expiredEvents'[a] + Cardinality(ToEmit(a)')
                        + (IF agents'[a].status = "active" THEN 1 ELSE 0)
                      <= activations'[a]
    BY DEF ExpiredAtMostOnce
  <2>1. expiredEvents[a] + Cardinality(ToEmit(a))
          + (IF agents[a].status = "active" THEN 1 ELSE 0) <= activations[a]
    BY DEF EventInv, ExpiredAtMostOnce
  <2>2. /\ expiredEvents[a] \in Nat /\ activations[a] \in Nat
        /\ Cardinality(ToEmit(a)) \in Nat
    BY ToEmitFinite DEF EventInv, TypeOK
  <2>3. UNCHANGED <<expiredEvents, activations>>
    BY DEF Retire, history
  <2>4. CASE a \in rows
    <3>1. agents[a].status = "active" /\ agents'[a].status = "expired"
      <4>1. agents[a].status = "active"
        BY <2>4
      <4>2. agents'[a] = [agents[a] EXCEPT !.status = "expired"]
        BY <2>4 DEF Retire
      <4>3. [agents[a] EXCEPT !.status = "expired"].status = "expired"
        BY <4>1 DEF EventInv, TypeOK, Row, NoRow
      <4> QED BY <4>1, <4>2, <4>3
    <3>2. ToEmit(a)' = ToEmit(a) \cup {s} /\ s \notin ToEmit(a)
      BY <1>1, <2>4 DEF ToEmit
    <3>3. Cardinality(ToEmit(a)') = Cardinality(ToEmit(a)) + 1
      BY <3>2, ToEmitFinite, FS_AddElement
    <3> QED BY <2>1, <2>2, <2>3, <3>1, <3>3
  <2>5. CASE a \notin rows
    <3>1. ToEmit(a)' = ToEmit(a)
      BY <1>1, <2>5 DEF ToEmit
    <3>2. agents'[a] = agents[a]
      BY <2>5 DEF Retire
    <3> QED BY <2>1, <2>3, <3>1, <3>2
  <2> QED BY <2>4, <2>5
<1> QED BY <1>2, <1>3 DEF EventInv

LEMMA EventNext == EventInv /\ [Next]_vars => EventInv'
<1> SUFFICES ASSUME EventInv, [Next]_vars
             PROVE  EventInv'
  OBVIOUS
<1> USE DEF registry, history, budgets
<1>1. TypeOK /\ TypeOK'
  BY TypeNext DEF EventInv
<1>2. CASE UNCHANGED <<agents, activations, sweeps, expiredEvents>>
  BY <1>1, <1>2, EventQuiet
<1>3. ASSUME NEW r \in Request, Commit(r)
      PROVE  EventInv'
  <2>1. requests[r] # Idle
    BY <1>3 DEF Commit, Idle
  <2>2. ManifestAid[requests[r].manifest] \in Aid
    BY <1>1, <2>1, RequestAt
  <2>3. \A a \in Aid : \/ /\ agents'[a] = agents[a] /\ activations'[a] = activations[a]
                       \/ activations'[a] = activations[a] + 1
    BY <1>1, <1>3, <2>2 DEF Commit, TypeOK
  <2>4. UNCHANGED <<sweeps, expiredEvents>>
    BY <1>3 DEF Commit
  <2> QED BY <1>1, <2>3, <2>4, EventQuiet
<1>4. ASSUME NEW a \in Aid, Deregister(a)
      PROVE  EventInv'
  <2>1. [agents[a] EXCEPT !.status = "deregistered"].status = "deregistered"
    BY <1>1 DEF TypeOK, Row, NoRow
  <2>2. \A b \in Aid : agents'[b].status = "active" => agents[b].status = "active"
    BY <1>1, <1>4, <2>1 DEF Deregister, TypeOK
  <2> QED BY <1>1, <1>4, <2>2, EventQuiet DEF Deregister
<1>5. ASSUME NEW s \in Sweeper, SweepExpired(s)
      PROVE  EventInv'
  <2>1. sweeps[s].rows = {}
    BY <1>5 DEF SweepExpired, EventInv, RestIsEmpty
  <2> QED BY <1>1, <1>5, <2>1, EventRetire DEF SweepExpired, Expired
<1>6. ASSUME NEW s \in Sweeper, SweepUnsupported(s)
      PROVE  EventInv'
  BY <1>1, <1>6, EventRetire DEF SweepUnsupported, Unsupported
<1>7. ASSUME NEW s \in Sweeper, NEW b \in Aid, EmitExpired(s, b)
      PROVE  EventInv'
  <2>1. \A t \in Sweeper :
          /\ sweeps'[t].at = sweeps[t].at
          /\ sweeps'[t].rows = IF t = s THEN sweeps[t].rows \ {b} ELSE sweeps[t].rows
    <3>1. sweeps \in [Sweeper -> Sweep]
      BY <1>1 DEF TypeOK
    <3>2. sweeps' = [sweeps EXCEPT ![s] = [sweeps[s] EXCEPT !.rows = sweeps[s].rows \ {b}]]
      BY <1>7, <3>1 DEF EmitExpired
    <3>3. ASSUME NEW t \in Sweeper, t # s PROVE sweeps'[t] = sweeps[t]
      BY <3>1, <3>2, <3>3
    <3>4. sweeps'[s] = [sweeps[s] EXCEPT !.rows = sweeps[s].rows \ {b}]
      BY <3>1, <3>2
    <3>5. sweeps'[s].at = sweeps[s].at /\ sweeps'[s].rows = sweeps[s].rows \ {b}
      BY <3>1, <3>4 DEF Sweep
    <3> QED BY <3>3, <3>5
  <2>2. RestIsEmpty'
    BY <2>1 DEF RestIsEmpty, EventInv
  <2>3. ExpiredAtMostOnce'
    <3> SUFFICES ASSUME NEW a \in Aid
                 PROVE  expiredEvents'[a] + Cardinality(ToEmit(a)')
                          + (IF agents[a].status = "active" THEN 1 ELSE 0)
                        <= activations[a]
      BY <1>7 DEF ExpiredAtMostOnce, EmitExpired
    <3>1. expiredEvents[a] + Cardinality(ToEmit(a))
            + (IF agents[a].status = "active" THEN 1 ELSE 0) <= activations[a]
      BY DEF EventInv, ExpiredAtMostOnce
    <3>2. /\ expiredEvents[a] \in Nat /\ activations[a] \in Nat
          /\ Cardinality(ToEmit(a)) \in Nat
      BY <1>1, ToEmitFinite DEF TypeOK
    <3>3. CASE a = b
      <4>1. ToEmit(a)' = ToEmit(a) \ {s} /\ s \in ToEmit(a)
        BY <1>7, <2>1, <3>3 DEF ToEmit, EmitExpired
      <4>2. Cardinality(ToEmit(a)') = Cardinality(ToEmit(a)) - 1
        BY <4>1, ToEmitFinite, FS_RemoveElement
      <4>3. expiredEvents'[a] = expiredEvents[a] + 1
        BY <1>1, <1>7, <3>3 DEF EmitExpired, TypeOK
      <4> QED BY <3>1, <3>2, <4>2, <4>3
    <3>4. CASE a # b
      <4>1. ToEmit(a)' = ToEmit(a)
        BY <2>1, <3>4 DEF ToEmit
      <4>2. expiredEvents'[a] = expiredEvents[a]
        BY <1>1, <1>7, <3>4 DEF EmitExpired, TypeOK
      <4> QED BY <3>1, <4>1, <4>2
    <3> QED BY <3>3, <3>4
  <2> QED BY <1>1, <2>2, <2>3 DEF EventInv
<1>8. ASSUME NEW s \in Sweeper, FinishSweep(s) \/ CrashSweep(s)
      PROVE  EventInv'
  <2>1. \A t \in Sweeper : sweeps'[t] = IF t = s THEN Rest ELSE sweeps[t]
    BY <1>1, <1>8 DEF FinishSweep, CrashSweep, TypeOK
  <2>2. Rest.rows = {}
    BY DEF Rest
  <2>3. RestIsEmpty'
    BY <2>1, <2>2 DEF RestIsEmpty, EventInv
  <2>4. \A a \in Aid : ToEmit(a)' \subseteq ToEmit(a)
    BY <2>1, <2>2 DEF ToEmit
  <2>5. UNCHANGED <<agents, activations, expiredEvents>>
    BY <1>8 DEF FinishSweep, CrashSweep
  <2>6. ExpiredAtMostOnce'
    <3> SUFFICES ASSUME NEW a \in Aid
                 PROVE  expiredEvents[a] + Cardinality(ToEmit(a)')
                          + (IF agents[a].status = "active" THEN 1 ELSE 0)
                        <= activations[a]
      BY <2>5 DEF ExpiredAtMostOnce
    <3>1. expiredEvents[a] + Cardinality(ToEmit(a))
            + (IF agents[a].status = "active" THEN 1 ELSE 0) <= activations[a]
      BY DEF EventInv, ExpiredAtMostOnce
    <3>2. /\ Cardinality(ToEmit(a)') \in Nat
          /\ Cardinality(ToEmit(a)') <= Cardinality(ToEmit(a))
      BY <2>4, ToEmitFinite, FS_Subset, FS_CardinalityType
    <3>3. /\ expiredEvents[a] \in Nat /\ activations[a] \in Nat
          /\ Cardinality(ToEmit(a)) \in Nat
      BY <1>1, ToEmitFinite DEF TypeOK
    <3> QED BY <3>1, <3>2, <3>3
  <2> QED BY <1>1, <2>3, <2>6 DEF EventInv
<1>9. ASSUME NEW js, NEW as, RetentionSweep(js, as)
      PROVE  EventInv'
  <2>1. \A a \in Aid : agents'[a].status = "active" => agents[a].status = "active"
    BY <1>9 DEF RetentionSweep, NoRow
  <2> QED BY <1>1, <1>9, <2>1, EventQuiet DEF RetentionSweep
<1> QED BY <1>2, <1>3, <1>4, <1>5, <1>6, <1>7, <1>8, <1>9
        DEF Next, vars, Enroll, Register, Consume, Fail, Tick

\* For any number of overlapping sweeps, agents and re-enrollments, agent.expired
\* is emitted at most once for each time the agent was made active.
THEOREM ExpiredOnce == Spec => []ExpiredAtMostOnce
<1>1. EventInv => ExpiredAtMostOnce
  BY DEF EventInv
<1> QED BY <1>1, EventInit, EventNext, PTL DEF Spec

LEMMA DeregisteredNext ==
  ASSUME TypeOK, [Next]_vars, NEW a \in Aid, agents[a].status = "deregistered"
  PROVE  \/ agents'[a] = agents[a]
         \/ agents'[a] = NoRow
         \/ activations'[a] > activations[a]
<1> USE DEF registry, history, budgets
<1>1. CASE UNCHANGED agents
  BY <1>1
<1>2. ASSUME NEW r \in Request, Commit(r)
      PROVE  agents'[a] = agents[a] \/ activations'[a] > activations[a]
  <2>1. requests[r] # Idle
    BY <1>2 DEF Commit, Idle
  <2>2. ManifestAid[requests[r].manifest] \in Aid
    BY <2>1, RequestAt
  <2>3. agents'[a] = agents[a] \/ activations'[a] = activations[a] + 1
    BY <1>2, <2>2 DEF Commit, TypeOK
  <2> QED BY <2>3 DEF TypeOK
<1>3. ASSUME NEW b \in Aid, Deregister(b)
      PROVE  agents'[a] = agents[a]
  <2>1. [agents[a] EXCEPT !.status = "deregistered"] = agents[a]
    BY DEF TypeOK, Row, NoRow
  <2> QED BY <1>3, <2>1 DEF Deregister, TypeOK
<1>4. ASSUME NEW s \in Sweeper, SweepExpired(s) \/ SweepUnsupported(s)
      PROVE  agents'[a] = agents[a]
  BY <1>4 DEF SweepExpired, SweepUnsupported, Retire, Expired, Unsupported
<1>5. ASSUME NEW js, NEW as, RetentionSweep(js, as)
      PROVE  agents'[a] = agents[a] \/ agents'[a] = NoRow
  BY <1>5 DEF RetentionSweep
<1> QED BY <1>1, <1>2, <1>3, <1>4, <1>5
        DEF Next, vars, Enroll, Register, Consume, Fail, FinishSweep, CrashSweep,
            EmitExpired, Tick

\* An agent the operator deregistered only ever leaves that state by being
\* deleted or by enrolling again.
THEOREM DeregisteredForGood == Spec => DeregisteredStays
<1>1. TypeOK /\ [Next]_vars =>
        [\A a \in Aid : agents[a].status = "deregistered" =>
           \/ agents'[a] = agents[a]
           \/ agents'[a] = NoRow
           \/ activations'[a] > activations[a]]_vars
  BY DeregisteredNext
<1> QED BY <1>1, TypeCorrect, PTL DEF Spec, DeregisteredStays

-----------------------------------------------------------------------------
(* Registrar: each step of Enrollment is one of its steps, or a stutter.   *)

LEMMA UnknownIsNoRow == Registry!Unknown = NoRow
BY DEF Registry!Unknown, NoRow

LEMMA RegistrarInit == Init => Registry!Init
<1> SUFFICES ASSUME Init PROVE Registry!Init
  OBVIOUS
<1>1. agents \in [Aid -> Row]
  BY DEF Init
<1>2. ASSUME NEW a \in Aid, agents[a] # NoRow
      PROVE  /\ agents[a] \in [status : {"active"}, manifest : Manifest \ Supported]
             /\ ManifestAid[agents[a].manifest] = a
  <2>1. agents[a] \in [status : {"active", "expired", "deregistered"}, manifest : Manifest]
    BY <1>1, <1>2 DEF Row
  <2>2. agents[a].status = "active" /\ agents[a].manifest \in PreCutover(a)
    BY <1>2 DEF Init
  <2> QED BY <2>1, <2>2 DEF PreCutover
<1> QED BY <1>1, <1>2, UnknownIsNoRow DEF Init, Registry!Init

\* Enroll verifies only supported manifests.
LEMMA EnrollIsIssue ==
  ASSUME NEW j \in Jti, NEW m \in Manifest, Enroll(j, m)
  PROVE  Registry!Next
<1>1. Registry!Issue(j, m)
  BY DEF Enroll, Seconds, registry, Registry!Issue
<1> QED BY <1>1 DEF Enroll, Registry!Next

\* What is committed is what the token was signed for, and nobody had spent it.
LEMMA CommitIsEnrol ==
  ASSUME TokenInv, NEW r \in Request, Commit(r)
  PROVE  Registry!Next
<1> DEFINE j == requests[r].jti
<1>1. requests[r] # Idle /\ requests[r].at = "upsert"
  BY DEF Commit, Idle
<1>2. j \in Jti
  BY <1>1, RequestAt DEF TokenInv
<1>3. tokens[j] # None /\ tokens[j].manifest = requests[r].manifest
  BY <1>1 DEF TokenInv, Signed
<1>4. j \notin spent
  BY <1>1 DEF TokenInv, Unspent
<1>5. Registry!Enrol(j)
  BY <1>3, <1>4 DEF Commit, Registry!Enrol
<1> QED BY <1>2, <1>5 DEF Registry!Next

LEMMA DeregisterIsItself ==
  ASSUME NEW a \in Aid, Deregister(a)
  PROVE  Registry!Next
<1>1. Registry!Deregister(a)
  BY UnknownIsNoRow DEF Deregister, Registry!Deregister
<1> QED BY <1>1 DEF Registry!Next

\* Either sweep takes only what is active and outdated when its UPDATE runs.
LEMMA SweepIsRetire ==
  ASSUME NEW s \in Sweeper, SweepExpired(s) \/ SweepUnsupported(s)
  PROVE  Registry!Next
<1>1. PICK rows \in SUBSET Aid, at \in {"expired", "unsupported"} :
        Retire(s, at, rows) /\ rows \in {Expired, Unsupported}
  BY DEF SweepExpired, SweepUnsupported, Expired, Unsupported
<1>2. \A a \in rows : /\ agents[a].status = "active"
                      /\ Registry!Outdated(agents[a].manifest)
  BY <1>1 DEF Expired, Unsupported, Registry!Outdated
<1>3. Registry!Retire(rows)
  BY <1>1, <1>2 DEF Retire, Registry!Retire
<1> QED BY <1>3 DEF Registry!Next

LEMMA RetentionIsForget ==
  ASSUME NEW js \in SUBSET Jti, NEW as \in SUBSET Aid, RetentionSweep(js, as)
  PROVE  Registry!Next
<1>1. js \in SUBSET spent
  BY DEF RetentionSweep
<1>2. \A j \in js : 2 * tokens[j].exp < clock
  BY DEF RetentionSweep, Ticks
<1>3. \A a \in as : agents[a].status = "deregistered"
  BY DEF RetentionSweep
<1>4. Registry!Forget(js, as)
  BY <1>2, <1>3, UnknownIsNoRow DEF RetentionSweep, Registry!Forget
<1> QED BY <1>1, <1>4 DEF Registry!Next

LEMMA RegistrarStep ==
  TokenInv /\ [Next]_vars => Registry!Next \/ UNCHANGED Registry!vars
<1> SUFFICES ASSUME TokenInv, [Next]_vars
             PROVE  Registry!Next \/ UNCHANGED Registry!vars
  OBVIOUS
<1>1. CASE UNCHANGED vars
  BY <1>1 DEF vars, Registry!vars
<1>2. ASSUME NEW j \in Jti, NEW m \in Manifest, Enroll(j, m)
      PROVE  Registry!Next
  BY <1>2, EnrollIsIssue
<1>3. ASSUME NEW r \in Request, Commit(r)
      PROVE  Registry!Next
  BY <1>3, CommitIsEnrol
<1>4. ASSUME NEW r \in Request, NEW j \in Jti, NEW m \in Manifest, Register(r, j, m)
      PROVE  UNCHANGED Registry!vars
  BY <1>4 DEF Register, registry, Registry!vars
<1>5. ASSUME NEW r \in Request, Consume(r) \/ Fail(r)
      PROVE  UNCHANGED Registry!vars
  BY <1>5 DEF Consume, Fail, registry, Registry!vars
<1>6. ASSUME NEW a \in Aid, Deregister(a)
      PROVE  Registry!Next
  BY <1>6, DeregisterIsItself
<1>7. ASSUME NEW s \in Sweeper, SweepExpired(s) \/ SweepUnsupported(s)
      PROVE  Registry!Next
  BY <1>7, SweepIsRetire
<1>8. ASSUME NEW s \in Sweeper,
             FinishSweep(s) \/ CrashSweep(s) \/ \E a \in Aid : EmitExpired(s, a)
      PROVE  UNCHANGED Registry!vars
  BY <1>8 DEF FinishSweep, CrashSweep, EmitExpired, registry, Registry!vars
<1>9. ASSUME NEW js \in SUBSET Jti, NEW as \in SUBSET Aid, RetentionSweep(js, as)
      PROVE  Registry!Next
  BY <1>9, RetentionIsForget
<1>10. CASE Tick
  BY <1>10 DEF Tick, registry, Registry!Tick, Registry!Next
<1> QED BY <1>1, <1>2, <1>3, <1>4, <1>5, <1>6, <1>7, <1>8, <1>9, <1>10 DEF Next

\* Requests that race for a token, die with their transaction half done, and are
\* swept and deleted meanwhile are, to the registry's readers, single steps that
\* spend a token and store what it was signed for, or nothing at all.
THEOREM EnrollmentImplementsRegistrar == Spec => ImplementsRegistrar
<1>1. Spec => []TokenInv
  BY TokenInit, TokenNext, PTL DEF Spec
<1> QED BY <1>1, RegistrarInit, RegistrarStep, PTL
        DEF Spec, ImplementsRegistrar, Registry!Spec
=============================================================================
