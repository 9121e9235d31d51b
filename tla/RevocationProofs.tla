-------------------------- MODULE RevocationProofs --------------------------
(***************************************************************************)
(* Theorems about Revocation, for any tokens, delegation graph, issuers    *)
(* and number of concurrent requests.                                      *)
(*                                                                         *)
(* EntriesAreProjected speaks of entries whose POST is through.  What      *)
(* carries it there is what a POST knows on its way: its entry is stored,  *)
(* so no later report can be inserted as active; a token that is active    *)
(* after its UPDATE was hit by it; an active child after its cascade was   *)
(* found by it.                                                            *)
(***************************************************************************)
EXTENDS Revocation, TLAPS

-----------------------------------------------------------------------------
(* Types.                                                                  *)

LEMMA WhereWorkIs ==
  ASSUME TypeOK, NEW w \in Worker
  PROVE  /\ work[w] \in {Idle} \cup Asking \cup Relaying \cup Reporting
         /\ work[w] \in {Idle} => work[w].at = "idle"
         /\ work[w] \in Asking => work[w].at = "lookupEntry"
         /\ work[w] \in Relaying =>
              work[w].at \in {"insert", "ingest", "update", "cascade", "commit", "answer"}
         /\ work[w] \in Reporting => work[w].at \in {"update", "cascade", "commit"}
<1>1. work[w] \in {Idle} \cup Asking \cup Relaying \cup Reporting
  BY DEF TypeOK, Work
<1>2. work[w] \in {Idle} => work[w].at = "idle"
  BY DEF Idle
<1>3. work[w] \in Asking => work[w].at = "lookupEntry"
  BY DEF Asking
<1>4. work[w] \in Relaying =>
        work[w].at \in {"insert", "ingest", "update", "cascade", "commit", "answer"}
  BY DEF Relaying
<1>5. work[w] \in Reporting => work[w].at \in {"update", "cascade", "commit"}
  BY DEF Reporting
<1> QED BY <1>1, <1>2, <1>3, <1>4, <1>5

LEMMA AskingAt ==
  ASSUME TypeOK, NEW w \in Worker, work[w].at = "lookupEntry"
  PROVE  work[w] \in Asking
BY WhereWorkIs

LEMMA RelayingAt ==
  ASSUME TypeOK, NEW w \in Worker, work[w].at \in {"insert", "ingest", "answer"}
  PROVE  work[w] \in Relaying
BY WhereWorkIs

LEMMA ProjectingAt ==
  ASSUME TypeOK, NEW w \in Worker,
         work[w].at \in {"update", "cascade", "commit"}
  PROVE  work[w] \in Relaying \cup Reporting
BY WhereWorkIs

LEMMA GotoType ==
  ASSUME TypeOK, NEW w \in Worker,
         NEW step \in {"insert", "ingest", "update", "cascade", "commit", "answer"},
         work[w] \in Relaying, Goto(w, step)
  PROVE  work' \in [Worker -> Work]
<1>1. [work[w] EXCEPT !.at = step] \in Relaying
  BY DEF Relaying
<1> QED BY <1>1 DEF Goto, TypeOK, Work

LEMMA FinishType ==
  ASSUME TypeOK, NEW w \in Worker, Finish(w)
  PROVE  work' \in [Worker -> Work]
BY DEF Finish, TypeOK, Work

LEMMA LeaveType ==
  ASSUME TypeOK, NEW w \in Worker,
         work[w].at \in {"update", "cascade", "commit"}, Leave(w)
  PROVE  work' \in [Worker -> Work]
<1>1. CASE work[w].post
  <2>1. work[w] \in Relaying
    BY <1>1, ProjectingAt DEF Reporting
  <2> QED BY <1>1, <2>1, GotoType DEF Leave
<1>2. CASE ~work[w].post
  BY <1>2, FinishType DEF Leave
<1> QED BY <1>1, <1>2

LEMMA TypeInit == Init => TypeOK
BY RevocationAssumption DEF Init, TypeOK, Jti, Work

LEMMA TypeNext == TypeOK /\ [Next]_vars => TypeOK'
<1> SUFFICES ASSUME TypeOK, [Next]_vars
             PROVE  TypeOK'
  OBVIOUS
<1> USE DEF tables
<1>1. CASE UNCHANGED vars
  BY <1>1 DEF TypeOK, vars
<1>2. ASSUME NEW t \in Tct, NEW iss \in Issuer \cup {None}, IssueTct(t, iss)
      PROVE  TypeOK'
  BY <1>2 DEF IssueTct, TypeOK, Jti
<1>3. ASSUME NEW d \in Dlg, IssueDelegation(d)
      PROVE  TypeOK'
  BY <1>3 DEF IssueDelegation, TypeOK, Jti
<1>4. ASSUME work' \in [Worker -> Work], UNCHANGED <<tables, lost>>
      PROVE  TypeOK'
  BY <1>4 DEF TypeOK
<1>5. ASSUME NEW w \in Worker, NEW kind \in {"tct", "delegation"},
             NEW j \in Jti, ReceiveRevocation(w, kind, j)
      PROVE  TypeOK'
  <2> DEFINE new == [at |-> "update", post |-> FALSE, kind |-> kind, jti |-> j,
                     iss |-> None, projected |-> None, hit |-> FALSE, found |-> {}]
  <2>1. new \in Work
    BY DEF Work, Reporting
  <2>2. work' = [work EXCEPT ![w] = new]
    BY <1>5 DEF ReceiveRevocation
  <2> HIDE DEF new
  <2> QED BY <1>4, <1>5, <2>1, <2>2 DEF ReceiveRevocation, TypeOK
<1>6. ASSUME NEW w \in Worker, NEW t \in Tct, NEW iss \in Issuer \cup {None},
             LookUpTct(w, t, iss)
      PROVE  TypeOK'
  <2> DEFINE new == [at |-> "lookupEntry", post |-> TRUE, kind |-> "tct",
                     jti |-> t, iss |-> iss, projected |-> tctIss[t],
                     hit |-> FALSE, found |-> {}]
  <2>1. new \in Work
    BY DEF Work, Asking, TypeOK
  <2>2. work' = [work EXCEPT ![w] = new]
    BY <1>6 DEF LookUpTct
  <2> HIDE DEF new
  <2> QED BY <1>4, <1>6, <2>1, <2>2 DEF LookUpTct, TypeOK
<1>7. ASSUME NEW w \in Worker, LookUpEntry(w)
      PROVE  TypeOK'
  <2>1. work[w] \in Asking
    BY <1>7, AskingAt DEF LookUpEntry, At
  <2>2. CASE Finish(w)
    BY <1>4, <1>7, <2>2, FinishType DEF LookUpEntry
  <2>3. ASSUME NEW iss \in Named(w),
               work' = [work EXCEPT ![w] = [@ EXCEPT !.at = "insert", !.iss = iss]]
        PROVE  TypeOK'
    <3>1. iss \in Issuer
      BY <2>1, <2>3 DEF Named, Known, TypeOK, Asking
    <3>2. [work[w] EXCEPT !.at = "insert", !.iss = iss] \in Relaying
      BY <2>1, <3>1 DEF Asking, Relaying
    <3> QED BY <1>4, <1>7, <2>3, <3>2 DEF LookUpEntry, TypeOK, Work
  <2> QED BY <1>7, <2>2, <2>3 DEF LookUpEntry
<1>8. ASSUME NEW w \in Worker, Insert(w)
      PROVE  TypeOK'
  <2>1. work[w] \in Relaying
    BY <1>8, RelayingAt DEF Insert, At
  <2>2. work' \in [Worker -> Work]
    BY <1>8, <2>1, GotoType DEF Insert
  <2>3. work[w].jti \in Tct /\ IssAfterUpsert(w) \in Issuer \cup {None}
    BY <2>1 DEF Relaying, IssAfterUpsert, TypeOK
  <2> QED BY <1>8, <2>2, <2>3 DEF Insert, TypeOK
<1>9. ASSUME NEW w \in Worker, IngestEvent(w)
      PROVE  TypeOK'
  BY <1>4, <1>9, RelayingAt, GotoType DEF IngestEvent, At
<1>10. ASSUME NEW w \in Worker, Update(w)
       PROVE  TypeOK'
  <2> DEFINE new == [work[w] EXCEPT !.at = "cascade", !.hit = Hits(w)]
  <2>1. work[w] \in Relaying \cup Reporting
    BY <1>10, ProjectingAt DEF Update, At
  <2>2. Hits(w) \in BOOLEAN
    BY DEF Hits
  <2>3. new \in Work
    BY <2>1, <2>2 DEF Relaying, Reporting, Work
  <2>4. work' = [work EXCEPT ![w] = new]
    BY <1>10 DEF Update
  <2> HIDE DEF new
  <2> QED BY <1>4, <1>10, <2>3, <2>4 DEF Update, TypeOK
<1>11. ASSUME NEW w \in Worker, Cascade(w)
       PROVE  TypeOK'
  <2> DEFINE found == {d \in Descendants(work[w].jti) : status[d] = "active"}
             new == [work[w] EXCEPT !.at = "commit", !.found = found]
  <2>1. work[w] \in Relaying \cup Reporting
    BY <1>11, ProjectingAt DEF Cascade, At
  <2>2. found \in SUBSET Dlg
    BY DEF Descendants
  <2>3. work' = [work EXCEPT ![w] = new]
    BY <1>11 DEF Cascade
  <2> HIDE DEF found
  <2>4. new \in Work
    BY <2>1, <2>2 DEF Relaying, Reporting, Work
  <2> HIDE DEF new
  <2> QED BY <1>4, <1>11, <2>3, <2>4 DEF Cascade, TypeOK
<1>12. ASSUME NEW w \in Worker, Commit(w)
       PROVE  TypeOK'
  <2>1. work' \in [Worker -> Work]
    BY <1>12, LeaveType DEF Commit, At
  <2>2. status' \in [Jti -> {"none", "active", "revoked"}]
    BY <1>12 DEF Commit, TypeOK
  <2> QED BY <1>12, <2>1, <2>2 DEF Commit, TypeOK
<1>13. ASSUME NEW w \in Worker, Answer(w)
       PROVE  TypeOK'
  <2>1. work[w] \in Relaying
    BY <1>13, RelayingAt DEF Answer, At
  <2>2. <<work[w].jti, work[w].iss>> \in Jti \X Issuer
    BY <2>1 DEF Relaying, Jti
  <2> QED BY <1>13, <2>2, FinishType DEF Answer, TypeOK
<1>14. ASSUME NEW w \in Worker, Fail(w)
       PROVE  TypeOK'
  <2>1. work' \in [Worker -> Work]
    BY <1>14, LeaveType, FinishType DEF Fail
  <2>2. lost' \subseteq Jti
    <3>1. CASE work[w].at \in {"ingest", "update", "cascade", "commit"}
      <4>1. work[w].jti \in Jti
        BY <3>1, RelayingAt, ProjectingAt DEF Relaying, Reporting, Jti
      <4> QED BY <1>14, <4>1 DEF Fail, TypeOK
    <3>2. CASE work[w].at \notin {"ingest", "update", "cascade", "commit"}
      BY <1>14, <3>2 DEF Fail, TypeOK
    <3> QED BY <3>1, <3>2
  <2> QED BY <1>14, <2>1, <2>2 DEF Fail, TypeOK
<1> QED BY <1>1, <1>2, <1>3, <1>5, <1>6, <1>7, <1>8, <1>9, <1>10, <1>11,
           <1>12, <1>13, <1>14 DEF Next

\* Whatever is reported, posted or fails, every row and every request has its
\* type; in particular a request answers 201 only for an issuer it has named.
THEOREM TypeCorrect == Spec => []TypeOK
<1> QED BY TypeInit, TypeNext, PTL DEF Spec

-----------------------------------------------------------------------------
(* The relay's entries reach the projection.                               *)

\* A POST between its entry and the end of its projection.
Projecting(w) ==
  /\ work[w].at \in {"ingest", "update", "cascade", "commit"}
  /\ work[w].post

Stored == \A w \in Worker : Projecting(w) => work[w].jti \in entries

HitOrGone ==
  \A w \in Worker :
    Projecting(w) /\ work[w].at \in {"cascade", "commit"} =>
      (status[work[w].jti] = "active" => work[w].hit)

FoundOrGone ==
  \A w \in Worker :
    Projecting(w) /\ work[w].at = "commit" =>
      \A d \in Dlg : Parent[d] = work[w].jti /\ status[d] = "active"
                       => d \in work[w].found

RelayInv == TypeOK /\ Stored /\ HitOrGone /\ FoundOrGone /\ EntriesAreProjected

LEMMA ProjectingTct ==
  ASSUME TypeOK, NEW w \in Worker, Projecting(w)
  PROVE  work[w] \in Relaying /\ work[w].jti \in Tct /\ work[w].kind = "tct"
<1>1. work[w] \in Relaying
  BY WhereWorkIs DEF Projecting, Reporting
<1> QED BY <1>1 DEF Relaying

\* A request stops projecting, or was not and does not start: nothing becomes
\* active, and the entry it was at is lost or projected.
LEMMA LeavingSteps ==
  ASSUME RelayInv, TypeOK', NEW w \in Worker, NEW new,
         work' = [work EXCEPT ![w] = new],
         new.at \in {"ingest", "update", "cascade", "commit"} => ~new.post,
         entries' = entries,
         lost \subseteq lost',
         \A j \in Jti : status'[j] = "active" => status[j] = "active",
         Projecting(w) /\ work[w].jti \notin lost' =>
           /\ status'[work[w].jti] # "active"
           /\ \A d \in Dlg : Parent[d] = work[w].jti => status'[d] # "active"
  PROVE  RelayInv'
<1>1. \A v \in Worker : v # w => work'[v] = work[v]
  BY DEF RelayInv, TypeOK
<1>2. work'[w] = new
  BY DEF RelayInv, TypeOK
<1>3. ~Projecting(w)'
  BY <1>2 DEF Projecting
<1>4. \A v \in Worker : Projecting(v)' => v # w /\ Projecting(v) /\ work'[v] = work[v]
  BY <1>1, <1>3 DEF Projecting
<1>5. \A v \in Worker : Projecting(v) => work[v].jti \in Jti
  BY ProjectingTct DEF RelayInv, Jti
<1>6. Stored'
  BY <1>4 DEF RelayInv, Stored
<1>7. HitOrGone'
  BY <1>4, <1>5 DEF RelayInv, HitOrGone
<1>8. FoundOrGone'
  BY <1>4 DEF RelayInv, FoundOrGone, Jti
<1>9. ASSUME NEW t \in entries \ lost', ~InFlight(t)',
             ~(Projecting(w) /\ work[w].jti = t)
      PROVE  ~InFlight(t)
  <2>1. SUFFICES ASSUME NEW v \in Worker, Projecting(v), work[v].jti = t
                 PROVE  FALSE
    BY DEF InFlight, Projecting
  <2>2. v # w
    BY <1>9, <2>1
  <2>3. work'[v] = work[v]
    BY <1>1, <2>2
  <2> QED BY <1>9, <2>1, <2>3 DEF InFlight, Projecting
<1>10. EntriesAreProjected'
  <2> SUFFICES ASSUME NEW t \in entries \ lost', ~InFlight(t)'
               PROVE  /\ status'[t] # "active"
                      /\ \A d \in Dlg : Parent[d] = t => status'[d] # "active"
    BY DEF EntriesAreProjected
  <2>1. CASE Projecting(w) /\ work[w].jti = t
    BY <2>1
  <2>2. CASE ~(Projecting(w) /\ work[w].jti = t)
    <3>1. ~InFlight(t) /\ t \in Jti
      BY <1>9, <2>2 DEF RelayInv, TypeOK, Jti
    <3> QED BY <3>1 DEF RelayInv, EntriesAreProjected, Jti
  <2> QED BY <2>1, <2>2
<1> QED BY <1>6, <1>7, <1>8, <1>10 DEF RelayInv

\* A step of a request that is not projecting an entry, before or after.
LEMMA OtherSteps ==
  ASSUME RelayInv, NEW w \in Worker, NEW new,
         work' = [work EXCEPT ![w] = new],
         new.at \in {"ingest", "update", "cascade", "commit"} => ~new.post,
         ~Projecting(w), TypeOK',
         UNCHANGED <<status, entries, lost>>
  PROVE  RelayInv'
BY LeavingSteps

\* A request stores an entry, or goes on projecting the one it stored.
LEMMA ProjectingSteps ==
  ASSUME RelayInv, TypeOK', NEW w \in Worker, NEW new,
         work' = [work EXCEPT ![w] = new],
         new.at \in {"ingest", "update", "cascade", "commit"}, new.post,
         new.jti = work[w].jti,
         entries' = entries \cup {new.jti},
         new.at \in {"cascade", "commit"} =>
           (status[new.jti] = "active" => new.hit),
         new.at = "commit" =>
           \A d \in Dlg : Parent[d] = new.jti /\ status[d] = "active" => d \in new.found,
         UNCHANGED <<status, lost>>
  PROVE  RelayInv'
<1>1. \A v \in Worker : v # w => work'[v] = work[v]
  BY DEF RelayInv, TypeOK
<1>2. work'[w] = new
  BY DEF RelayInv, TypeOK
<1>3. \A v \in Worker : v # w => (Projecting(v)' <=> Projecting(v))
  BY <1>1 DEF Projecting
<1>4. Projecting(w)'
  BY <1>2 DEF Projecting
<1>5. Stored'
  BY <1>1, <1>2, <1>3 DEF RelayInv, Stored
<1>6. HitOrGone'
  BY <1>1, <1>2, <1>3 DEF RelayInv, HitOrGone
<1>7. FoundOrGone'
  BY <1>1, <1>2, <1>3 DEF RelayInv, FoundOrGone
<1>8. EntriesAreProjected'
  <2> SUFFICES ASSUME NEW t \in entries' \ lost, ~InFlight(t)'
               PROVE  /\ status[t] # "active"
                      /\ \A d \in Dlg : Parent[d] = t => status[d] # "active"
    BY DEF EntriesAreProjected
  <2>1. t # new.jti
    BY <1>2, <1>4 DEF InFlight, Projecting
  <2>2. \A v \in Worker : ~(Projecting(v) /\ work[v].jti = t)
    BY <1>1, <1>3, <2>1 DEF InFlight, Projecting
  <2>3. ~InFlight(t) /\ t \in entries
    BY <2>1, <2>2 DEF InFlight, Projecting
  <2> QED BY <2>3 DEF RelayInv, EntriesAreProjected
<1> QED BY <1>5, <1>6, <1>7, <1>8 DEF RelayInv

\* A step that leaves the requests alone and makes nothing active that has an
\* entry, or whose parent has one.
LEMMA Reports ==
  ASSUME RelayInv, TypeOK', UNCHANGED <<entries, work, lost>>,
         \A j \in Jti : status'[j] = "active" /\ status[j] # "active" =>
           j \notin entries /\ (j \in Dlg => Parent[j] \notin entries)
  PROVE  RelayInv'
<1>1. \A w \in Worker : Projecting(w)' <=> Projecting(w)
  BY DEF Projecting
<1>2. \A w \in Worker : Projecting(w) => work[w].jti \in entries /\ work[w].jti \in Jti
  BY ProjectingTct DEF RelayInv, Stored, Jti
<1>3. Stored' /\ HitOrGone'
  BY <1>1, <1>2 DEF RelayInv, Stored, HitOrGone
<1>4. FoundOrGone'
  BY <1>1, <1>2 DEF RelayInv, FoundOrGone, Jti
<1>5. \A j : InFlight(j)' <=> InFlight(j)
  BY DEF InFlight
<1>6. \A t \in entries : t \in Jti
  BY DEF RelayInv, TypeOK, Jti
<1>7. EntriesAreProjected'
  BY <1>5, <1>6 DEF RelayInv, EntriesAreProjected, Jti
<1> QED BY <1>3, <1>4, <1>7 DEF RelayInv

LEMMA RelayInit == Init => RelayInv
<1> SUFFICES ASSUME Init PROVE RelayInv
  OBVIOUS
<1>1. \A w \in Worker : ~Projecting(w)
  BY DEF Init, Idle, Projecting
<1>2. EntriesAreProjected
  BY RevocationAssumption DEF Init, EntriesAreProjected, Jti
<1> QED BY <1>1, <1>2, TypeInit DEF RelayInv, Stored, HitOrGone, FoundOrGone

LEMMA RelayNext == RelayInv /\ [Next]_vars => RelayInv'
<1> SUFFICES ASSUME RelayInv, [Next]_vars
             PROVE  RelayInv'
  OBVIOUS
<1> USE DEF tables
<1>1. TypeOK /\ TypeOK'
  BY TypeNext DEF RelayInv
<1>2. CASE UNCHANGED vars
  BY <1>1, <1>2, Reports DEF vars
<1>3. ASSUME NEW t \in Tct, NEW iss \in Issuer \cup {None}, IssueTct(t, iss)
      PROVE  RelayInv'
  <2>1. \A j \in Jti : status'[j] = "active" /\ status[j] # "active" =>
          j = t /\ t \notin entries
    BY <1>1, <1>3 DEF IssueTct, TypeOK
  <2>2. t \notin Dlg
    BY RevocationAssumption
  <2> QED BY <1>1, <1>3, <2>1, <2>2, Reports DEF IssueTct
<1>4. ASSUME NEW d \in Dlg, IssueDelegation(d)
      PROVE  RelayInv'
  <2>1. \A j \in Jti : status'[j] = "active" /\ status[j] # "active" =>
          j = d /\ Parent[d] \notin entries
    BY <1>1, <1>4 DEF IssueDelegation, TypeOK, ParentRevoked
  <2>2. d \notin entries
    BY <1>1, RevocationAssumption DEF TypeOK
  <2> QED BY <1>1, <1>4, <2>1, <2>2, Reports DEF IssueDelegation
<1>5. ASSUME NEW w \in Worker, NEW kind \in {"tct", "delegation"},
             NEW j \in Jti, ReceiveRevocation(w, kind, j)
      PROVE  RelayInv'
  <2> DEFINE new == [at |-> "update", post |-> FALSE, kind |-> kind, jti |-> j,
                     iss |-> None, projected |-> None, hit |-> FALSE, found |-> {}]
  <2>1. work' = [work EXCEPT ![w] = new] /\ ~new.post
    BY <1>5 DEF ReceiveRevocation
  <2>2. ~Projecting(w) /\ UNCHANGED <<status, entries, lost>>
    BY <1>5 DEF ReceiveRevocation, At, Projecting
  <2> HIDE DEF new
  <2> QED BY <1>1, <2>1, <2>2, OtherSteps
<1>6. ASSUME NEW w \in Worker, NEW t \in Tct, NEW iss \in Issuer \cup {None},
             LookUpTct(w, t, iss)
      PROVE  RelayInv'
  <2> DEFINE new == [at |-> "lookupEntry", post |-> TRUE, kind |-> "tct",
                     jti |-> t, iss |-> iss, projected |-> tctIss[t],
                     hit |-> FALSE, found |-> {}]
  <2>1. work' = [work EXCEPT ![w] = new] /\ new.at = "lookupEntry"
    BY <1>6 DEF LookUpTct
  <2>2. ~Projecting(w) /\ UNCHANGED <<status, entries, lost>>
    BY <1>6 DEF LookUpTct, At, Projecting
  <2> HIDE DEF new
  <2> QED BY <1>1, <2>1, <2>2, OtherSteps
<1>7. ASSUME NEW w \in Worker, ~Projecting(w), Finish(w),
             UNCHANGED <<status, entries, lost>>
      PROVE  RelayInv'
  <2>1. Idle.at = "idle"
    BY DEF Idle
  <2> QED BY <1>1, <1>7, <2>1, OtherSteps DEF Finish
<1>8. ASSUME NEW w \in Worker, LookUpEntry(w)
      PROVE  RelayInv'
  <2>1. ~Projecting(w) /\ UNCHANGED <<status, entries, lost>>
    BY <1>8 DEF LookUpEntry, At, Projecting
  <2>2. ASSUME NEW iss,
               work' = [work EXCEPT ![w] = [@ EXCEPT !.at = "insert", !.iss = iss]]
        PROVE  RelayInv'
    <3> DEFINE new == [work[w] EXCEPT !.at = "insert", !.iss = iss]
    <3>1. new.at = "insert"
      BY <1>1, <1>8, AskingAt DEF LookUpEntry, At, Asking
    <3>2. work' = [work EXCEPT ![w] = new]
      BY <2>2
    <3> HIDE DEF new
    <3> QED BY <1>1, <2>1, <3>1, <3>2, OtherSteps
  <2> QED BY <1>7, <1>8, <2>1, <2>2 DEF LookUpEntry
<1>9. ASSUME NEW w \in Worker, Answer(w)
      PROVE  RelayInv'
  BY <1>7, <1>9 DEF Answer, At, Projecting
<1>10. ASSUME NEW w \in Worker, Insert(w)
       PROVE  RelayInv'
  <2> DEFINE new == [work[w] EXCEPT !.at = "ingest"]
  <2>1. work[w] \in Relaying
    BY <1>1, <1>10, RelayingAt DEF Insert, At
  <2>2. new.at = "ingest" /\ new.post /\ new.jti = work[w].jti
    BY <2>1 DEF Relaying
  <2>3. work' = [work EXCEPT ![w] = new] /\ entries' = entries \cup {new.jti}
    BY <1>10, <2>2 DEF Insert, Goto
  <2>4. UNCHANGED <<status, lost>>
    BY <1>10 DEF Insert
  <2> HIDE DEF new
  <2> QED BY <1>1, <2>2, <2>3, <2>4, ProjectingSteps
<1>11. ASSUME NEW w \in Worker, IngestEvent(w)
       PROVE  RelayInv'
  <2> DEFINE new == [work[w] EXCEPT !.at = "update"]
  <2>1. work[w] \in Relaying
    BY <1>1, <1>11, RelayingAt DEF IngestEvent, At
  <2>2. new.at = "update" /\ new.post /\ new.jti = work[w].jti
    BY <2>1 DEF Relaying
  <2>3. work[w].jti \in entries
    BY <1>11, <2>1 DEF RelayInv, Stored, Projecting, IngestEvent, At, Relaying
  <2>4. work' = [work EXCEPT ![w] = new] /\ entries' = entries \cup {new.jti}
    BY <1>11, <2>2, <2>3 DEF IngestEvent, Goto
  <2>5. UNCHANGED <<status, lost>>
    BY <1>11 DEF IngestEvent
  <2> HIDE DEF new
  <2> QED BY <1>1, <2>2, <2>4, <2>5, ProjectingSteps
<1>12. ASSUME NEW w \in Worker, Update(w)
       PROVE  RelayInv'
  <2> DEFINE new == [work[w] EXCEPT !.at = "cascade", !.hit = Hits(w)]
  <2>1. work[w] \in Relaying \cup Reporting
    BY <1>1, <1>12, ProjectingAt DEF Update, At
  <2>2. /\ new.at = "cascade" /\ new.post = work[w].post
        /\ new.jti = work[w].jti /\ new.hit = Hits(w)
    BY <2>1 DEF Relaying, Reporting
  <2>3. work' = [work EXCEPT ![w] = new] /\ UNCHANGED <<status, entries, lost>>
    BY <1>12 DEF Update
  <2> HIDE DEF new
  <2>4. CASE work[w].post
    <3>1. Projecting(w)
      BY <1>12, <2>4 DEF Update, At, Projecting
    <3>2. work[w].jti \in entries /\ work[w].jti \in Table(work[w].kind)
      BY <1>1, <3>1, ProjectingTct DEF RelayInv, Stored, Table
    <3>3. status[new.jti] = "active" => new.hit
      BY <2>2, <3>2 DEF Hits
    <3> QED BY <1>1, <2>2, <2>3, <2>4, <3>2, <3>3, ProjectingSteps
  <2>5. CASE ~work[w].post
    BY <1>1, <2>2, <2>3, <2>5, OtherSteps DEF Projecting
  <2> QED BY <2>4, <2>5
<1>13. ASSUME NEW w \in Worker, Cascade(w)
       PROVE  RelayInv'
  <2> DEFINE found == {d \in Descendants(work[w].jti) : status[d] = "active"}
             new == [work[w] EXCEPT !.at = "commit", !.found = found]
  <2>1. work[w] \in Relaying \cup Reporting
    BY <1>1, <1>13, ProjectingAt DEF Cascade, At
  <2>2. \A d \in Dlg : Parent[d] = work[w].jti /\ status[d] = "active" => d \in found
    BY DEF Descendants, HoldsChildren
  <2>3. work' = [work EXCEPT ![w] = new] /\ UNCHANGED <<status, entries, lost>>
    BY <1>13 DEF Cascade
  <2> HIDE DEF found
  <2>4. /\ new.at = "commit" /\ new.post = work[w].post /\ new.jti = work[w].jti
        /\ new.hit = work[w].hit /\ new.found = found
    BY <2>1 DEF Relaying, Reporting
  <2> HIDE DEF new
  <2>5. CASE work[w].post
    <3>1. Projecting(w)
      BY <1>13, <2>5 DEF Cascade, At, Projecting
    <3>2. work[w].jti \in entries
      BY <3>1 DEF RelayInv, Stored
    <3>3. status[new.jti] = "active" => new.hit
      BY <1>13, <2>4, <3>1 DEF RelayInv, HitOrGone, Cascade, At
    <3> QED BY <1>1, <2>2, <2>3, <2>4, <2>5, <3>2, <3>3, ProjectingSteps
  <2>6. CASE ~work[w].post
    BY <1>1, <2>3, <2>4, <2>6, OtherSteps DEF Projecting
  <2> QED BY <2>5, <2>6
<1>14. ASSUME NEW w \in Worker, work[w].at \in {"update", "cascade", "commit"},
              Leave(w)
       PROVE  \E new : /\ work' = [work EXCEPT ![w] = new]
                       /\ new.at \in {"idle", "answer"}
  <2>1. CASE work[w].post
    <3> DEFINE new == [work[w] EXCEPT !.at = "answer"]
    <3>1. new.at = "answer"
      BY <1>1, <1>14, ProjectingAt DEF Relaying, Reporting
    <3>2. work' = [work EXCEPT ![w] = new]
      BY <1>14, <2>1 DEF Leave, Goto
    <3> HIDE DEF new
    <3> QED BY <3>1, <3>2
  <2>2. CASE ~work[w].post
    <3>1. Idle.at = "idle"
      BY DEF Idle
    <3>2. work' = [work EXCEPT ![w] = Idle]
      BY <1>14, <2>2 DEF Leave, Finish
    <3> QED BY <3>1, <3>2
  <2> QED BY <2>1, <2>2
<1>15. ASSUME NEW w \in Worker, Commit(w)
       PROVE  RelayInv'
  <2>1. PICK new : work' = [work EXCEPT ![w] = new] /\ new.at \in {"idle", "answer"}
    BY <1>14, <1>15 DEF Commit, At
  <2>2. \A j \in Jti : /\ status'[j] = "active" => status[j] = "active"
                       /\ j \in Changed(w) => status'[j] = "revoked"
    BY <1>15 DEF Commit
  <2>3. ASSUME Projecting(w)
        PROVE  /\ status'[work[w].jti] # "active"
               /\ \A d \in Dlg : Parent[d] = work[w].jti => status'[d] # "active"
    <3>1. work[w].jti \in Jti
      BY <1>1, <2>3, ProjectingTct DEF Jti
    <3>2. status[work[w].jti] = "active" => work[w].jti \in Changed(w)
      BY <1>15, <2>3 DEF Commit, At, RelayInv, HitOrGone, Changed
    <3>3. \A d \in Dlg : Parent[d] = work[w].jti /\ status[d] = "active"
                           => d \in Changed(w)
      BY <1>15, <2>3 DEF Commit, At, RelayInv, FoundOrGone, Changed
    <3> QED BY <2>2, <3>1, <3>2, <3>3 DEF Jti
  <2>4. UNCHANGED <<entries, lost>>
    BY <1>15 DEF Commit
  <2> QED BY <1>1, <2>1, <2>2, <2>3, <2>4, LeavingSteps
<1>16. ASSUME NEW w \in Worker, Fail(w)
       PROVE  RelayInv'
  <2>1. PICK new : work' = [work EXCEPT ![w] = new] /\ new.at \in {"idle", "answer"}
    <3>1. CASE Finish(w)
      <4>1. Idle.at = "idle"
        BY DEF Idle
      <4> QED BY <3>1, <4>1 DEF Finish
    <3>2. CASE work[w].at \in {"update", "cascade", "commit"} /\ Leave(w)
      BY <1>14, <3>2
    <3> QED BY <1>16, <3>1, <3>2 DEF Fail
  <2>2. Projecting(w) => work[w].jti \in lost'
    BY <1>16 DEF Fail, Projecting
  <2>3. lost \subseteq lost' /\ UNCHANGED <<status, entries>>
    BY <1>16 DEF Fail
  <2> QED BY <1>1, <2>1, <2>2, <2>3, LeavingSteps
<1> QED BY <1>2, <1>3, <1>4, <1>5, <1>6, <1>8, <1>9, <1>10, <1>11, <1>12,
           <1>13, <1>15, <1>16 DEF Next

\* The relay and the projection agree: whatever order issuance, delegation and
\* revocation are reported in, by however many requests at once, a token whose
\* entry was stored by a POST that is through is not shown active, and neither
\* is a delegation made directly from it.
THEOREM EntriesProjected == Spec => []EntriesAreProjected
<1>1. RelayInv => EntriesAreProjected
  BY DEF RelayInv
<1> QED BY <1>1, RelayInit, RelayNext, PTL DEF Spec

-----------------------------------------------------------------------------
(* What a step may never do.                                               *)

LEMMA StatusNext ==
  ASSUME TypeOK, [Next]_vars, NEW j \in Jti, status[j] = "revoked"
  PROVE  status'[j] = "revoked"
<1>1. CASE UNCHANGED status
  BY <1>1
<1>2. ASSUME NEW t \in Tct, NEW iss \in Issuer \cup {None}, IssueTct(t, iss)
      PROVE  status'[j] = "revoked"
  BY <1>2 DEF IssueTct, TypeOK
<1>3. ASSUME NEW d \in Dlg, IssueDelegation(d)
      PROVE  status'[j] = "revoked"
  BY <1>3 DEF IssueDelegation, TypeOK
<1>4. ASSUME NEW w \in Worker, Commit(w)
      PROVE  status'[j] = "revoked"
  BY <1>4 DEF Commit
<1> QED BY <1>1, <1>2, <1>3, <1>4
        DEF Next, vars, tables, ReceiveRevocation, LookUpTct,
            LookUpEntry, Insert, IngestEvent, Update, Cascade, Answer, Fail

\* No late, repeated or concurrent report makes a revoked token or delegation
\* active again: the projection's inserts do nothing where a row is, and its
\* updates only ever revoke.
THEOREM RevokedForGood == Spec => RevocationIsPermanent
<1>1. TypeOK /\ [Next]_vars =>
        [\A j \in Jti : status[j] = "revoked" => status'[j] = "revoked"]_vars
  BY StatusNext
<1> QED BY <1>1, TypeCorrect, PTL DEF Spec, RevocationIsPermanent

LEMMA EntryIssNext ==
  ASSUME TypeOK, [Next]_vars, NEW t \in Tct, entryIss[t] # None
  PROVE  entryIss'[t] = entryIss[t]
<1>1. CASE UNCHANGED entryIss
  BY <1>1
<1>2. ASSUME NEW w \in Worker, Insert(w)
      PROVE  entryIss'[t] = entryIss[t]
  BY <1>2 DEF Insert, IssAfterUpsert, TypeOK
<1> QED BY <1>1, <1>2
        DEF Next, vars, tables, IssueTct, IssueDelegation, Commit,
            ReceiveRevocation, LookUpTct, LookUpEntry, IngestEvent, Update,
            Cascade, Answer, Fail

\* The issuer an entry is relayed to never changes once it is known, however
\* many POSTs for that token, naming different issuers, run at once.
THEOREM EntryIssuerFixed == Spec => EntryIssuerIsNeverChanged
<1>1. TypeOK /\ [Next]_vars =>
        [\A t \in Tct : entryIss[t] # None => entryIss'[t] = entryIss[t]]_vars
  BY EntryIssNext
<1> QED BY <1>1, TypeCorrect, PTL DEF Spec, EntryIssuerIsNeverChanged
=============================================================================
