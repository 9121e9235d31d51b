----------------------------- MODULE Revocation -----------------------------
(***************************************************************************)
(* Revocation: the projection of token events in src/src/lib/tcts/         *)
(* monitor.ts and the relay's POST /api/revocation/entries, over the       *)
(* tables issued_tcts, delegations and revocation_entries.                 *)
(*                                                                         *)
(* Isolation is read committed.  A single statement is one step; the       *)
(* transaction of a revocation is three (its UPDATE, the cascading UPDATE, *)
(* COMMIT), of which others see nothing before the last.  Events arrive in *)
(* any order, any number of times and from several requests at once.       *)
(* Claims other than a token's issuer and a delegation's parent, and the   *)
(* verification of observed tokens (which can only drop a report), are     *)
(* abstracted.                                                             *)
(***************************************************************************)
EXTENDS Naturals

CONSTANTS
  Tct,        \* jtis of TCTs
  Dlg,        \* jtis of delegations
  Parent,     \* [Dlg -> Tct \cup Dlg]: the parent a delegation claims
  Issuer,     \* issuer AIDs
  None,       \* NULL, and no row
  Legacy,     \* jtis that may have an entry of before migration 0009, with
              \* iss NULL
  Worker      \* requests running at once

ASSUME RevocationAssumption ==
  /\ Tct \cap Dlg = {}
  /\ Parent \in [Dlg -> Tct \cup Dlg]
  /\ None \notin Issuer
  /\ Legacy \subseteq Tct

VARIABLES
  status,     \* issued_tcts and delegations: "none", "active" or "revoked"
  tctIss,     \* issued_tcts.issuer_aid
  entries,    \* revocation_entries: the jtis that have a row
  entryIss,   \* revocation_entries.iss
  work,       \* what each request is doing
  lost        \* history: jtis whose POST failed after its entry was stored

vars == <<status, tctIss, entries, entryIss, work, lost>>

-----------------------------------------------------------------------------

Jti == Tct \cup Dlg

\* What a request may be doing: a POST that asks who the issuer is, a POST that
\* names it, or an event.  A transaction knows whether its UPDATE hit its own
\* row, and which rows its cascade found.
Idle == [at |-> "idle"]
Asking == [at : {"lookupEntry"}, post : {TRUE}, kind : {"tct"}, jti : Tct,
           iss : Issuer \cup {None}, projected : Issuer \cup {None},
           hit : BOOLEAN, found : SUBSET Dlg]
Relaying == [at : {"insert", "ingest", "update", "cascade", "commit", "answer"},
             post : {TRUE}, kind : {"tct"}, jti : Tct,
             iss : Issuer, projected : Issuer \cup {None},
             hit : BOOLEAN, found : SUBSET Dlg]
Reporting == [at : {"update", "cascade", "commit"},
              post : {FALSE}, kind : {"tct", "delegation"}, jti : Jti,
              iss : {None}, projected : {None},
              hit : BOOLEAN, found : SUBSET Dlg]
Work == {Idle} \cup Asking \cup Relaying \cup Reporting

At(w, step) == work[w].at = step
Goto(w, step) == work' = [work EXCEPT ![w].at = step]
Finish(w) == work' = [work EXCEPT ![w] = Idle]

tables == <<status, tctIss, entries, entryIss>>

Init ==
  /\ status = [j \in Jti |-> "none"]
  /\ tctIss = [t \in Tct |-> None]
  /\ entries \in SUBSET Legacy
  /\ entryIss = [t \in Tct |-> None]
  /\ work = [w \in Worker |-> Idle]
  /\ lost = {}

-----------------------------------------------------------------------------
(* tctMonitor.onEvent.                                                     *)

\* For the mutation runs: the INSERT overwrites on conflict.
ReissueTct(t, iss) ==
  /\ status' = [status EXCEPT ![t] = IF t \in entries
                                     THEN "revoked" ELSE "active"]
  /\ tctIss' = [tctIss EXCEPT ![t] = iss]
  /\ UNCHANGED <<entries, entryIss, work, lost>>

\* recordIssuedTcts, for one TCT of a tct.issued or handshake.complete event:
\* an INSERT that does nothing if the row is there, and looks up its entry.
\* An issuer that is not an AID counts as unknown.
IssueTct(t, iss) ==
  /\ status[t] = "none"
  /\ status' = [status EXCEPT ![t] = IF t \in entries
                                     THEN "revoked" ELSE "active"]
  /\ tctIss' = [tctIss EXCEPT ![t] = iss]
  /\ UNCHANGED <<entries, entryIss, work, lost>>

\* For the mutation runs: only the parent's row is looked at.
ParentRowRevoked(d) == status[Parent[d]] = "revoked"

\* parentRevokedAt: the parent's entry or its row in either table.
ParentRevoked(d) == Parent[d] \in entries \/ status[Parent[d]] = "revoked"

\* recordDelegation.
IssueDelegation(d) ==
  /\ status[d] = "none"
  /\ status' = [status EXCEPT ![d] = IF ParentRevoked(d)
                                     THEN "revoked" ELSE "active"]
  /\ UNCHANGED <<tctIss, entries, entryIss, work, lost>>

\* A tct.revoked or delegation.revoked event is ingested by a free request.
ReceiveRevocation(w, kind, j) ==
  /\ At(w, "idle")
  /\ work' = [work EXCEPT ![w] =
       [at |-> "update", post |-> FALSE, kind |-> kind, jti |-> j, iss |-> None,
        projected |-> None, hit |-> FALSE, found |-> {}]]
  /\ UNCHANGED <<tables, lost>>

\* recordRevocation, recordDelegationRevocation.  The first UPDATE changes the
\* row only in the table of its kind, and only if it is there and active.
Table(kind) == IF kind = "tct" THEN Tct ELSE Dlg
Hits(w) == work[w].jti \in Table(work[w].kind) /\ status[work[w].jti] = "active"

Update(w) ==
  /\ At(w, "update")
  /\ work' = [work EXCEPT ![w] = [@ EXCEPT !.at = "cascade", !.hit = Hits(w)]]
  /\ UNCHANGED <<tables, lost>>

\* `with recursive descendants': the least set that holds the stored children
\* of j and, with a delegation, its own (UNION ends on a cycle).
HoldsChildren(S, j) ==
  \A d \in Dlg : status[d] # "none" /\ Parent[d] \in S \cup {j} => d \in S
Descendants(j) ==
  {d \in Dlg : \A S \in SUBSET Dlg : HoldsChildren(S, j) => d \in S}

\* The cascading UPDATE, in the snapshot it starts with.
Cascade(w) ==
  /\ At(w, "cascade")
  /\ work' = [work EXCEPT ![w] =
       [@ EXCEPT !.at = "commit",
                 !.found = {d \in Descendants(work[w].jti) : status[d] = "active"}]]
  /\ UNCHANGED <<tables, lost>>

\* The rows a transaction has changed; both UPDATEs only ever revoke.
Changed(w) == work[w].found \cup (IF work[w].hit THEN {work[w].jti} ELSE {})

Leave(w) == IF work[w].post THEN Goto(w, "answer") ELSE Finish(w)

Commit(w) ==
  /\ At(w, "commit")
  /\ status' = [j \in Jti |-> IF j \in Changed(w) THEN "revoked" ELSE status[j]]
  /\ Leave(w)
  /\ UNCHANGED <<tctIss, entries, entryIss, lost>>

-----------------------------------------------------------------------------
(* POST /api/revocation/entries.                                           *)

\* The first SELECT: the projection's issuer.
LookUpTct(w, t, iss) ==
  /\ At(w, "idle")
  /\ work' = [work EXCEPT ![w] =
       [at |-> "lookupEntry", post |-> TRUE, kind |-> "tct", jti |-> t,
        iss |-> iss, projected |-> tctIss[t], hit |-> FALSE, found |-> {}]]
  /\ UNCHANGED <<tables, lost>>

\* What the CP knows, what the request says, and whether they agree.
Known(w) == {work[w].projected, entryIss[work[w].jti]} \ {None}
Named(w) == (Known(w) \cup {work[w].iss}) \ {None}

\* The second SELECT.  Two issuers are answered 409, none is answered 400.
LookUpEntry(w) ==
  /\ At(w, "lookupEntry")
  /\ \/ \E iss \in Named(w) :
          /\ Named(w) = {iss}
          /\ work' = [work EXCEPT ![w] = [@ EXCEPT !.at = "insert", !.iss = iss]]
     \/ /\ \A iss \in Named(w) : Named(w) # {iss}
        /\ Finish(w)
  /\ UNCHANGED <<tables, lost>>

\* For the mutation runs: the upsert without its WHERE.
IssOverwritten(w) == work[w].iss

\* INSERT ... ON CONFLICT DO UPDATE SET iss WHERE iss IS NULL.
IssAfterUpsert(w) ==
  IF entryIss[work[w].jti] = None THEN work[w].iss ELSE entryIss[work[w].jti]

Insert(w) ==
  /\ At(w, "insert")
  /\ entries' = entries \cup {work[w].jti}
  /\ entryIss' = [entryIss EXCEPT ![work[w].jti] = IssAfterUpsert(w)]
  /\ Goto(w, "ingest")
  /\ UNCHANGED <<status, tctIss, lost>>

\* ingestOneEvent, publish; onEvent is next.
IngestEvent(w) ==
  /\ At(w, "ingest")
  /\ Goto(w, "update")
  /\ UNCHANGED <<tables, lost>>

\* Dispatch and audit do not touch these tables.  The answer echoes iss, though
\* the upsert may have kept the issuer of another POST.
Answer(w) ==
  /\ At(w, "answer")
  /\ Finish(w)
  /\ UNCHANGED <<tables, lost>>

\* A statement throws, the transaction deadlocks with another or the process
\* dies: what is uncommitted is undone.  onEvent swallows the error and the
\* request is answered; elsewhere it ends the request.
Fail(w) ==
  /\ ~At(w, "idle")
  /\ lost' = IF work[w].post /\ work[w].at \in {"ingest", "update", "cascade", "commit"}
             THEN lost \cup {work[w].jti} ELSE lost
  /\ IF work[w].at \in {"update", "cascade", "commit"}
     THEN Leave(w) \/ Finish(w) ELSE Finish(w)
  /\ UNCHANGED tables

-----------------------------------------------------------------------------

Next ==
  \/ \E t \in Tct, iss \in Issuer \cup {None} : IssueTct(t, iss)
  \/ \E d \in Dlg : IssueDelegation(d)
  \/ \E w \in Worker :
       \/ \E kind \in {"tct", "delegation"}, j \in Jti : ReceiveRevocation(w, kind, j)
       \/ \E t \in Tct, iss \in Issuer \cup {None} : LookUpTct(w, t, iss)
       \/ LookUpEntry(w) \/ Insert(w) \/ IngestEvent(w)
       \/ Update(w) \/ Cascade(w) \/ Commit(w) \/ Answer(w) \/ Fail(w)

Spec == Init /\ [][Next]_vars

-----------------------------------------------------------------------------
(* Properties.                                                             *)

\* Every variable has its type; an entry's issuer is kept only for entries.
TypeOK ==
  /\ status \in [Jti -> {"none", "active", "revoked"}]
  /\ tctIss \in [Tct -> Issuer \cup {None}]
  /\ entries \subseteq Tct
  /\ entryIss \in [Tct -> Issuer \cup {None}]
  /\ work \in [Worker -> Work]
  /\ lost \subseteq Jti

\* A POST that has stored its entry and not yet projected it.
InFlight(j) ==
  \E w \in Worker : /\ work[w].at \in {"ingest", "update", "cascade", "commit"}
                    /\ work[w].post
                    /\ work[w].jti = j

\* The relay and the projection agree: once the POST that stored an entry is
\* through, no token with that jti and no delegation made directly from it is
\* shown as active -- however late, often or concurrently they are reported.
EntriesAreProjected ==
  \A t \in entries \ lost : ~InFlight(t) =>
    /\ status[t] # "active"
    /\ \A d \in Dlg : Parent[d] = t => status[d] # "active"

\* Nothing makes a revoked token or delegation active again.
RevocationIsPermanent ==
  [][\A j \in Jti : status[j] = "revoked" => status'[j] = "revoked"]_vars

\* The issuer an entry is relayed to is "filled, never changed", although two
\* requests that both found it empty may name different ones.
EntryIssuerIsNeverChanged ==
  [][\A t \in Tct : entryIss[t] # None => entryIss'[t] = entryIss[t]]_vars

-----------------------------------------------------------------------------
(* What the repository says and the code does not do.                      *)

\* monitor.ts: the UPDATE and the cascade "commit together so active-chain
\* queries never observe a half-applied revocation".  Even with no request
\* running and none that failed, an active delegation is left below a revoked
\* one that was reported after it.
NoHalfAppliedRevocation ==
  (\A w \in Worker : At(w, "idle")) /\ lost = {} =>
    \A d \in Dlg : status[d] = "active" => status[Parent[d]] # "revoked"
=============================================================================
