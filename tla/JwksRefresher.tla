--------------------------- MODULE JwksRefresher ---------------------------
(***************************************************************************)
(* Trust anchors and the cache of their JWKS: the table `trust_anchors',   *)
(* the routes under app/api/trust-anchors that write it, and the           *)
(* background pass of src/src/lib/trust-anchors/jwks-refresher.ts in every *)
(* replica.                                                                *)
(*                                                                         *)
(* A pass lists the stale anchors once and then fetches and writes them    *)
(* one after another, while administrators patch and delete the rows and   *)
(* other replicas run passes of their own.  A keyset is the place it was   *)
(* fetched from and a version, which grows when the issuer rotates its     *)
(* keys.  Time is what the SELECT asks of jwks_cached_at.                  *)
(***************************************************************************)
EXTENDS Naturals

CONSTANTS
  Proc,          \* replicas
  Anchor,        \* ids that POST may hand out; all in one namespace
  Issuer,        \* issuer URLs
  JwksUrl,       \* explicit JWKS URLs
  NoUrl,         \* jwks_url IS NULL: OIDC discovery
  MaxVersion,    \* bounds the rotations of one keyset
  MaxFaults,     \* bounds failed fetches and crashes
  MaxAdminOps    \* bounds PATCH and DELETE requests

ASSUME JwksAssumption ==
  /\ NoUrl \notin JwksUrl
  /\ MaxVersion \in Nat
  /\ MaxFaults \in Nat
  /\ MaxAdminOps \in Nat

VARIABLES
  row,       \* trust_anchors
  version,   \* the keyset each URL serves at the moment
  pass,      \* refreshStaleJwks in each process; idle iff `running' is false
  faults,
  adminOps

vars == <<row, version, pass, faults, adminOps>>

-----------------------------------------------------------------------------

Urls == [issuer : Issuer, jwksUrl : JwksUrl \cup {NoUrl}]

\* fetchJwks: an explicit URL, or the one the issuer's discovery names.
Source(urls) == IF urls.jwksUrl = NoUrl THEN urls.issuer ELSE urls.jwksUrl

Keyset  == [source : Issuer \cup JwksUrl, version : 0..MaxVersion]
NotCached == [cachedAt |-> "null"]
Cached    == [cachedAt : {"fresh", "stale"}, keys : Keyset]

Live(a) == row[a].status = "live"

Rows == [status : {"new", "deleted"}]
          \cup [status : {"live"}, urls : Urls, jwks : Cached \cup {NotCached}]

\* A listed anchor, with the URLs it had then; a keyset fetched for it.
Listed  == [id : Anchor, urls : Urls]
Idle    == [at |-> "idle"]
Loop    == [at : {"loop"}, todo : SUBSET Listed]
Writing == [at : {"write"}, todo : SUBSET Listed, item : Listed, keys : Keyset]

SpendFault == faults > 0 /\ faults' = faults - 1
SpendAdmin == adminOps > 0 /\ adminOps' = adminOps - 1

Init ==
  /\ row = [a \in Anchor |-> [status |-> "new"]]
  /\ version = [s \in Issuer \cup JwksUrl |-> 0]
  /\ pass = [p \in Proc |-> Idle]
  /\ faults = MaxFaults
  /\ adminOps = MaxAdminOps

-----------------------------------------------------------------------------
(* The routes.                                                             *)

\* trust_anchors_namespace_issuer_uniq, whose violation is answered 409.
IssuerFree(a, issuer) ==
  \A b \in Anchor \ {a} : Live(b) => row[b].urls.issuer # issuer

\* POST.
Create(a, urls) ==
  /\ row[a].status = "new"
  /\ IssuerFree(a, urls.issuer)
  /\ row' = [row EXCEPT ![a] = [status |-> "live", urls |-> urls,
                                jwks |-> NotCached]]
  /\ UNCHANGED <<version, pass, faults, adminOps>>

\* PATCH: one UPDATE, which drops the keyset when and only when it changes a
\* URL.  A label-only edit is one that resends the current URLs.
PatchedJwks(a, urls) == IF urls # row[a].urls THEN NotCached ELSE row[a].jwks

Patch(a, urls) ==
  /\ Live(a)
  /\ IssuerFree(a, urls.issuer)
  /\ SpendAdmin
  /\ row' = [row EXCEPT ![a] = [status |-> "live", urls |-> urls,
                                jwks |-> PatchedJwks(a, urls)]]
  /\ UNCHANGED <<version, pass, faults>>

\* DELETE.
Delete(a) ==
  /\ Live(a)
  /\ SpendAdmin
  /\ row' = [row EXCEPT ![a] = [status |-> "deleted"]]
  /\ UNCHANGED <<version, pass, faults>>

-----------------------------------------------------------------------------
(* The background pass.                                                    *)

Stale == {a \in Anchor : Live(a) /\ row[a].jwks.cachedAt \in {"null", "stale"}}

\* Back to the loop's head; after the last anchor `finally' clears `running'.
Continue(p, todo) ==
  pass' = [pass EXCEPT ![p] = IF todo = {} THEN Idle
                              ELSE [at |-> "loop", todo |-> todo]]

\* A tick, unless a pass is running: the SELECT.
StartPass(p) ==
  /\ pass[p].at = "idle"
  /\ Continue(p, {[id |-> a, urls |-> row[a].urls] : a \in Stale})
  /\ UNCHANGED <<row, version, faults, adminOps>>

\* fetchJwks succeeds, with what the source serves at that moment.
Fetch(p, item) ==
  /\ pass[p].at = "loop"
  /\ item \in pass[p].todo
  /\ pass' = [pass EXCEPT ![p] =
       [at |-> "write", todo |-> pass[p].todo \ {item}, item |-> item,
        keys |-> [source  |-> Source(item.urls),
                  version |-> version[Source(item.urls)]]]]
  /\ UNCHANGED <<row, version, faults, adminOps>>

\* For the mutation runs: the error path leaves `running' set.
FetchFailsForGood(p, item) ==
  /\ pass[p].at = "loop"
  /\ item \in pass[p].todo
  /\ SpendFault
  /\ pass' = [pass EXCEPT ![p] = [at |-> "loop", todo |-> {}]]
  /\ UNCHANGED <<row, version, adminOps>>

\* The fetch, or the UPDATE after it, throws: on to the next anchor.
FetchFails(p, item) ==
  /\ pass[p].at = "loop"
  /\ item \in pass[p].todo
  /\ SpendFault
  /\ Continue(p, pass[p].todo \ {item})
  /\ UNCHANGED <<row, version, adminOps>>

WriteFails(p) ==
  /\ pass[p].at = "write"
  /\ SpendFault
  /\ Continue(p, pass[p].todo)
  /\ UNCHANGED <<row, version, adminOps>>

\* For the mutation runs: the write is pinned on the id alone.
StillExists(item) == Live(item.id)

\* The WHERE clause of the write, and the UPDATE.
StillHasUrls(item) == Live(item.id) /\ row[item.id].urls = item.urls

Write(p) ==
  /\ pass[p].at = "write"
  /\ LET item == pass[p].item
     IN  row' = IF StillHasUrls(item)
                THEN [row EXCEPT ![item.id] =
                        [status |-> "live", urls |-> row[item.id].urls,
                         jwks |-> [cachedAt |-> "fresh", keys |-> pass[p].keys]]]
                ELSE row
  /\ Continue(p, pass[p].todo)
  /\ UNCHANGED <<version, faults, adminOps>>

-----------------------------------------------------------------------------
(* The environment.                                                        *)

\* JWKS_STALE_AFTER_MS passes.
GoStale(a) ==
  /\ Live(a)
  /\ row[a].jwks.cachedAt = "fresh"
  /\ row' = [row EXCEPT ![a] = [status |-> "live", urls |-> row[a].urls,
               jwks |-> [cachedAt |-> "stale", keys |-> row[a].jwks.keys]]]
  /\ UNCHANGED <<version, pass, faults, adminOps>>

Rotate(s) ==
  /\ version[s] < MaxVersion
  /\ version' = [version EXCEPT ![s] = @ + 1]
  /\ UNCHANGED <<row, pass, faults, adminOps>>

\* The process dies and restarts, with `running' false again.
Crash(p) ==
  /\ SpendFault
  /\ pass' = [pass EXCEPT ![p] = Idle]
  /\ UNCHANGED <<row, version, adminOps>>

-----------------------------------------------------------------------------

\* A fetch ends in one of two ways, and which is not the process's to decide.
Refresh(p) ==
  \/ StartPass(p)
  \/ \E item \in Listed : Fetch(p, item) \/ FetchFails(p, item)
  \/ Write(p)
  \/ WriteFails(p)

Next ==
  \/ \E p \in Proc : Refresh(p) \/ Crash(p)
  \/ \E a \in Anchor, urls \in Urls : Create(a, urls) \/ Patch(a, urls)
  \/ \E a \in Anchor : Delete(a) \/ GoStale(a)
  \/ \E s \in Issuer \cup JwksUrl : Rotate(s)

Spec == Init /\ [][Next]_vars

\* The interval keeps ticking, an await is answered (each fetch has its
\* timeout) and time passes.
Fairness == /\ \A p \in Proc : WF_vars(Refresh(p))
            /\ \A a \in Anchor : WF_vars(GoStale(a))

FairSpec == Spec /\ Fairness

-----------------------------------------------------------------------------
(* Properties.                                                             *)

\* Every variable has its type: rows are those of the table, and a pass works
\* on anchors it has listed.
TypeOK ==
  /\ row \in [Anchor -> Rows]
  /\ version \in [Issuer \cup JwksUrl -> 0..MaxVersion]
  /\ pass \in [Proc -> {Idle} \cup Loop \cup Writing]
  /\ faults \in Nat
  /\ adminOps \in Nat

\* GET /api/trust-anchors/:id/jwks serves keys that came from the URLs the
\* anchor has now: a pass of any replica that was fetching while a PATCH
\* changed them cannot put the old issuer's keys back.
ServedKeysMatchUrls ==
  \A a \in Anchor : Live(a) /\ row[a].jwks # NotCached =>
    row[a].jwks.keys.source = Source(row[a].urls)

\* "After one successful fetch, later failures do not clear the cache", and an
\* edit that changes no URL keeps it: a cached keyset is lost only with its row
\* or its URLs.
LastGoodKeysAreKept ==
  [][\A a \in Anchor :
       /\ Live(a) /\ row[a].jwks # NotCached
       /\ row'[a].status = "live" /\ row'[a].urls = row[a].urls
       => row'[a].jwks # NotCached]_vars

\* What readers can tell of the table: the URLs of an anchor and its keys.
UrlsNow == [a \in Anchor |-> IF Live(a) THEN row[a].urls ELSE NotCached]
KeysNow == [a \in Anchor |-> IF Live(a) /\ row[a].jwks # NotCached
                            THEN row[a].jwks.keys ELSE NotCached]

Cache == INSTANCE AnchorCache WITH None <- NotCached, urls <- UrlsNow,
                                   keys <- KeysNow

\* To its readers the cache is AnchorCache: however long a fetch takes and
\* whatever is edited, deleted, refreshed by other replicas or crashes during
\* it, the keys change as if they had been fetched and stored in one step.
ImplementsCache == Cache!Spec

\* Skipped writes, failed fetches, patches and crashes only delay the cache:
\* an anchor that stays ends up with the keys its source ended up with.
CacheCatchesUp ==
  \A a \in Anchor :
    <>[]Live(a) =>
      <>[](/\ Live(a)
           /\ row[a].jwks # NotCached
           /\ row[a].jwks.keys.version = version[Source(row[a].urls)])
=============================================================================
