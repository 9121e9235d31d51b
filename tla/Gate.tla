-------------------------------- MODULE Gate --------------------------------
(***************************************************************************)
(* The request gate of one replica, proxy.ts, with the fixed-window        *)
(* counters of lib/rate-limit.ts and the keys of lib/api-keys.ts.          *)
(*                                                                         *)
(* A request goes through the gate in one turn of the event loop: it is    *)
(* authorised, then counted, then handed to its route.  A preflight        *)
(* (OPTIONS), a request without a valid key (401) and one for a server     *)
(* without keys in production (503) are answered before they are counted   *)
(* and change nothing.  A route stands for a class of paths; time is in    *)
(* units of which the window has WindowMs.                                 *)
(***************************************************************************)
EXTENDS Integers, Sequences

CONSTANTS
  Ip,            \* what getClientIp may find
  Token,         \* what an Authorization header may hold
  NoToken,       \* no such header
  ApiKey,        \* the keys of API_KEYS
  IssuerKey,     \* the keys of ISSUER_KEYS
  Prefix,        \* token.slice(0, 24) of each token
  Production,    \* NODE_ENV is production
  LimitEnabled,  \* config.rateLimitEnabled
  Limit,         \* config.rateLimit*: of each bucket
  WindowMs,      \* config.rateLimitWindowMs
  MaxTime,       \* bounds the clock
  MaxDrops       \* bounds the refusals counted

BucketName == {"enroll-ip", "public-ip", "api-key"}

ASSUME GateAssumption ==
  /\ NoToken \notin Token
  /\ ApiKey \subseteq Token /\ IssuerKey \subseteq Token
  /\ ApiKey \cap IssuerKey = {}    \* parseIssuerKeys skips an admin key
  /\ DOMAIN Prefix = Token
  /\ Production \in BOOLEAN /\ LimitEnabled \in BOOLEAN
  /\ Limit \in [BucketName -> Int]
  /\ WindowMs \in Nat \ {0}
  /\ MaxTime \in Nat /\ MaxDrops \in Nat

VARIABLES
  now,       \* Date.now(), which does not run backwards here
  bucket,    \* RateLimiter.buckets
  drops,     \* RateLimiter.drops
  admitted   \* history: when each bucket let a request pass

gateVars == <<now, bucket, drops, admitted>>

-----------------------------------------------------------------------------

\* `readyz' stands for the probes, `agents' for the collection and the manifest
\* of the control plane, `agent' for the two reads of one agent.
Route == {"readyz", "enroll", "agents", "agent", "revocations", "events"}

Request == [route : Route, method : {"GET", "POST"}, ip : Ip,
            token : Token \cup {NoToken}]

PublicRoute == {"readyz", "enroll", "agents"}
ExemptRoute == {"readyz"}

\* isPublicRequest
IsPublic(r) ==
  r.route \in PublicRoute \/ (r.route = "agent" /\ r.method = "GET")

\* An issuer's key opens ISSUER_KEY_ROUTE.
IsIssuer(r) ==
  r.route = "revocations" /\ r.method = "GET" /\ r.token \in IssuerKey

\* ApiKey are the keys that API_KEYS parses to; an entry's label only names it.
HasApiKey(r) == r.token \in ApiKey

\* The auth check; without any key configured, everything is open in development.
Authorised(r) ==
  \/ IsPublic(r) \/ IsIssuer(r)
  \/ IF ApiKey = {} THEN ~Production ELSE HasApiKey(r)

Prefixes == {Prefix[t] : t \in Token}
Bucket == ({"enroll-ip", "public-ip"} \X Ip) \cup ({"api-key"} \X Prefixes)

\* chooseRateLimit
Choice(r) ==
  CASE r.route = "enroll" -> <<"enroll-ip", r.ip>>
    [] r.route # "enroll" /\ (IsPublic(r) \/ r.token = NoToken)
         -> <<"public-ip", r.ip>>
    [] OTHER -> <<"api-key", Prefix[r.token]>>

LimitOf(b) == Limit[b[1]]

\* A limit of zero or less disables its bucket.
IsCounted(r) ==
  LimitEnabled /\ r.route \notin ExemptRoute /\ LimitOf(Choice(r)) > 0

NoBucket == [count |-> 0, resetAt |-> 0]
Buckets  == [count : Nat, resetAt : Nat]

GateInit ==
  /\ now = 1
  /\ bucket = [b \in Bucket |-> NoBucket]
  /\ drops = [n \in BucketName |-> 0]
  /\ admitted = [b \in Bucket |-> <<>>]

-----------------------------------------------------------------------------
(* RateLimiter.check                                                       *)

\* The bucket as check finds it, or a new one if there is none or its window
\* is over.  A missing bucket is one whose window was over from the start.
Current(b) ==
  IF bucket[b].resetAt <= now
  THEN [count |-> 0, resetAt |-> now + WindowMs] ELSE bucket[b]

IsFull(b) == Current(b).count >= LimitOf(b)

Count(b) ==
  /\ ~IsFull(b)
  /\ bucket' = [bucket EXCEPT ![b] = [count |-> Current(b).count + 1,
                                      resetAt |-> Current(b).resetAt]]
  /\ admitted' = [admitted EXCEPT ![b] = Append(@, now)]

\* The request is handed to its route.
Admit(r) ==
  /\ Authorised(r)
  /\ IF IsCounted(r) THEN Count(Choice(r)) ELSE UNCHANGED <<bucket, admitted>>
  /\ UNCHANGED <<now, drops>>

\* 429 RATE_LIMITED.  A full bucket is one whose window runs, so it is not set.
Refuse(r) ==
  /\ Authorised(r)
  /\ IsCounted(r)
  /\ IsFull(Choice(r))
  /\ drops[Choice(r)[1]] < MaxDrops
  /\ drops' = [drops EXCEPT ![Choice(r)[1]] = @ + 1]
  /\ UNCHANGED <<now, bucket, admitted>>

\* For the mutation runs: full buckets are dropped as well.
KeptUnlessFull(b) ==
  IF bucket[b].resetAt <= now \/ bucket[b].count >= LimitOf(b) THEN NoBucket
  ELSE bucket[b]

\* What gc leaves of a bucket.
Kept(b) == IF bucket[b].resetAt <= now THEN NoBucket ELSE bucket[b]

Gc ==
  /\ bucket' = [b \in Bucket |-> Kept(b)]
  /\ UNCHANGED <<now, drops, admitted>>

Tick ==
  /\ now < MaxTime
  /\ now' = now + 1
  /\ UNCHANGED <<bucket, drops, admitted>>

GateNext ==
  \/ \E r \in Request : Admit(r) \/ Refuse(r)
  \/ Gc \/ Tick

GateSpec == GateInit /\ [][GateNext]_gateVars

-----------------------------------------------------------------------------
(* Properties.                                                             *)

GateTypeOK ==
  /\ now \in Nat \ {0}
  /\ bucket \in [Bucket -> Buckets]
  /\ drops \in [BucketName -> Nat]
  /\ admitted \in [Bucket -> Seq(Nat)]

(***************************************************************************)
(* The windows are fixed, and a client may use up one at its end and the   *)
(* next at its start.  That is the worst there is: twice the limit of      *)
(* consecutive requests, wherever one begins to count, take at least a     *)
(* window (rate-limit.ts, check and gc).                                   *)
(***************************************************************************)
WindowBound ==
  \A b \in Bucket : LimitOf(b) > 0 =>
    \A i, j \in DOMAIN admitted[b] :
      j = i + 2 * LimitOf(b) - 1 => admitted[b][j] >= admitted[b][i] + WindowMs
=============================================================================
