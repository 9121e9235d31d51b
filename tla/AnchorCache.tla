---------------------------- MODULE AnchorCache ----------------------------
(***************************************************************************)
(* What the cache of trust-anchor keys promises to the readers of          *)
(* GET /api/trust-anchors/:id/jwks: a keyset enters it in one step, from   *)
(* the source its anchor names in that step, and leaves it only with the   *)
(* anchor or with the URLs it was fetched from.  There are no passes, no   *)
(* fetches, no replicas and no crashes here; JwksRefresher implements this *)
(* specification with all of them.                                         *)
(***************************************************************************)
EXTENDS Naturals

CONSTANTS
  Anchor,
  Issuer, JwksUrl, NoUrl,  \* an anchor names an issuer and perhaps a JWKS URL
  MaxVersion,              \* bounds the rotations of one keyset
  None                     \* no such anchor, and no keys

VARIABLES
  urls,     \* what each anchor names
  keys,     \* what is cached for it
  version   \* the keyset each source offers

vars == <<urls, keys, version>>

Origin(u) == IF u.jwksUrl = NoUrl THEN u.issuer ELSE u.jwksUrl

Init ==
  /\ urls = [a \in Anchor |-> None]
  /\ keys = [a \in Anchor |-> None]
  /\ version = [s \in Issuer \cup JwksUrl |-> 0]

\* Anchors name different issuers.
Free(a, issuer) ==
  \A b \in Anchor \ {a} : urls[b] # None => urls[b].issuer # issuer

\* An anchor comes, or its URLs change: it has no keys yet.
Point(a, u) ==
  /\ Free(a, u.issuer)
  /\ u # urls[a]
  /\ urls' = [urls EXCEPT ![a] = u]
  /\ keys' = [keys EXCEPT ![a] = None]
  /\ UNCHANGED version

Remove(a) ==
  /\ urls[a] # None
  /\ urls' = [urls EXCEPT ![a] = None]
  /\ keys' = [keys EXCEPT ![a] = None]
  /\ UNCHANGED version

\* The keys its source offers, or offered once: never another source's.
Refresh(a) ==
  /\ urls[a] # None
  /\ \E v \in 0..version[Origin(urls[a])] :
       keys' = [keys EXCEPT ![a] = [source |-> Origin(urls[a]), version |-> v]]
  /\ UNCHANGED <<urls, version>>

Rotate(s) ==
  /\ version[s] < MaxVersion
  /\ version' = [version EXCEPT ![s] = @ + 1]
  /\ UNCHANGED <<urls, keys>>

Next ==
  \/ \E a \in Anchor :
       \/ \E u \in [issuer : Issuer, jwksUrl : JwksUrl \cup {NoUrl}] : Point(a, u)
       \/ Remove(a) \/ Refresh(a)
  \/ \E s \in Issuer \cup JwksUrl : Rotate(s)

Spec == Init /\ [][Next]_vars
=============================================================================
