------------------------ MODULE JwksRefresherProofs ------------------------
(***************************************************************************)
(* Theorems about JwksRefresher, for any number of replicas, anchors, URLs *)
(* and rotations.                                                          *)
(*                                                                         *)
(* That the served keys match the URLs of their anchor is not inductive:   *)
(* the keys of a pass that is about to write must also have come from the  *)
(* URLs it listed.  The write's WHERE clause then carries the fact from    *)
(* the pass to the row.                                                    *)
(***************************************************************************)
EXTENDS JwksRefresher, TLAPS

LEMMA SourceType == \A urls \in Urls : Source(urls) \in Issuer \cup JwksUrl
BY DEF Urls, Source

\* A pass at its loop's head, and one that is about to write.
LEMMA PassAt ==
  ASSUME TypeOK, NEW p \in Proc
  PROVE  /\ pass[p].at = "loop" => pass[p] \in Loop
         /\ pass[p].at = "write" => pass[p] \in Writing
BY DEF TypeOK, Loop, Writing, Idle

LEMMA LiveRow ==
  ASSUME TypeOK, NEW a \in Anchor, Live(a)
  PROVE  row[a].urls \in Urls /\ row[a].jwks \in Cached \cup {NotCached}
<1>1. row[a] \in Rows /\ row[a].status = "live"
  BY DEF TypeOK, Live
<1> QED BY <1>1 DEF Rows

\* A live row whose URLs and keyset have their types is a row of the table.
LEMMA RowBuilt ==
  ASSUME NEW urls \in Urls, NEW jwks \in Cached \cup {NotCached}
  PROVE  [status |-> "live", urls |-> urls, jwks |-> jwks] \in Rows
BY DEF Rows

LEMMA ContinueType ==
  ASSUME TypeOK, NEW p \in Proc, NEW todo \in SUBSET Listed, Continue(p, todo)
  PROVE  pass' \in [Proc -> {Idle} \cup Loop \cup Writing]
BY DEF TypeOK, Continue, Loop

LEMMA TypeInit == Init => TypeOK
BY JwksAssumption DEF Init, TypeOK, Rows

LEMMA TypeNext == TypeOK /\ [Next]_vars => TypeOK'
<1> SUFFICES ASSUME TypeOK, [Next]_vars
             PROVE  TypeOK'
  OBVIOUS
<1>1. CASE UNCHANGED vars
  BY <1>1 DEF TypeOK, vars
<1>2. ASSUME NEW a \in Anchor, NEW urls \in Urls,
             Create(a, urls) \/ Patch(a, urls)
      PROVE  TypeOK'
  <2>1. CASE Create(a, urls)
    <3>1. [status |-> "live", urls |-> urls, jwks |-> NotCached] \in Rows
      BY RowBuilt
    <3> QED BY <2>1, <3>1 DEF Create, TypeOK
  <2>2. CASE Patch(a, urls)
    <3>1. PatchedJwks(a, urls) \in Cached \cup {NotCached}
      BY <2>2, LiveRow DEF Patch, PatchedJwks
    <3>2. [status |-> "live", urls |-> urls, jwks |-> PatchedJwks(a, urls)] \in Rows
      BY <3>1, RowBuilt
    <3> QED BY <2>2, <3>2 DEF Patch, TypeOK, SpendAdmin
  <2> QED BY <1>2, <2>1, <2>2
<1>3. ASSUME NEW a \in Anchor, Delete(a) \/ GoStale(a)
      PROVE  TypeOK'
  <2>1. CASE Delete(a)
    <3>1. [status |-> "deleted"] \in Rows
      BY DEF Rows
    <3> QED BY <2>1, <3>1 DEF Delete, TypeOK, SpendAdmin
  <2>2. CASE GoStale(a)
    <3>1. row[a].urls \in Urls /\ row[a].jwks \in Cached
      BY <2>2, LiveRow DEF GoStale, NotCached
    <3>2. [cachedAt |-> "stale", keys |-> row[a].jwks.keys] \in Cached
      BY <3>1 DEF Cached
    <3>3. [status |-> "live", urls |-> row[a].urls,
           jwks |-> [cachedAt |-> "stale", keys |-> row[a].jwks.keys]] \in Rows
      BY <3>1, <3>2, RowBuilt
    <3> QED BY <2>2, <3>3 DEF GoStale, TypeOK
  <2> QED BY <1>3, <2>1, <2>2
<1>4. ASSUME NEW s \in Issuer \cup JwksUrl, Rotate(s)
      PROVE  TypeOK'
  BY <1>4, JwksAssumption DEF Rotate, TypeOK
<1>5. ASSUME NEW p \in Proc, Refresh(p) \/ Crash(p)
      PROVE  TypeOK'
  <2>1. CASE StartPass(p)
    <3>1. {[id |-> a, urls |-> row[a].urls] : a \in Stale} \in SUBSET Listed
      BY LiveRow DEF Stale, Listed
    <3> QED BY <2>1, <3>1, ContinueType DEF StartPass, TypeOK
  <2>2. ASSUME NEW item \in Listed, Fetch(p, item)
        PROVE  TypeOK'
    <3>1. pass[p] \in Loop
      BY <2>2, PassAt DEF Fetch
    <3>2. [source  |-> Source(item.urls),
           version |-> version[Source(item.urls)]] \in Keyset
      BY SourceType DEF Listed, Keyset, TypeOK
    <3>3. [at |-> "write", todo |-> pass[p].todo \ {item}, item |-> item,
           keys |-> [source  |-> Source(item.urls),
                     version |-> version[Source(item.urls)]]] \in Writing
      BY <3>1, <3>2 DEF Loop, Writing
    <3> QED BY <2>2, <3>3 DEF Fetch, TypeOK
  <2>3. ASSUME NEW item \in Listed, FetchFails(p, item)
        PROVE  TypeOK'
    <3>1. pass[p].todo \ {item} \in SUBSET Listed
      BY <2>3, PassAt DEF FetchFails, Loop
    <3> QED BY <2>3, <3>1, ContinueType DEF FetchFails, TypeOK, SpendFault
  <2>4. CASE WriteFails(p)
    <3>1. pass[p].todo \in SUBSET Listed
      BY <2>4, PassAt DEF WriteFails, Writing
    <3> QED BY <2>4, <3>1, ContinueType DEF WriteFails, TypeOK, SpendFault
  <2>5. CASE Write(p)
    <3> DEFINE item == pass[p].item
               keys == pass[p].keys
               new  == [status |-> "live", urls |-> row[item.id].urls,
                        jwks |-> [cachedAt |-> "fresh", keys |-> keys]]
    <3>1. pass[p].todo \in SUBSET Listed /\ item \in Listed /\ keys \in Keyset
      BY <2>5, PassAt DEF Write, Writing
    <3>2. row' = row \/ (Live(item.id) /\ row' = [row EXCEPT ![item.id] = new])
      BY <2>5 DEF Write, StillHasUrls
    <3>3. item.id \in Anchor
      BY <3>1 DEF Listed
    <3>4. [cachedAt |-> "fresh", keys |-> keys] \in Cached
      BY <3>1 DEF Cached
    <3>5. Live(item.id) => new \in Rows
      BY <3>3, <3>4, LiveRow, RowBuilt
    <3> HIDE DEF item, keys, new
    <3>6. row' \in [Anchor -> Rows]
      BY <3>2, <3>5 DEF TypeOK
    <3> QED BY <2>5, <3>1, <3>6, ContinueType DEF Write, TypeOK
  <2>6. CASE Crash(p)
    BY <2>6 DEF Crash, TypeOK, SpendFault
  <2> QED BY <1>5, <2>1, <2>2, <2>3, <2>4, <2>5, <2>6 DEF Refresh
<1> QED BY <1>1, <1>2, <1>3, <1>4, <1>5 DEF Next

\* In every reachable state the table, the passes and the budgets have their
\* types.
THEOREM TypeCorrect == Spec => []TypeOK
BY TypeInit, TypeNext, PTL DEF Spec

-----------------------------------------------------------------------------

\* The keys a pass is about to write came from the URLs it listed.
FetchedFromListed ==
  \A p \in Proc : pass[p].at = "write" =>
    pass[p].keys.source = Source(pass[p].item.urls)

KeysInv == ServedKeysMatchUrls /\ FetchedFromListed

LEMMA KeysInit == Init => KeysInv
BY DEF Init, KeysInv, ServedKeysMatchUrls, FetchedFromListed, Live, Idle

LEMMA KeysNext == TypeOK /\ KeysInv /\ [Next]_vars => KeysInv'
<1> SUFFICES ASSUME TypeOK, ServedKeysMatchUrls, FetchedFromListed, [Next]_vars
             PROVE  ServedKeysMatchUrls' /\ FetchedFromListed'
  BY DEF KeysInv
<1>1. UNCHANGED row => ServedKeysMatchUrls'
  BY DEF ServedKeysMatchUrls, Live
<1>2. UNCHANGED pass => FetchedFromListed'
  BY DEF FetchedFromListed
\* A row that is written holds no keys, or keys of its own URLs' source.
<1>3. ASSUME NEW a \in Anchor, NEW new,
             row' = [row EXCEPT ![a] = new],
             \/ new.status # "live"
             \/ new.jwks = NotCached
             \/ new.jwks.keys.source = Source(new.urls)
      PROVE  ServedKeysMatchUrls'
  <2> SUFFICES ASSUME NEW b \in Anchor, Live(b)', row'[b].jwks # NotCached
               PROVE  row'[b].jwks.keys.source = Source(row'[b].urls)
    BY DEF ServedKeysMatchUrls, Source
  <2>1. CASE b = a
    BY <1>3, <2>1 DEF TypeOK, Live
  <2>2. CASE b # a
    <3>1. row'[b] = row[b]
      BY <1>3, <2>2 DEF TypeOK
    <3>2. Live(b)
      BY <3>1 DEF Live
    <3> QED BY <3>1, <3>2 DEF ServedKeysMatchUrls
  <2> QED BY <2>1, <2>2
<1>4. ASSUME NEW p \in Proc, NEW new, pass' = [pass EXCEPT ![p] = new],
             new.at = "write" => new.keys.source = Source(new.item.urls)
      PROVE  FetchedFromListed'
  <2> SUFFICES ASSUME NEW q \in Proc, pass'[q].at = "write"
               PROVE  pass'[q].keys.source = Source(pass'[q].item.urls)
    BY DEF FetchedFromListed, Source
  <2>1. CASE q = p
    BY <1>4, <2>1 DEF TypeOK
  <2>2. CASE q # p
    <3>1. pass'[q] = pass[q]
      BY <1>4, <2>2 DEF TypeOK
    <3> QED BY <3>1 DEF FetchedFromListed
  <2> QED BY <2>1, <2>2
<1>5. ASSUME NEW p \in Proc, NEW todo, Continue(p, todo)
      PROVE  FetchedFromListed'
  <2> DEFINE new == IF todo = {} THEN Idle ELSE [at |-> "loop", todo |-> todo]
  <2>1. pass' = [pass EXCEPT ![p] = new]
    BY <1>5 DEF Continue
  <2>2. new.at # "write"
    BY DEF Idle
  <2> HIDE DEF new
  <2> QED BY <1>4, <2>1, <2>2
<1>6. CASE UNCHANGED vars
  BY <1>1, <1>2, <1>6 DEF vars
<1>7. ASSUME NEW a \in Anchor, NEW urls \in Urls, Create(a, urls)
      PROVE  ServedKeysMatchUrls' /\ FetchedFromListed'
  BY <1>2, <1>3, <1>7 DEF Create
\* A PATCH keeps the keys only if it keeps the URLs.
<1>8. ASSUME NEW a \in Anchor, NEW urls \in Urls, Patch(a, urls)
      PROVE  ServedKeysMatchUrls' /\ FetchedFromListed'
  <2> DEFINE new == [status |-> "live", urls |-> urls,
                     jwks |-> PatchedJwks(a, urls)]
  <2>1. \/ new.jwks = NotCached
        \/ new.jwks.keys.source = Source(new.urls)
    BY <1>8 DEF Patch, PatchedJwks, ServedKeysMatchUrls
  <2>2. row' = [row EXCEPT ![a] = new]
    BY <1>8 DEF Patch
  <2> HIDE DEF new
  <2>3. ServedKeysMatchUrls'
    BY <1>3, <2>1, <2>2
  <2> QED BY <1>2, <1>8, <2>3 DEF Patch
<1>9. ASSUME NEW a \in Anchor, Delete(a)
      PROVE  ServedKeysMatchUrls' /\ FetchedFromListed'
  BY <1>2, <1>3, <1>9 DEF Delete
<1>10. ASSUME NEW a \in Anchor, GoStale(a)
       PROVE  ServedKeysMatchUrls' /\ FetchedFromListed'
  <2>1. row[a].jwks.keys.source = Source(row[a].urls)
    BY <1>10 DEF GoStale, ServedKeysMatchUrls, NotCached
  <2> QED BY <1>2, <1>3, <1>10, <2>1 DEF GoStale
<1>11. ASSUME NEW s \in Issuer \cup JwksUrl, Rotate(s)
       PROVE  ServedKeysMatchUrls' /\ FetchedFromListed'
  BY <1>1, <1>2, <1>11 DEF Rotate
<1>12. ASSUME NEW p \in Proc, NEW item \in Listed, Fetch(p, item)
       PROVE  ServedKeysMatchUrls' /\ FetchedFromListed'
  BY <1>1, <1>4, <1>12 DEF Fetch
<1>13. ASSUME NEW p \in Proc,
              \/ StartPass(p) \/ WriteFails(p) \/ Crash(p)
              \/ \E item \in Listed : FetchFails(p, item)
       PROVE  ServedKeysMatchUrls' /\ FetchedFromListed'
  <2>1. CASE StartPass(p)
    BY <1>1, <1>5, <2>1 DEF StartPass
  <2>2. CASE WriteFails(p)
    BY <1>1, <1>5, <2>2 DEF WriteFails
  <2>3. CASE Crash(p)
    BY <1>1, <1>4, <2>3 DEF Crash, Idle
  <2>4. CASE \E item \in Listed : FetchFails(p, item)
    BY <1>1, <1>5, <2>4 DEF FetchFails
  <2> QED BY <1>13, <2>1, <2>2, <2>3, <2>4
\* The WHERE clause: the row's URLs are those the keys were fetched for.
<1>14. ASSUME NEW p \in Proc, Write(p)
       PROVE  ServedKeysMatchUrls' /\ FetchedFromListed'
  <2> DEFINE item == pass[p].item
             new  == [status |-> "live", urls |-> row[item.id].urls,
                      jwks |-> [cachedAt |-> "fresh", keys |-> pass[p].keys]]
  <2>1. pass[p].keys.source = Source(item.urls) /\ item.id \in Anchor
    BY <1>14, PassAt DEF Write, FetchedFromListed, Writing, Listed
  <2>2. CASE StillHasUrls(item)
    <3>1. row' = [row EXCEPT ![item.id] = new]
      BY <1>14, <2>2 DEF Write
    <3>2. new.jwks.keys.source = Source(new.urls)
      BY <2>1, <2>2 DEF StillHasUrls
    <3> HIDE DEF new, item
    <3>3. ServedKeysMatchUrls'
      BY <1>3, <2>1, <3>1, <3>2
    <3> QED BY <1>5, <1>14, <3>3 DEF Write
  <2>3. CASE ~StillHasUrls(item)
    BY <1>1, <1>5, <1>14, <2>3 DEF Write
  <2> QED BY <2>2, <2>3
<1> QED
  BY <1>6, <1>7, <1>8, <1>9, <1>10, <1>11, <1>12, <1>13, <1>14
  DEF Next, Refresh

\* No interleaving of passes, patches, deletions, rotations and crashes makes
\* the control plane serve keys of an issuer the anchor does not name.
THEOREM KeysMatchUrls == Spec => []ServedKeysMatchUrls
<1>1. Spec => []KeysInv
  BY KeysInit, KeysNext, TypeCorrect, PTL DEF Spec
<1>2. KeysInv => ServedKeysMatchUrls
  BY DEF KeysInv
<1> QED BY <1>1, <1>2, PTL

-----------------------------------------------------------------------------
(* JwksRefresher implements AnchorCache.                                   *)

\* The keys a pass is about to write were offered by their source.
FetchedWasOffered ==
  \A p \in Proc : pass[p].at = "write" =>
    pass[p].keys.version <= version[pass[p].keys.source]

CacheInv == TypeOK /\ FetchedFromListed /\ FetchedWasOffered

LEMMA OfferedInit == Init => FetchedWasOffered
BY DEF Init, FetchedWasOffered, Idle

LEMMA OfferedNext == TypeOK /\ FetchedWasOffered /\ [Next]_vars => FetchedWasOffered'
<1> SUFFICES ASSUME TypeOK, FetchedWasOffered, [Next]_vars
             PROVE  FetchedWasOffered'
  OBVIOUS
\* No source takes back what it has offered.
<1>1. \A s \in Issuer \cup JwksUrl : version[s] <= version'[s]
  <2>1. CASE \E s \in Issuer \cup JwksUrl : Rotate(s)
    BY <2>1, JwksAssumption DEF Rotate, TypeOK
  <2>2. CASE UNCHANGED version
    BY <2>2, JwksAssumption DEF TypeOK
  <2> QED
    BY <2>1, <2>2 DEF Next, Refresh, Create, Patch, Delete, GoStale, Crash,
       StartPass, Fetch, FetchFails, Write, WriteFails, vars
<1> SUFFICES ASSUME NEW p \in Proc, pass'[p].at = "write"
             PROVE  pass'[p].keys.version <= version'[pass'[p].keys.source]
  BY DEF FetchedWasOffered
<1>2. CASE pass'[p] = pass[p]
  <2>1. pass[p].keys \in Keyset
    BY <1>2, PassAt DEF Writing
  <2>2. pass[p].keys.source \in Issuer \cup JwksUrl /\ pass[p].keys.version \in Nat
    BY <2>1, JwksAssumption DEF Keyset
  <2>3. pass[p].keys.version <= version[pass[p].keys.source]
    BY <1>2 DEF FetchedWasOffered
  <2>4. /\ version[pass[p].keys.source] \in Nat
        /\ version'[pass[p].keys.source] \in Nat
    BY <2>2, TypeNext DEF TypeOK
  <2> QED BY <1>1, <1>2, <2>2, <2>3, <2>4
<1>3. CASE \E item \in Listed : Fetch(p, item)
  <2> PICK item \in Listed : Fetch(p, item)
    BY <1>3
  <2>1. /\ pass'[p].keys.source = Source(item.urls)
        /\ pass'[p].keys.version = version[Source(item.urls)]
        /\ version' = version
    BY DEF Fetch, TypeOK
  <2>2. version[Source(item.urls)] \in Nat
    BY SourceType DEF Listed, TypeOK
  <2> QED BY <2>1, <2>2
<1>4. ASSUME pass'[p] # pass[p], \A item \in Listed : ~Fetch(p, item)
      PROVE  FALSE
  <2>1. PICK q \in Proc : Refresh(q) \/ Crash(q)
    BY <1>4 DEF Next, Create, Patch, Delete, GoStale, Rotate, vars
  <2>2. ASSUME NEW r \in Proc, NEW todo, Continue(r, todo)
        PROVE  pass'[p] = pass[p]
    <3>1. CASE p = r
      BY <2>2, <3>1 DEF Continue, TypeOK, Idle
    <3> QED BY <2>2, <3>1 DEF Continue, TypeOK
  <2>3. CASE StartPass(q) \/ Write(q) \/ WriteFails(q)
    BY <1>4, <2>2, <2>3 DEF StartPass, Write, WriteFails
  <2>4. CASE \E item \in Listed : FetchFails(q, item)
    BY <1>4, <2>2, <2>4 DEF FetchFails
  <2>5. CASE \E item \in Listed : Fetch(q, item)
    BY <1>4, <2>5 DEF Fetch, TypeOK
  <2>6. CASE Crash(q)
    BY <1>4, <2>6 DEF Crash, TypeOK, Idle
  <2> QED BY <2>1, <2>3, <2>4, <2>5, <2>6 DEF Refresh
<1> QED BY <1>2, <1>3, <1>4

\* A step that leaves what readers can tell of every row.
LEMMA SameRow ==
  ASSUME NEW a \in Anchor, TypeOK,
         row'[a] = row[a]
  PROVE  UrlsNow'[a] = UrlsNow[a] /\ KeysNow'[a] = KeysNow[a]
BY DEF UrlsNow, KeysNow, Live

LEMMA CacheStutter ==
  ASSUME UNCHANGED row
  PROVE  UNCHANGED <<UrlsNow, KeysNow>>
BY DEF UrlsNow, KeysNow, Live

\* What readers can tell after a step that writes the live row new to a.
LEMMA CacheWrite ==
  ASSUME TypeOK, NEW a \in Anchor, NEW u \in Urls,
         NEW jwks \in Cached \cup {NotCached},
         row' = [row EXCEPT ![a] = [status |-> "live", urls |-> u, jwks |-> jwks]]
  PROVE  /\ UrlsNow' = [UrlsNow EXCEPT ![a] = u]
         /\ KeysNow' = [KeysNow EXCEPT ![a] =
                          IF jwks = NotCached THEN NotCached ELSE jwks.keys]
<1> DEFINE new == [status |-> "live", urls |-> u, jwks |-> jwks]
<1>1. new.status = "live" /\ new.urls = u /\ new.jwks = jwks
  OBVIOUS
<1>2. row' = [row EXCEPT ![a] = new]
  OBVIOUS
<1> HIDE DEF new
<1>3. row'[a] = new /\ \A b \in Anchor \ {a} : row'[b] = row[b]
  BY <1>2 DEF TypeOK
<1>4. UrlsNow'[a] = u /\ KeysNow'[a] = IF jwks = NotCached THEN NotCached ELSE jwks.keys
  BY <1>1, <1>3 DEF UrlsNow, KeysNow, Live
<1>5. \A b \in Anchor \ {a} : UrlsNow'[b] = UrlsNow[b] /\ KeysNow'[b] = KeysNow[b]
  BY <1>3, SameRow
<1>6. UrlsNow' = [UrlsNow EXCEPT ![a] = u]
  BY <1>4, <1>5 DEF UrlsNow
<1>7. KeysNow' = [KeysNow EXCEPT ![a] = IF jwks = NotCached THEN NotCached ELSE jwks.keys]
  <2> DEFINE k == IF jwks = NotCached THEN NotCached ELSE jwks.keys
  <2>1. KeysNow'[a] = k
    BY <1>4
  <2>2. /\ KeysNow = [b \in Anchor |-> KeysNow[b]]
        /\ KeysNow' = [b \in Anchor |-> KeysNow'[b]]
    BY DEF KeysNow
  <2> HIDE DEF k
  <2>3. KeysNow' = [KeysNow EXCEPT ![a] = k]
    BY <1>5, <2>1, <2>2
  <2> QED BY <2>3 DEF k
<1> QED BY <1>6, <1>7

\* Readers cannot tell a write that keeps the URLs and the keys.
LEMMA HiddenWrite ==
  ASSUME TypeOK, NEW a \in Anchor, Live(a),
         NEW jwks \in Cached \cup {NotCached},
         jwks = NotCached <=> row[a].jwks = NotCached,
         jwks # NotCached => jwks.keys = row[a].jwks.keys,
         row' = [row EXCEPT ![a] = [status |-> "live", urls |-> row[a].urls,
                                    jwks |-> jwks]]
  PROVE  UNCHANGED <<UrlsNow, KeysNow>>
<1> DEFINE new == [status |-> "live", urls |-> row[a].urls, jwks |-> jwks]
<1>1. new.status = "live" /\ new.urls = row[a].urls /\ new.jwks = jwks
  OBVIOUS
<1> HIDE DEF new
<1>2. row'[a] = new /\ \A b \in Anchor \ {a} : row'[b] = row[b]
  BY DEF TypeOK, new
<1>3. UrlsNow'[a] = UrlsNow[a] /\ KeysNow'[a] = KeysNow[a]
  BY <1>1, <1>2 DEF UrlsNow, KeysNow, Live
<1>4. \A b \in Anchor \ {a} : UrlsNow'[b] = UrlsNow[b] /\ KeysNow'[b] = KeysNow[b]
  BY <1>2, SameRow
<1> QED BY <1>3, <1>4 DEF UrlsNow, KeysNow

\* An anchor is named by readers exactly while its row is live.
LEMMA LiveNow ==
  ASSUME TypeOK, NEW a \in Anchor
  PROVE  /\ Live(a) => UrlsNow[a] = row[a].urls /\ UrlsNow[a] # NotCached
         /\ ~Live(a) => UrlsNow[a] = NotCached
<1>1. \A u \in Urls : u # NotCached
  BY DEF Urls, NotCached
<1> QED BY <1>1, LiveRow DEF UrlsNow

LEMMA FreeNow ==
  ASSUME TypeOK, NEW a \in Anchor, NEW i, IssuerFree(a, i)
  PROVE  Cache!Free(a, i)
BY LiveNow DEF IssuerFree, Cache!Free

LEMMA CacheInit == Init => Cache!Init
BY DEF Init, Cache!Init, UrlsNow, KeysNow, Live

LEMMA CreateIsPoint ==
  ASSUME TypeOK, NEW a \in Anchor, NEW u \in Urls, Create(a, u)
  PROVE  Cache!Point(a, u)
<1>1. UrlsNow[a] = NotCached /\ u # NotCached
  BY LiveNow DEF Create, Live, Urls, NotCached
<1>2. Cache!Free(a, u.issuer)
  BY FreeNow DEF Create
<1>3. /\ UrlsNow' = [UrlsNow EXCEPT ![a] = u]
      /\ KeysNow' = [KeysNow EXCEPT ![a] = NotCached]
  BY CacheWrite DEF Create
<1> QED BY <1>1, <1>2, <1>3 DEF Create, Cache!Point

\* A PATCH that changes no URL cannot be told from no step.
LEMMA PatchIsPoint ==
  ASSUME TypeOK, NEW a \in Anchor, NEW u \in Urls, Patch(a, u)
  PROVE  Cache!Point(a, u) \/ UNCHANGED Cache!vars
<1>1. row[a].urls \in Urls /\ row[a].jwks \in Cached \cup {NotCached}
  BY LiveRow DEF Patch
<1>2. CASE u = row[a].urls
  <2>1. row' = [row EXCEPT ![a] = [status |-> "live", urls |-> u, jwks |-> row[a].jwks]]
    BY <1>2 DEF Patch, PatchedJwks
  <2>2. UNCHANGED <<UrlsNow, KeysNow>>
    BY <1>1, <1>2, <2>1, HiddenWrite DEF Patch
  <2> QED BY <2>2 DEF Patch, Cache!vars
<1>3. CASE u # row[a].urls
  <2>1. /\ UrlsNow' = [UrlsNow EXCEPT ![a] = u]
        /\ KeysNow' = [KeysNow EXCEPT ![a] = NotCached]
    BY <1>3, CacheWrite DEF Patch, PatchedJwks
  <2>2. u # UrlsNow[a] /\ Cache!Free(a, u.issuer)
    BY <1>3, LiveNow, FreeNow DEF Patch
  <2> QED BY <2>1, <2>2 DEF Patch, Cache!Point
<1> QED BY <1>2, <1>3

LEMMA DeleteIsRemove ==
  ASSUME TypeOK, NEW a \in Anchor, Delete(a)
  PROVE  Cache!Remove(a)
<1>1. /\ row'[a].status # "live"
      /\ \A b \in Anchor \ {a} : row'[b] = row[b]
  BY DEF Delete, TypeOK
<1>2. UrlsNow'[a] = NotCached /\ KeysNow'[a] = NotCached
  BY <1>1 DEF UrlsNow, KeysNow, Live
<1>3. \A b \in Anchor \ {a} : UrlsNow'[b] = UrlsNow[b] /\ KeysNow'[b] = KeysNow[b]
  BY <1>1, SameRow
<1>4. UrlsNow[a] # NotCached
  BY LiveNow DEF Delete
<1> QED BY <1>2, <1>3, <1>4 DEF Delete, Cache!Remove, UrlsNow, KeysNow

LEMMA GoStaleIsHidden ==
  ASSUME TypeOK, NEW a \in Anchor, GoStale(a)
  PROVE  UNCHANGED Cache!vars
<1>1. row[a].urls \in Urls /\ row[a].jwks \in Cached /\ row[a].jwks # NotCached
  BY LiveRow DEF GoStale, NotCached
<1> DEFINE old == [cachedAt |-> "stale", keys |-> row[a].jwks.keys]
<1>2. old \in Cached /\ old # NotCached /\ old.keys = row[a].jwks.keys
  BY <1>1 DEF Cached, NotCached
<1>3. row' = [row EXCEPT ![a] = [status |-> "live", urls |-> row[a].urls, jwks |-> old]]
  BY DEF GoStale
<1> HIDE DEF old
<1>4. Live(a)
  BY DEF GoStale
<1>5. UNCHANGED <<UrlsNow, KeysNow>>
  BY <1>1, <1>2, <1>3, <1>4, HiddenWrite
<1> QED BY <1>5 DEF GoStale, Cache!vars

\* The write, if its WHERE clause holds, is the one step in which the cache
\* refreshes; otherwise nobody can tell that it was tried.
LEMMA WriteIsRefresh ==
  ASSUME CacheInv, NEW p \in Proc, Write(p)
  PROVE  (\E a \in Anchor : Cache!Refresh(a)) \/ UNCHANGED Cache!vars
<1> DEFINE item == pass[p].item
           keys == pass[p].keys
           new  == [cachedAt |-> "fresh", keys |-> keys]
<1>1. TypeOK /\ pass[p] \in Writing
  BY PassAt DEF CacheInv, Write
<1>2. item.id \in Anchor /\ keys \in Keyset
  BY <1>1 DEF Writing, Listed
<1>3. keys.source = Source(item.urls) /\ keys.version <= version[keys.source]
  BY DEF CacheInv, FetchedFromListed, FetchedWasOffered, Write
<1>4. CASE StillHasUrls(item)
  <2>1. Live(item.id) /\ row[item.id].urls = item.urls
    BY <1>4 DEF StillHasUrls
  <2>2. row[item.id].urls \in Urls
    BY <1>1, <1>2, <2>1, LiveRow
  <2>3. new \in Cached /\ new # NotCached /\ new.keys = keys
    BY <1>2 DEF Cached, NotCached
  <2>4. row' = [row EXCEPT ![item.id] =
                 [status |-> "live", urls |-> row[item.id].urls, jwks |-> new]]
    BY <1>4 DEF Write
  <2>5. UrlsNow[item.id] = item.urls /\ UrlsNow[item.id] # NotCached
    BY <1>1, <1>2, <2>1, LiveNow
  <2>6. Cache!Origin(UrlsNow[item.id]) = keys.source
    BY <1>3, <2>5 DEF Cache!Origin, Source
  <2>7. /\ keys.version \in 0..version[keys.source]
        /\ keys = [source |-> keys.source, version |-> keys.version]
    BY <1>1, <1>2, <1>3, JwksAssumption DEF Keyset, TypeOK
  <2> HIDE DEF item, keys, new
  <2>8. /\ UrlsNow' = [UrlsNow EXCEPT ![item.id] = row[item.id].urls]
        /\ KeysNow' = [KeysNow EXCEPT ![item.id] = keys]
    BY <1>1, <1>2, <2>2, <2>3, <2>4, CacheWrite
  <2>9. UrlsNow' = UrlsNow
    BY <2>1, <2>5, <2>8 DEF UrlsNow
  <2>10. version' = version
    BY DEF Write
  <2>11. Cache!Refresh(item.id)
    BY <2>5, <2>6, <2>7, <2>8, <2>9, <2>10 DEF Cache!Refresh
  <2> QED BY <1>2, <2>11
<1>5. CASE ~StillHasUrls(item)
  BY <1>5, CacheStutter DEF Write, Cache!vars
<1> QED BY <1>4, <1>5

LEMMA CacheStep == CacheInv /\ [Next]_vars => [Cache!Next]_Cache!vars
<1> SUFFICES ASSUME CacheInv, [Next]_vars
             PROVE  Cache!Next \/ UNCHANGED Cache!vars
  OBVIOUS
<1>0. TypeOK
  BY DEF CacheInv
<1>1. CASE UNCHANGED <<row, version>>
  BY <1>1, CacheStutter DEF Cache!vars
<1>2. ASSUME NEW a \in Anchor, NEW u \in Urls, Create(a, u) \/ Patch(a, u)
      PROVE  Cache!Next \/ UNCHANGED Cache!vars
  BY <1>0, <1>2, CreateIsPoint, PatchIsPoint DEF Cache!Next, Urls
<1>3. ASSUME NEW a \in Anchor, Delete(a) \/ GoStale(a)
      PROVE  Cache!Next \/ UNCHANGED Cache!vars
  BY <1>0, <1>3, DeleteIsRemove, GoStaleIsHidden DEF Cache!Next
<1>4. ASSUME NEW s \in Issuer \cup JwksUrl, Rotate(s)
      PROVE  Cache!Next
  BY <1>4, CacheStutter DEF Rotate, Cache!Rotate, Cache!Next
<1>5. ASSUME NEW p \in Proc, Write(p)
      PROVE  Cache!Next \/ UNCHANGED Cache!vars
  BY <1>5, WriteIsRefresh DEF Cache!Next
<1>6. ASSUME NEW p \in Proc, Refresh(p) \/ Crash(p), ~Write(p)
      PROVE  UNCHANGED <<row, version>>
  BY <1>6 DEF Refresh, StartPass, Fetch, FetchFails, WriteFails, Crash
<1> QED BY <1>1, <1>2, <1>3, <1>4, <1>5, <1>6 DEF Next, vars

LEMMA CacheInvariant == Spec => []CacheInv
<1>1. Spec => []FetchedWasOffered
  BY OfferedInit, OfferedNext, TypeCorrect, PTL DEF Spec
<1>2. Spec => []KeysInv
  BY KeysInit, KeysNext, TypeCorrect, PTL DEF Spec
<1>3. TypeOK /\ KeysInv /\ FetchedWasOffered => CacheInv
  BY DEF KeysInv, CacheInv
<1> QED BY <1>1, <1>2, <1>3, TypeCorrect, PTL

\* Passes of several replicas that fetch for as long as they like, skip, fail
\* and crash are, to the readers of the cache, single refreshes from the source
\* the anchor names at that moment.
THEOREM ImplementsAnchorCache == Spec => ImplementsCache
BY CacheInvariant, CacheInit, CacheStep, PTL
DEF Spec, ImplementsCache, Cache!Spec

\* A step of AnchorCache that keeps an anchor's URLs keeps it cached.
LEMMA CacheKeeps ==
  ASSUME CacheInv, [Next]_vars, NEW a \in Anchor,
         Live(a), row[a].jwks # NotCached, Live(a)', row'[a].urls = row[a].urls
  PROVE  row'[a].jwks # NotCached
<1>1. TypeOK /\ TypeOK'
  BY TypeNext DEF CacheInv
<1>2. \A k \in Keyset : k # NotCached
  BY DEF Keyset, NotCached
<1>3. row[a].jwks.keys \in Keyset
  BY <1>1, LiveRow DEF Cached
<1>4. KeysNow[a] # NotCached
  BY <1>2, <1>3 DEF KeysNow
<1>5. UrlsNow[a] = row[a].urls /\ UrlsNow'[a] = UrlsNow[a]
  BY DEF UrlsNow, Live
<1>6. KeysNow'[a] # NotCached
  <2>1. CASE UNCHANGED Cache!vars
    BY <1>4, <2>1 DEF Cache!vars
  <2>2. ASSUME NEW b \in Anchor, NEW u, Cache!Point(b, u)
        PROVE  KeysNow'[a] # NotCached
    <3>1. b # a
      BY <1>5, <2>2 DEF Cache!Point, UrlsNow
    <3> QED BY <1>4, <2>2, <3>1 DEF Cache!Point, KeysNow
  <2>3. ASSUME NEW b \in Anchor, Cache!Remove(b)
        PROVE  KeysNow'[a] # NotCached
    <3>1. b # a
      BY <1>5, <2>3 DEF Cache!Remove, UrlsNow
    <3> QED BY <1>4, <2>3, <3>1 DEF Cache!Remove, KeysNow
  <2>4. ASSUME NEW b \in Anchor, Cache!Refresh(b)
        PROVE  KeysNow'[a] # NotCached
    <3>1. PICK v : KeysNow' = [KeysNow EXCEPT ![b] =
                                 [source |-> Cache!Origin(UrlsNow[b]), version |-> v]]
      BY <2>4 DEF Cache!Refresh
    <3>2. [source |-> Cache!Origin(UrlsNow[b]), version |-> v] # NotCached
      BY DEF NotCached
    <3> QED BY <1>4, <3>1, <3>2 DEF KeysNow
  <2>5. CASE \E s \in Issuer \cup JwksUrl : Cache!Rotate(s)
    BY <1>4, <2>5 DEF Cache!Rotate
  <2> QED BY <2>1, <2>2, <2>3, <2>4, <2>5, CacheStep DEF Cache!Next
<1> QED BY <1>6 DEF KeysNow

\* No failed fetch, skipped write or edit of other columns clears the cache.
THEOREM KeysAreKept == Spec => LastGoodKeysAreKept
<1>1. CacheInv /\ [Next]_vars =>
        [\A a \in Anchor :
           /\ Live(a) /\ row[a].jwks # NotCached
           /\ row'[a].status = "live" /\ row'[a].urls = row[a].urls
           => row'[a].jwks # NotCached]_vars
  BY CacheKeeps DEF Live
<1> QED BY <1>1, CacheInvariant, PTL DEF Spec, LastGoodKeysAreKept
=============================================================================
