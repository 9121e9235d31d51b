----------------------------- MODULE ImagePins -----------------------------
(***************************************************************************)
(* What scripts/verify-image.mjs says about a built image: `verify' checks *)
(* it against the two committed files of pins, `--update-baseline' takes   *)
(* new pins from it.                                                       *)
(*                                                                         *)
(* The gate of src/proxy.ts reaches a request only if the compiled matcher *)
(* attaches it to the path, no rewrite leads to the handler from elsewhere *)
(* and the compiled code is the reviewed one.  The checks see each of      *)
(* these through one manifest or probe and one pin.  An entry of the table *)
(* dataRoutes may lead to a handler from elsewhere, too; the tables are    *)
(* pinned only to see that they change, and no check asks where an entry   *)
(* leads.                                                                  *)
(***************************************************************************)
EXTENDS FiniteSets

CONSTANTS
  Path,       \* request paths
  Route,      \* built routes; a dynamic one serves several paths
  Instance,   \* the paths of a route
  Sample,     \* the one path the probe puts in a route's place
  Floor,      \* PINNED_MATCHER_MUST_COVER; the live checks request paths of it
  Public,     \* PUBLIC_PATHS_PINNED
  Images,     \* the images a run may be pointed at
  Reviewed    \* the one the first pins were taken from

Readings == {"structure", "middleware", "routes", "manifest"}

(* A run takes them all, or one of them fails.                             *)
Reads == {Readings} \cup {Readings \ {r} : r \in Readings}

(* Lists of the baseline that an update may add to but not silently shrink.*)
Lists == {"externals", "matchers", "routes", "rewrites", "tables"}

(* A matcher is the set of paths its regexp matches; `conditional' are     *)
(* those with a `has' or `missing'.  A rewrite is its destination.  The    *)
(* middleware manifest is empty or a set of matchers that replace the      *)
(* others.                                                                 *)
Rewrite == {"external", "captures"} \cup Path

(* An entry of routes-manifest.json, by the route that serves its page.    *)
(* (The order of the entries, which is pinned as well, is left out.)       *)
Entry == [table : {"dataRoutes", "dynamicRoutes", "staticRoutes"}, page : Route]

ASSUME ImageAssumption ==
  /\ Instance \in [Route -> SUBSET Path]
  /\ \A r \in Route : Sample[r] \in Instance[r]
  /\ Floor \subseteq Path /\ Public \subseteq Path
  /\ {"external", "captures"} \cap Path = {}
  /\ Reviewed \in Images
  /\ \A im \in Images :
       /\ im.intact \in BOOLEAN
       /\ im.routes \subseteq Route /\ im.rewrites \subseteq Rewrite
       /\ im.tables \subseteq Entry
       /\ im.matchers \cup im.manifest \subseteq SUBSET Path
       /\ im.conditional \subseteq im.matchers
       /\ im.gate \in {"reviewed", "edited", "unreadable"}

VARIABLES
  pins,        \* image-artifact-baseline.json: one record, or none that parses
  canonical,   \* image-gate-canonical.txt
  u,           \* a run with --update-baseline
  v,           \* a verifying run
  consent      \* what has been agreed to so far: "removals", "gate", and
               \* "blank" when there was no baseline to compare with

vars == <<pins, canonical, u, v, consent>>

-----------------------------------------------------------------------------
(* What really happens to a request of the image.                          *)

Paths(im) == UNION {Instance[r] : r \in im.routes}

(* The router takes the matchers of middleware-manifest.json if it has     *)
(* any, those of functions-config-manifest.json otherwise.                 *)
Attached(im, matchers) == UNION (IF im.manifest # {} THEN im.manifest ELSE matchers)

Matched(im) == Attached(im, im.matchers \ im.conditional)

(* The first pins were taken from an image whose gate covered its paths,   *)
(* and not by the manifest an update refuses.                              *)
ASSUME ReviewedAssumption ==
  /\ Reviewed.manifest = {}
  /\ Paths(Reviewed) \ Public \subseteq Matched(Reviewed)

Reach(im, d) ==
  CASE d = "external" -> {}
    [] d = "captures" -> Paths(im)
    [] OTHER -> {d} \cap Paths(im)

(* The router compiles the regexp of an entry of dataRoutes straight from  *)
(* the manifest: it may match a path outside the gate, and hand it to the  *)
(* entry's page.  That of an entry of dynamicRoutes it compiles anew from  *)
(* the page, and staticRoutes it does not read: these lead nowhere else in *)
(* the Next version the framework tree is pinned to.                       *)
Aliased(im) ==
  Paths(im) \cap
    (UNION {Instance[e.page] : e \in {f \in im.tables : f.table = "dataRoutes"}})

(* Paths whose handler some request may reach without passing the gate.    *)
Open(im) ==
  ((Paths(im) \ Matched(im)) \cup Aliased(im)
     \cup UNION {Reach(im, d) : d \in im.rewrites}) \ Public

-----------------------------------------------------------------------------
(* What the run reads of it.                                               *)

(* A probe or a read that failed leaves its lists empty.                   *)
Externals(im, reads) == IF "structure" \in reads THEN im.externals ELSE {}

Middleware(im, reads) ==
  IF "middleware" \in reads THEN [matchers |-> im.matchers, routes |-> im.routes]
  ELSE [matchers |-> {}, routes |-> {}]

RoutesManifest(im, reads) ==
  IF "routes" \in reads THEN [rewrites |-> im.rewrites, tables |-> im.tables]
  ELSE [rewrites |-> {}, tables |-> {}]

MiddlewareManifest(im, reads) == IF "manifest" \in reads THEN {im.manifest} ELSE {}

(* The compiled gate, and what starts before it: the image's configuration *)
(* and the loader it requires.                                             *)
GatePin(im) == im.gate
BootPin(im) == im.boot

Measured(im, reads) ==
  [externals |-> Externals(im, reads),
   matchers  |-> Middleware(im, reads).matchers,
   routes    |-> Middleware(im, reads).routes,
   rewrites  |-> RoutesManifest(im, reads).rewrites,
   tables    |-> RoutesManifest(im, reads).tables,
   gate      |-> GatePin(im),
   boot      |-> BootPin(im)]

AllMeasured(im) == Measured(im, Readings)

NoUpdate == [pc |-> "idle", new |-> AllMeasured(Reviewed)]
NoVerify == [pc |-> "idle", image |-> Reviewed, pins |-> AllMeasured(Reviewed)]

(* Checks 1 to 4.                                                          *)
Structural(im, reads) == im.intact /\ "structure" \in reads

(* classifyRewrite: is a destination outside what these matchers gate?     *)
Harmless(d, matchers) ==
  \/ d = "external"
  \/ d \in Path /\ (d \notin UNION matchers \/ d \in Public)

Uncovered(im) == {r \in im.routes : Sample[r] \notin UNION im.matchers}

-----------------------------------------------------------------------------
(* --update-baseline.                                                      *)

Refused(im, reads) ==
  \/ ~Structural(im, reads)
  \/ "middleware" \in reads /\ im.conditional # {}
  \/ im.gate = "unreadable"
  \/ "routes" \notin reads
  \/ \E d \in im.rewrites : ~Harmless(d, Measured(im, reads).matchers)
  \/ MiddlewareManifest(im, reads) # {{}}

(* (Only inventories are compared, and the matchers are not one.)          *)
InventoryVanished(prev, new) == \E l \in Lists \ {"matchers"} : prev[l] \ new[l] # {}

Vanished(prev, new) == \E l \in Lists : prev[l] \ new[l] # {}

GateChanged(prev, new) == prev.boot # new.boot \/ canonical # new.gate

(* The image is read, what is refused outright is refused, and the new     *)
(* pins are compared with the present ones - if these can be read.         *)
Update(im, reads, flags) ==
  LET new == Measured(im, reads) IN
  /\ u.pc = "idle"
  /\ ~Refused(im, reads)
  /\ \A prev \in pins : /\ Vanished(prev, new) => "removals" \in flags
                        /\ GateChanged(prev, new) => "gate" \in flags
  /\ u' = [pc |-> "baseline", new |-> new]
  /\ consent' = consent \cup flags \cup (IF pins = {} THEN {"blank"} ELSE {})
  /\ UNCHANGED <<pins, canonical, v>>

WriteBaseline ==
  /\ u.pc = "baseline"
  /\ pins' = {u.new}
  /\ u' = [u EXCEPT !.pc = "canonical"]
  /\ UNCHANGED <<canonical, v, consent>>

WriteCanonical ==
  /\ u.pc = "canonical"
  /\ canonical' = u.new.gate
  /\ u' = NoUpdate
  /\ UNCHANGED <<pins, v, consent>>

(* The run dies before a write, or in it: the file is truncated by then.   *)
Crash ==
  /\ u.pc # "idle"
  /\ u' = NoUpdate
  /\ \/ UNCHANGED <<pins, canonical>>
     \/ u.pc = "baseline" /\ pins' = {} /\ UNCHANGED canonical
     \/ u.pc = "canonical" /\ canonical' = "cut" /\ UNCHANGED pins
  /\ UNCHANGED <<v, consent>>

-----------------------------------------------------------------------------
(* A verifying run.  A failed check is recorded and the others still run;  *)
(* they change nothing, so such a run is not followed any further.         *)

(* Checks 5 and 6.                                                         *)
ExternalsMatch(im, b) == b.externals = im.externals /\ b.externals # {}

(* Check 24.                                                               *)
RewritesMatch(im, b) == b.rewrites = im.rewrites

(* Check 25: no rewrite of the image, and none of the pin, reaches a path  *)
(* the PINNED matchers gate.                                               *)
RewritesHarmless(im, b) ==
  /\ b.matchers # {}
  /\ \A p \in Public : \E r \in b.routes : p \in Instance[r]
  /\ \A d \in im.rewrites \cup b.rewrites : Harmless(d, b.matchers)

(* (The other manifest is never looked at.)                                *)
ManifestIgnored(im, reads) == TRUE

(* Check 26.                                                               *)
ManifestEmpty(im, reads) == MiddlewareManifest(im, reads) = {{}}

(* Check 27: the three tables are the pinned ones, wherever they lead.     *)
TablesMatch(im, b) == b.tables = im.tables

(* Check 11: the matchers are the pinned ones and unconditional, ...       *)
MatchersPinned(im, b) ==
  b.matchers # {} /\ im.conditional = {} /\ im.matchers = b.matchers

(* ... the pinned ones still cover the floor, every route is covered, and  *)
(* the routes are the pinned ones.                                         *)
FloorPinned(b) == Floor \subseteq UNION b.matchers
RoutesPinned(im, b) == b.routes # {} /\ im.routes = b.routes

MatcherCovers(im, b) ==
  MatchersPinned(im, b) /\ FloorPinned(b) /\ Uncovered(im) = {} /\ RoutesPinned(im, b)

Failed == [NoVerify EXCEPT !.pc = "failed"]
Continue(passed, at) == v' = IF passed THEN [v EXCEPT !.pc = at] ELSE Failed

(* The pins are read once, at the start; what they cannot be read for is   *)
(* a failure.  The readings of the image are all taken by then.            *)
VerifyStatic(im, reads) ==
  /\ v.pc = "idle"
  /\ \E b \in pins :
       IF /\ Structural(im, reads) /\ reads = Readings
          /\ ExternalsMatch(im, b) /\ RewritesMatch(im, b)
          /\ RewritesHarmless(im, b) /\ ManifestEmpty(im, reads) /\ TablesMatch(im, b)
       THEN v' = [pc |-> "live", image |-> im, pins |-> b]
       ELSE v' = Failed
  /\ UNCHANGED <<pins, canonical, u, consent>>

(* Containers are started from the image and requests sent to it, without  *)
(* a cookie: a conditional matcher attaches the gate to these.  They may   *)
(* fail for reasons of their own.                                          *)
Answers(im) == Floor \cup Public \subseteq Attached(im, im.matchers)

VerifyLive ==
  /\ v.pc = "live"
  /\ \E answers \in BOOLEAN :
       /\ answers => Answers(v.image)
       /\ Continue(answers /\ MatcherCovers(v.image, v.pins), "gate")
  /\ UNCHANGED <<pins, canonical, u, consent>>

(* (The copy is compared with the image alone.)                            *)
RegionMatches(im, b) == im.gate = canonical /\ im.boot = b.boot

(* Check 13.  The canonical copy is read only now.                         *)
GateMatches(im, b) ==
  /\ canonical \notin {"cut"} /\ canonical = b.gate
  /\ im.gate # "unreadable" /\ im.gate = canonical
  /\ im.boot = b.boot

VerifyGate ==
  /\ v.pc = "gate"
  /\ Continue(GateMatches(v.image, v.pins), "relay")
  /\ UNCHANGED <<pins, canonical, u, consent>>

(* Checks 14 to 19: the retired route, the envelopes, the relay and CORS.  *)
VerifyRelay ==
  /\ v.pc = "relay"
  /\ \E answers \in BOOLEAN : Continue(answers, "otel")
  /\ UNCHANGED <<pins, canonical, u, consent>>

(* Checks 20 to 23: once more the live checks of the gate, in a container  *)
(* with the tracing SDK loaded.                                            *)
VerifyOtel ==
  /\ v.pc = "otel"
  /\ \E answers \in BOOLEAN :
       /\ answers => Answers(v.image)
       /\ Continue(answers, "done")
  /\ UNCHANGED <<pins, canonical, u, consent>>

(* The run ends, with exit 0 only when it is done; containers that do not  *)
(* start and an interrupt end it too.                                      *)
VerifyEnds ==
  /\ v.pc # "idle"
  /\ v' = NoVerify
  /\ UNCHANGED <<pins, canonical, u, consent>>

-----------------------------------------------------------------------------
Init ==
  /\ pins = {AllMeasured(Reviewed)} /\ canonical = Reviewed.gate
  /\ u = NoUpdate /\ v = NoVerify
  /\ consent = {}

Next ==
  \/ \E im \in Images, reads \in Reads :
       \/ \E flags \in SUBSET {"removals", "gate"} : Update(im, reads, flags)
       \/ VerifyStatic(im, reads)
  \/ WriteBaseline \/ WriteCanonical \/ Crash
  \/ VerifyLive \/ VerifyGate \/ VerifyRelay \/ VerifyOtel \/ VerifyEnds

Spec == Init /\ [][Next]_vars

-----------------------------------------------------------------------------
Passed == v.pc = "done"

(* Whatever the pins say and however they came to be: in an image that     *)
(* passes, the sampled path of every route and every path of the floor is  *)
(* gated, unless it is public (checks 11, 25 and 26) - or an entry of      *)
(* dataRoutes leads to it, since check 27 compares the tables with their   *)
(* pin and does not ask where they lead.                                   *)
PassIsGated ==
  Passed =>
    Open(v.image) \cap (Floor \cup {Sample[r] : r \in v.image.routes})
      \subseteq Aliased(v.image)

(* With no consent given and the baseline never unreadable, an image that  *)
(* passes has everything the reviewed image had, by the reviewed gate (the *)
(* two refusals of --update-baseline).  Every path the reviewed image had  *)
(* is gated, also those no probe and no request looked at, except where an *)
(* entry of dataRoutes leads to it: an update adds such an entry unasked.  *)
NothingMovesUnasked ==
  Passed =>
    /\ consent \cap {"removals", "blank"} = {} =>
         /\ \A l \in Lists : AllMeasured(Reviewed)[l] \subseteq AllMeasured(v.image)[l]
         /\ Open(v.image) \cap Paths(Reviewed) \subseteq Aliased(v.image)
    /\ consent \cap {"gate", "blank"} = {} =>
         v.image.gate = Reviewed.gate /\ v.image.boot = Reviewed.boot

(* An image that passes is in everything pinned the image of ONE update,   *)
(* although the pins are two files, written and read at different times    *)
(* (check 13 compares the copy's digest with the baseline's).              *)
PassedAsPinned == Passed => AllMeasured(v.image) = v.pins
=============================================================================
