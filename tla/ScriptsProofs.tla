--------------------------- MODULE ScriptsProofs ---------------------------
(***************************************************************************)
(* Theorems about ImagePins, for any images, routes and paths, about       *)
(* Teardown, for any plan and any windows of its sweeps, and about         *)
(* StreamClient, for any alphabet, any chunk-size lines and any answers.   *)
(*                                                                         *)
(* What a passing run knows is collected check by check (Checked).  That   *)
(* nothing moves unasked is a property of the files: it goes from the pins *)
(* that are on disk to those an update is about to write and those a       *)
(* verifying run has read, as long as no consent is recorded (Unasked).    *)
(*                                                                         *)
(* A silent exit is clean because a sweep that is over has watched a whole *)
(* window after the sweep before it, so that what comes later comes beyond *)
(* the teardown's reach (Watched); that it ends at all is a bound of the   *)
(* clock, sweep by sweep (ClockInv).                                       *)
(*                                                                         *)
(* The stream's decoder stands at a place of the wire (Decodes): it has    *)
(* taken the first k writes, holds the bytes from place c on, and its      *)
(* state says what begins there.  Each turn of its loop goes from one such *)
(* place to another (TurnMoves) and takes a byte or ends it, so that push()*)
(* comes to rest where the bytes that arrived let it go no further         *)
(* (StuckFacts) - wherever the segments were cut.  The lengths that are    *)
(* induced over (FlattenSeq, Split, Loop, Chunks) are induced over as sets *)
(* of naturals (NatInduct, PrimRec).                                       *)
(***************************************************************************)
EXTENDS ImagePins, Teardown, StreamClient, FiniteSetTheorems, SequenceTheorems,
        WellFoundedInduction, TLAPS

Pinned == {Measured(im, reads) : im \in Images, reads \in SUBSET Readings}

PinsType ==
  /\ pins \subseteq Pinned
  /\ u \in [pc : {"idle", "baseline", "canonical"}, new : Pinned]
  /\ v \in [pc : {"idle", "live", "gate", "relay", "otel", "done", "failed"},
            image : Images, pins : Pinned]

Static(im, b) ==
  /\ ExternalsMatch(im, b) /\ RewritesMatch(im, b) /\ RewritesHarmless(im, b)
  /\ ManifestEmpty(im, Readings) /\ TablesMatch(im, b)

Checked ==
  /\ v.pc \in {"live", "gate", "relay", "otel", "done"} => Static(v.image, v.pins)
  /\ v.pc \in {"gate", "relay", "otel", "done"} => MatcherCovers(v.image, v.pins)
  /\ v.pc \in {"relay", "otel", "done"} =>
       v.image.gate = v.pins.gate /\ v.image.boot = v.pins.boot

Kept(b) == \A l \in Lists : AllMeasured(Reviewed)[l] \subseteq b[l]
Same(b) == b.gate = Reviewed.gate /\ b.boot = Reviewed.boot
Known == pins \cup {u.new, v.pins}

Unasked ==
  /\ consent \cap {"removals", "blank"} = {} => \A b \in Known : Kept(b)
  /\ consent \cap {"gate", "blank"} = {} =>
       (\A b \in Known : Same(b)) /\ canonical \in {Reviewed.gate, "cut"}

IInv == PinsType /\ Checked /\ Unasked

-----------------------------------------------------------------------------
(* The records.                                                            *)

LEMMA MeasuredFields ==
  ASSUME NEW im, NEW reads
  PROVE  /\ Measured(im, reads).gate = im.gate
         /\ Measured(im, reads).boot = im.boot
BY DEF Measured, GatePin, BootPin

LEMMA AllMeasuredFields ==
  ASSUME NEW im
  PROVE  /\ AllMeasured(im)["externals"] = im.externals
         /\ AllMeasured(im)["matchers"] = im.matchers
         /\ AllMeasured(im)["routes"] = im.routes
         /\ AllMeasured(im)["rewrites"] = im.rewrites
         /\ AllMeasured(im)["tables"] = im.tables
         /\ AllMeasured(im).gate = im.gate
         /\ AllMeasured(im).boot = im.boot
BY DEF AllMeasured, Measured, Readings, Externals, Middleware, RoutesManifest,
       GatePin, BootPin

LEMMA PinnedFields ==
  ASSUME NEW b \in Pinned
  PROVE  b = [externals |-> b.externals, matchers |-> b.matchers, routes |-> b.routes,
              rewrites |-> b.rewrites, tables |-> b.tables, gate |-> b.gate,
              boot |-> b.boot]
BY DEF Pinned, Measured

LEMMA ReviewedIsPinned == AllMeasured(Reviewed) \in Pinned
BY ImageAssumption DEF AllMeasured, Pinned

LEMMA ReviewedIsKept ==
  Kept(AllMeasured(Reviewed)) /\ Same(AllMeasured(Reviewed))
BY AllMeasuredFields DEF Kept, Same

-----------------------------------------------------------------------------
(* Types.                                                                  *)

(* Next, without its quantifiers.                                          *)
LEMMA Steps ==
  ASSUME Next, NEW P,
         ASSUME NEW im \in Images, NEW reads \in SUBSET Readings,
                NEW flags \in SUBSET {"removals", "gate"}, Update(im, reads, flags)
         PROVE  P,
         ASSUME NEW im \in Images, NEW reads \in SUBSET Readings, VerifyStatic(im, reads)
         PROVE  P,
         WriteBaseline => P, WriteCanonical => P, Crash => P,
         VerifyLive => P, VerifyGate => P, VerifyRelay => P, VerifyOtel => P,
         VerifyEnds => P
  PROVE  P
BY DEF Next, Reads

LEMMA TypeStep ==
  ASSUME PinsType, [Next]_vars
  PROVE  PinsType'
<1> USE ReviewedIsPinned DEF PinsType
<1>1. ASSUME NEW im \in Images, NEW reads \in SUBSET Readings,
             NEW flags \in SUBSET {"removals", "gate"}, Update(im, reads, flags)
      PROVE  PinsType'
  <2>1. Measured(im, reads) \in Pinned
    BY DEF Pinned
  <2> QED BY <1>1, <2>1 DEF Update
<1>2. ASSUME NEW im \in Images, NEW reads \in SUBSET Readings, VerifyStatic(im, reads)
      PROVE  PinsType'
  BY <1>2, ImageAssumption DEF VerifyStatic, Failed, NoVerify
<1>3. CASE WriteBaseline
  BY <1>3 DEF WriteBaseline
<1>4. CASE WriteCanonical
  BY <1>4 DEF WriteCanonical, NoUpdate
<1>5. CASE Crash
  BY <1>5 DEF Crash, NoUpdate
<1>6. CASE VerifyLive
  BY <1>6, ImageAssumption DEF VerifyLive, Continue, Failed, NoVerify
<1>7. CASE VerifyGate
  BY <1>7, ImageAssumption DEF VerifyGate, Continue, Failed, NoVerify
<1>8. CASE VerifyRelay \/ VerifyOtel
  BY <1>8, ImageAssumption DEF VerifyRelay, VerifyOtel, Continue, Failed, NoVerify
<1>9. CASE VerifyEnds
  BY <1>9, ImageAssumption DEF VerifyEnds, NoVerify
<1>10. CASE UNCHANGED vars
  BY <1>10 DEF vars
<1>11. CASE Next
  BY <1>1, <1>2, <1>3, <1>4, <1>5, <1>6, <1>7, <1>8, <1>9, <1>11, Steps
<1> QED BY <1>10, <1>11

-----------------------------------------------------------------------------
(* What a run has found out.                                               *)

LEMMA CheckedStep ==
  ASSUME PinsType, Checked, [Next]_vars
  PROVE  Checked'
<1> USE DEF PinsType, Checked
<1>1. ASSUME NEW im \in Images, NEW reads \in SUBSET Readings, VerifyStatic(im, reads)
      PROVE  Checked'
  <2>1. PICK b \in pins :
          IF Structural(im, reads) /\ reads = Readings /\ Static(im, b)
          THEN v' = [pc |-> "live", image |-> im, pins |-> b]
          ELSE v' = Failed
    BY <1>1 DEF VerifyStatic, Static
  <2>2. CASE Static(im, b) /\ v' = [pc |-> "live", image |-> im, pins |-> b]
    BY <2>2
  <2>3. CASE v' = Failed
    BY <2>3 DEF Failed, NoVerify
  <2> QED BY <2>1, <2>2, <2>3
<1>2. ASSUME UNCHANGED v PROVE Checked'
  BY <1>2
<1>3. CASE VerifyLive
  <2>1. CASE MatcherCovers(v.image, v.pins) /\ v' = [v EXCEPT !.pc = "gate"]
    BY <1>3, <2>1 DEF VerifyLive
  <2>2. CASE v' = Failed
    BY <2>2 DEF Failed, NoVerify
  <2> QED BY <1>3, <2>1, <2>2 DEF VerifyLive, Continue
<1>4. CASE VerifyGate
  <2>1. CASE GateMatches(v.image, v.pins) /\ v' = [v EXCEPT !.pc = "relay"]
    BY <1>4, <2>1 DEF VerifyGate, GateMatches
  <2>2. CASE v' = Failed
    BY <2>2 DEF Failed, NoVerify
  <2> QED BY <1>4, <2>1, <2>2 DEF VerifyGate, Continue
<1>5. CASE VerifyRelay \/ VerifyOtel
  <2>1. ASSUME NEW next \in {"otel", "done"}, v.pc \in {"relay", "otel"},
               v' = [v EXCEPT !.pc = next]
        PROVE  Checked'
    BY <2>1
  <2>2. CASE v' = Failed
    BY <2>2 DEF Failed, NoVerify
  <2> QED BY <1>5, <2>1, <2>2 DEF VerifyRelay, VerifyOtel, Continue
<1>6. CASE VerifyEnds
  BY <1>6 DEF VerifyEnds, NoVerify
<1>7. ASSUME NEW im \in Images, NEW reads \in SUBSET Readings,
             NEW flags \in SUBSET {"removals", "gate"}, Update(im, reads, flags)
      PROVE  Checked'
  BY <1>2, <1>7 DEF Update
<1>8. CASE WriteBaseline
  BY <1>2, <1>8 DEF WriteBaseline
<1>9. CASE WriteCanonical
  BY <1>2, <1>9 DEF WriteCanonical
<1>10. CASE Crash
  BY <1>2, <1>10 DEF Crash
<1>11. CASE UNCHANGED vars
  BY <1>2, <1>11 DEF vars
<1>12. CASE Next
  BY <1>1, <1>3, <1>4, <1>5, <1>6, <1>7, <1>8, <1>9, <1>10, <1>12, Steps
<1> QED BY <1>11, <1>12

-----------------------------------------------------------------------------
(* What moves with consent only.                                           *)

(* A step that asks for nothing and learns nothing new keeps it.           *)
LEMMA UnaskedFrame ==
  ASSUME Unasked, consent \subseteq consent', canonical' \in {canonical, "cut"},
         Known' \subseteq Known \cup {AllMeasured(Reviewed)}
  PROVE  Unasked'
<1>1. ASSUME consent' \cap {"removals", "blank"} = {}
      PROVE  \A b \in Known' : Kept(b)
  BY <1>1, ReviewedIsKept DEF Unasked
<1>2. ASSUME consent' \cap {"gate", "blank"} = {}
      PROVE  (\A b \in Known' : Same(b)) /\ canonical' \in {Reviewed.gate, "cut"}
  BY <1>2, ReviewedIsKept DEF Unasked
<1> QED BY <1>1, <1>2 DEF Unasked

(* An update may only go on from pins that are kept to pins that are kept. *)
LEMMA UpdateIsUnasked ==
  ASSUME PinsType, Unasked, NEW im \in Images, NEW reads \in SUBSET Readings,
         NEW flags \in SUBSET {"removals", "gate"}, Update(im, reads, flags)
  PROVE  Unasked'
<1> DEFINE new == Measured(im, reads)
<1>1. /\ u' = [pc |-> "baseline", new |-> new] /\ ~Refused(im, reads)
      /\ consent' = consent \cup flags \cup (IF pins = {} THEN {"blank"} ELSE {})
      /\ pins' = pins /\ canonical' = canonical /\ v' = v
      /\ \A prev \in pins : /\ Vanished(prev, new) => "removals" \in flags
                            /\ GateChanged(prev, new) => "gate" \in flags
  BY DEF Update
<1>2. Known' \subseteq Known \cup {new}
  BY <1>1 DEF Known
<1>3. ASSUME consent' \cap {"removals", "blank"} = {}
      PROVE  \A b \in Known' : Kept(b)
  <2>1. PICK prev \in pins : ~Vanished(prev, new)
    BY <1>1, <1>3
  <2>2. Kept(prev) /\ \A b \in Known : Kept(b)
    BY <1>1, <1>3 DEF Unasked, Known
  <2>3. Kept(new)
    BY <2>1, <2>2 DEF Kept, Vanished
  <2> QED BY <1>2, <2>2, <2>3
<1>4. ASSUME consent' \cap {"gate", "blank"} = {}
      PROVE  (\A b \in Known' : Same(b)) /\ canonical' \in {Reviewed.gate, "cut"}
  <2>1. PICK prev \in pins : ~GateChanged(prev, new)
    BY <1>1, <1>4
  <2>2. /\ Same(prev) /\ \A b \in Known : Same(b)
        /\ canonical \in {Reviewed.gate, "cut"}
    BY <1>1, <1>4 DEF Unasked, Known
  <2>3. new.gate # "cut"
    BY ImageAssumption, MeasuredFields
  <2>4. Same(new)
    BY <2>1, <2>2, <2>3 DEF Same, GateChanged
  <2> QED BY <1>1, <1>2, <2>2, <2>4
<1> QED BY <1>3, <1>4 DEF Unasked

LEMMA UnaskedStep ==
  ASSUME PinsType, Unasked, [Next]_vars
  PROVE  Unasked'
<1>1. ASSUME NEW im \in Images, NEW reads \in SUBSET Readings,
             NEW flags \in SUBSET {"removals", "gate"}, Update(im, reads, flags)
      PROVE  Unasked'
  BY <1>1, UpdateIsUnasked
<1>2. ASSUME NEW im \in Images, NEW reads \in SUBSET Readings, VerifyStatic(im, reads)
      PROVE  Unasked'
  <2>1. v'.pins \in pins \cup {AllMeasured(Reviewed)}
    BY <1>2 DEF VerifyStatic, Failed, NoVerify
  <2> QED BY <1>2, <2>1, UnaskedFrame DEF VerifyStatic, Known
<1>3. CASE WriteBaseline
  BY <1>3, UnaskedFrame DEF WriteBaseline, PinsType, Known
<1>4. CASE WriteCanonical
  <2>1. /\ consent' = consent /\ canonical' = u.new.gate
        /\ Known' \subseteq Known \cup {AllMeasured(Reviewed)}
    BY <1>4 DEF WriteCanonical, NoUpdate, Known
  <2>2. ASSUME consent \cap {"gate", "blank"} = {}
        PROVE  u.new.gate = Reviewed.gate
    BY <2>2 DEF Unasked, Known, Same
  <2> QED BY <2>1, <2>2, ReviewedIsKept DEF Unasked
<1>5. CASE Crash
  <2>1. u'.new = AllMeasured(Reviewed) /\ v' = v /\ consent' = consent
        /\ pins' \subseteq pins /\ canonical' \in {canonical, "cut"}
    BY <1>5 DEF Crash, NoUpdate
  <2> QED BY <2>1, UnaskedFrame DEF Known
<1>6. ASSUME v'.pins \in {v.pins, AllMeasured(Reviewed)}, UNCHANGED <<pins, canonical, u, consent>>
      PROVE  Unasked'
  BY <1>6, UnaskedFrame DEF Known
<1>7. CASE VerifyLive
  BY <1>6, <1>7 DEF VerifyLive, Continue, Failed, NoVerify, PinsType
<1>8. CASE VerifyGate
  BY <1>6, <1>8 DEF VerifyGate, Continue, Failed, NoVerify, PinsType
<1>9. CASE VerifyRelay \/ VerifyOtel
  BY <1>6, <1>9 DEF VerifyRelay, VerifyOtel, Continue, Failed, NoVerify, PinsType
<1>10. CASE VerifyEnds
  BY <1>6, <1>10 DEF VerifyEnds, NoVerify
<1>11. CASE UNCHANGED vars
  BY <1>6, <1>11 DEF vars
<1>12. CASE Next
  BY <1>1, <1>2, <1>3, <1>4, <1>5, <1>7, <1>8, <1>9, <1>10, <1>12, Steps
<1> QED BY <1>11, <1>12

-----------------------------------------------------------------------------
THEOREM Inductive == Spec => []IInv
<1>1. Init => IInv
  <2> SUFFICES ASSUME Init PROVE IInv
    OBVIOUS
  <2>1. PinsType
    BY ReviewedIsPinned, ImageAssumption DEF Init, PinsType, NoUpdate, NoVerify
  <2>2. Checked
    BY DEF Init, Checked, NoVerify
  <2>3. Known = {AllMeasured(Reviewed)}
    BY DEF Init, Known, NoUpdate, NoVerify
  <2>4. Unasked
    BY <2>3, ReviewedIsKept DEF Init, Unasked
  <2> QED BY <2>1, <2>2, <2>4 DEF IInv
<1>2. IInv /\ [Next]_vars => IInv'
  BY TypeStep, CheckedStep, UnaskedStep DEF IInv
<1> QED BY <1>1, <1>2, PTL DEF Spec

-----------------------------------------------------------------------------
(* What it comes to in a run that passed.                                  *)

(* The matchers the pins name are those that attach the gate.              *)
LEMMA PassedMatchers ==
  ASSUME PinsType, Checked, Passed
  PROVE  /\ v.image \in Images
         /\ Matched(v.image) = UNION v.image.matchers
         /\ v.image.matchers = v.pins.matchers
BY DEF PinsType, Checked, Passed, Static, ManifestEmpty, MiddlewareManifest, Readings,
       MatcherCovers, MatchersPinned, Matched, Attached

(* No rewrite leads into what they match; an entry of dataRoutes may.      *)
LEMMA OpenIsUnmatched ==
  ASSUME PinsType, Checked, Passed, NEW p \in Open(v.image), p \notin Aliased(v.image)
  PROVE  p \notin Public /\ p \notin UNION v.image.matchers
<1>1. p \notin Public
  BY DEF Open
<1>2. CASE p \in Paths(v.image) \ Matched(v.image)
  BY <1>1, <1>2, PassedMatchers
<1>3. ASSUME NEW d \in v.image.rewrites, p \in Reach(v.image, d)
      PROVE  p \notin UNION v.image.matchers
  <2>1. Harmless(d, v.pins.matchers)
    BY DEF Checked, Passed, Static, RewritesHarmless
  <2>2. d \in Path /\ p = d
    BY <1>3, <2>1, ImageAssumption DEF Harmless, Reach
  <2> QED BY <1>1, <2>1, <2>2, ImageAssumption, PassedMatchers DEF Harmless
<1> QED BY <1>1, <1>2, <1>3 DEF Open

(* In an image that passes, the sampled path of every route and every path *)
(* of the floor is gated, unless it is public (checks 11, 25 and 26) or an *)
(* entry of dataRoutes leads to it (check 27 does not ask).                *)
THEOREM PassGated == Spec => []PassIsGated
<1>1. IInv => PassIsGated
  <2> SUFFICES ASSUME PinsType, Checked, Passed,
                      NEW p \in Open(v.image), p \notin Aliased(v.image),
                      p \in Floor \cup {Sample[r] : r \in v.image.routes}
               PROVE  FALSE
    BY DEF IInv, PassIsGated
  <2>1. MatcherCovers(v.image, v.pins)
    BY DEF Checked, Passed
  <2>2. p \in UNION v.image.matchers
    BY <2>1 DEF MatcherCovers, MatchersPinned, FloorPinned, Uncovered
  <2> QED BY <2>2, OpenIsUnmatched
<1> QED BY <1>1, Inductive, PTL

(* Every check compares its part of the image with one and the same        *)
(* baseline.                                                               *)
LEMMA PassedIsPinned == IInv => PassedAsPinned
<1> SUFFICES ASSUME PinsType, Checked, Passed
             PROVE  AllMeasured(v.image) = v.pins
  BY DEF IInv, PassedAsPinned
<1> DEFINE im == v.image
           b  == v.pins
<1>1. /\ b.externals = im.externals /\ b.rewrites = im.rewrites
      /\ b.tables = im.tables /\ b.matchers = im.matchers
      /\ b.routes = im.routes /\ b.gate = im.gate /\ b.boot = im.boot
  BY DEF Checked, Passed, Static, ExternalsMatch, RewritesMatch, TablesMatch,
         MatcherCovers, MatchersPinned, RoutesPinned
<1>2. b \in Pinned
  BY DEF PinsType
<1>3. AllMeasured(im) =
        [externals |-> im.externals, matchers |-> im.matchers, routes |-> im.routes,
         rewrites |-> im.rewrites, tables |-> im.tables, gate |-> im.gate,
         boot |-> im.boot]
  BY DEF AllMeasured, Measured, Readings, Externals, Middleware, RoutesManifest,
         GatePin, BootPin
<1> HIDE DEF im, b
<1>4. AllMeasured(im) = b
  BY <1>1, <1>2, <1>3, PinnedFields
<1> QED BY <1>4 DEF im, b

(* An image that passes is in everything pinned the image of one update    *)
(* (checks 5, 11, 13, 24 and 27 against one and the same baseline).        *)
THEOREM PassedPinned == Spec => []PassedAsPinned
BY PassedIsPinned, Inductive, PTL

(* With no consent given and the baseline never unreadable, an image that  *)
(* passes has everything the reviewed image had, by the reviewed gate (the *)
(* two refusals of --update-baseline), gated on every path but for what an *)
(* entry of dataRoutes leads to, which an update adds unasked.             *)
THEOREM NothingMoved == Spec => []NothingMovesUnasked
<1>1. IInv => NothingMovesUnasked
  <2> SUFFICES ASSUME PinsType, Checked, Unasked, Passed
               PROVE  NothingMovesUnasked
    BY DEF IInv, NothingMovesUnasked
  <2>1. AllMeasured(v.image) = v.pins /\ v.pins \in Known
    BY PassedIsPinned DEF IInv, PassedAsPinned, Known
  <2>2. ASSUME consent \cap {"removals", "blank"} = {}
        PROVE  /\ \A l \in Lists :
                    AllMeasured(Reviewed)[l] \subseteq AllMeasured(v.image)[l]
               /\ Open(v.image) \cap Paths(Reviewed) \subseteq Aliased(v.image)
    <3>1. \A l \in Lists : AllMeasured(Reviewed)[l] \subseteq AllMeasured(v.image)[l]
      BY <2>1, <2>2 DEF Unasked, Kept
    <3>2. Reviewed.matchers \subseteq v.image.matchers
      BY <3>1, AllMeasuredFields DEF Lists
    <3>3. Paths(Reviewed) \ Public \subseteq UNION Reviewed.matchers
      BY ReviewedAssumption DEF Matched, Attached
    <3>4. ASSUME NEW p \in Open(v.image), p \in Paths(Reviewed)
          PROVE  p \in Aliased(v.image)
      BY <3>2, <3>3, <3>4, OpenIsUnmatched
    <3> QED BY <3>1, <3>4
  <2>3. ASSUME consent \cap {"gate", "blank"} = {}
        PROVE  v.image.gate = Reviewed.gate /\ v.image.boot = Reviewed.boot
    <3>1. v.pins.gate = Reviewed.gate /\ v.pins.boot = Reviewed.boot
      BY <2>1, <2>3 DEF Unasked, Same
    <3> QED BY <2>1, <3>1, AllMeasuredFields
  <2> QED BY <2>2, <2>3 DEF NothingMovesUnasked
<1> QED BY <1>1, Inductive, PTL

-----------------------------------------------------------------------------
(* The teardown: what has a type, and the steps one by one.                *)

SweepPc == {"names", "sweep", "remove", "sleep", "final", "confirm",
            "recheck", "recheck_rm", "recheck_confirm"}
Condition == {"absent", "requested", "created", "running"}

TeardownType ==
  /\ script \in {"image", "sse"} /\ step \in Nat \ {0}
  /\ pc \in Running \cup {"cleanup"} \cup SweepPc \cup Over
  /\ obj \in [Object -> Condition]
  /\ kind \in {"container", "network"} /\ (script = "sse" => kind = "container")
  /\ now \in Nat /\ sweepStart \in Nat /\ lastSighting \in Nat /\ listErrors \in Nat

(* A step of main() leaves the teardown alone ...                          *)
LEMMA MainFrame ==
  ASSUME \/ \E o \in Object : Call(o)
         \/ Migrate \/ OpenStream \/ CallOk \/ CallFails \/ ExtractRemove
         \/ Finish \/ Interrupt
  PROVE  /\ pc \in Running /\ pc' \in Running \cup {"cleanup"}
         /\ UNCHANGED <<script, keep, late, sweepVars, pruneVars>>
<1> USE DEF Running, At, mainVars, daemonVars
<1>1. ASSUME NEW o \in Object, Call(o) PROVE pc \in Running /\ pc' \in Running /\
        UNCHANGED <<script, keep, late, sweepVars, pruneVars>>
  BY <1>1 DEF Call
<1>2. CASE Migrate \/ OpenStream
  BY <1>2 DEF Migrate, OpenStream
<1>3. CASE CallOk \/ CallFails
  BY <1>3 DEF CallOk, CallFails
<1>4. CASE ExtractRemove \/ Finish \/ Interrupt
  BY <1>4 DEF ExtractRemove, Finish, Interrupt
<1> QED BY <1>1, <1>2, <1>3, <1>4

(* ... a step of the sweeps what main() had ...                            *)
SweepLoop == \/ RemoveByName
             \/ SweepList \/ SweepListFails \/ SweepRemove \/ SleepSync \/ SweepEnds
             \/ FinalRemove \/ FinalConfirm
             \/ Recheck \/ RecheckRemove \/ RecheckConfirm

LEMMA SweepFrame ==
  ASSUME SweepLoop
  PROVE  /\ pc \in SweepPc /\ pc' \in SweepPc \cup {"exited"}
         /\ UNCHANGED <<mainVars, registries, alive, late, pruneVars>>
<1> USE DEF SweepPc, daemonVars
<1>1. CASE RemoveByName \/ SweepList \/ SweepListFails
  BY <1>1 DEF RemoveByName, SweepList, SweepListFails
<1>2. CASE SweepRemove \/ SleepSync \/ FinalRemove
  BY <1>2 DEF SweepRemove, SleepSync, FinalRemove
<1>3. CASE SweepEnds \/ FinalConfirm
  BY <1>3 DEF SweepEnds, FinalConfirm, Proceed
<1>4. CASE Recheck \/ RecheckRemove \/ RecheckConfirm
  BY <1>4 DEF Recheck, RecheckRemove, RecheckConfirm
<1> QED BY <1>1, <1>2, <1>3, <1>4 DEF SweepLoop

(* ... and the daemon, a client and a prune change its objects only.       *)
LEMMA OutsideFrame ==
  ASSUME \/ \E o \in Object : Land(o) \/ Drop(o)
         \/ ClientStarts \/ Prune
  PROVE  UNCHANGED <<mainVars, pc, registries, alive, sweepVars>>
BY DEF Land, Drop, ClientStarts, Prune, PruneBegins, PruneRemoves

(* Every step is one of those, the cleanup or the kill.                    *)
LEMMA TeardownParts ==
  ASSUME TeardownNext
  PROVE  \/ \E o \in Object : Land(o) \/ Drop(o)
         \/ ClientStarts \/ Prune
         \/ \E o \in Object : Call(o)
         \/ Migrate \/ OpenStream \/ CallOk \/ CallFails \/ ExtractRemove
         \/ Finish \/ Interrupt \/ Killed \/ Cleanup \/ SweepLoop
<1>1. Main => \/ \E o \in Object : Call(o)
              \/ Migrate \/ OpenStream \/ CallOk \/ CallFails \/ ExtractRemove \/ Finish
  BY DEF Main, RunProbe, ImageContainer, CreateNetwork, StartPostgres, StartApp,
         Object, Container, Network
<1> QED BY <1>1 DEF TeardownNext, Daemon, Sweep, SweepLoop

(* A removal by name takes no time; after the last one a sweep starts.     *)
LEMMA NamesClock ==
  ASSUME RemoveByName
  PROVE  /\ pc = "names" /\ UNCHANGED <<kind, loud, now>>
         /\ \/ UNCHANGED <<pc, sweepStart, lastSighting, listErrors>>
            \/ pc' = "sweep" /\ sweepStart' = now /\ lastSighting' = now /\ listErrors' = 0
<1>1. CASE \E o \in OfKind(named) : UNCHANGED <<pc, clock>>
  BY <1>1 DEF RemoveByName, clock
<1>2. CASE /\ pc' = "sweep" /\ now' = now
           /\ sweepStart' = now /\ lastSighting' = now /\ listErrors' = 0
  BY <1>2 DEF RemoveByName
<1> QED BY <1>1, <1>2 DEF RemoveByName

(* A removal makes objects absent, and nothing else.                       *)
Shrunk == /\ obj' \in [Object -> Condition]
          /\ \A o \in Object : obj'[o] \in {obj[o], "absent"}

LEMMA RemovedShrinks ==
  ASSUME obj \in [Object -> Condition], NEW os, obj' = Removed(os)
  PROVE  Shrunk
BY DEF Shrunk, Removed, Condition

LEMMA RemoveShrinks ==
  ASSUME obj \in [Object -> Condition], NEW os, DaemonRemoves(os)
  PROVE  Shrunk
BY RemovedShrinks DEF DaemonRemoves

LEMMA UnchangedShrinks ==
  ASSUME obj \in [Object -> Condition], UNCHANGED obj
  PROVE  Shrunk
BY DEF Shrunk

(* Of all steps three add to an object.                                    *)
LEMMA ObjectStep ==
  ASSUME TeardownType, [TeardownNext]_teardownVars
  PROVE  \/ Shrunk
         \/ \E o \in Object : Land(o) \/ Call(o)
         \/ ClientStarts
<1> USE RemovedShrinks, RemoveShrinks, UnchangedShrinks DEF TeardownType, daemonVars
<1>1. ASSUME NEW o \in Object, Drop(o) PROVE Shrunk
  BY <1>1 DEF Drop, Shrunk, Condition
<1>2. CASE CallOk
  BY <1>2 DEF CallOk, Shrunk, Condition
<1>3. CASE ExtractRemove
  BY <1>3 DEF ExtractRemove
<1>4. CASE Migrate \/ OpenStream \/ CallFails \/ Finish \/ Interrupt \/ Killed \/ Cleanup
  BY <1>4 DEF Migrate, OpenStream, CallFails, Finish, Interrupt, Killed, Cleanup
<1>5. CASE SweepLoop
  <2>1. CASE RemoveByName
    BY <2>1 DEF RemoveByName
  <2>2. CASE SweepRemove \/ FinalRemove \/ RecheckRemove
    BY <2>2 DEF SweepRemove, FinalRemove, RecheckRemove
  <2>3. CASE SweepList \/ SweepListFails \/ SleepSync \/ SweepEnds
    BY <2>3 DEF SweepList, SweepListFails, SleepSync, SweepEnds
  <2>4. CASE FinalConfirm \/ Recheck \/ RecheckConfirm
    BY <2>4 DEF FinalConfirm, Recheck, RecheckConfirm
  <2> QED BY <1>5, <2>1, <2>2, <2>3, <2>4 DEF SweepLoop
<1>6. CASE Prune
  BY <1>6 DEF Prune, PruneBegins, PruneRemoves
<1>7. CASE UNCHANGED teardownVars
  BY <1>7 DEF teardownVars
<1> QED BY <1>1, <1>2, <1>3, <1>4, <1>5, <1>6, <1>7, TeardownParts

LEMMA TeardownTypeStep ==
  ASSUME TeardownType, [TeardownNext]_teardownVars
  PROVE  TeardownType'
<1> USE DEF TeardownType
<1>1. obj' \in [Object -> Condition]
  <2>1. ASSUME NEW o \in Object, Land(o) PROVE obj' \in [Object -> Condition]
    BY <2>1 DEF Land, Condition
  <2>2. ASSUME NEW o \in Object, Call(o) PROVE obj' \in [Object -> Condition]
    BY <2>2 DEF Call, Condition
  <2>3. CASE ClientStarts
    BY <2>3 DEF ClientStarts, Condition
  <2> QED BY <2>1, <2>2, <2>3, ObjectStep DEF Shrunk
<1>2. CASE UNCHANGED teardownVars
  BY <1>2 DEF teardownVars, mainVars, daemonVars, sweepVars, clock
<1>3. CASE \/ \E o \in Object : Land(o) \/ Drop(o)
           \/ ClientStarts \/ Prune
  BY <1>1, <1>3, OutsideFrame DEF mainVars, sweepVars, clock
<1>4. CASE \/ \E o \in Object : Call(o)
           \/ Migrate \/ OpenStream \/ CallOk \/ CallFails \/ ExtractRemove
           \/ Finish \/ Interrupt
  <2>1. step' \in Nat \ {0}
    BY <1>4 DEF Call, Migrate, OpenStream, CallOk, CallFails, ExtractRemove, Finish,
                Interrupt, mainVars
  <2> QED BY <1>1, <1>4, <2>1, MainFrame DEF sweepVars, clock
<1>5. CASE Killed
  BY <1>1, <1>5 DEF Killed, Over
<1>6. CASE Cleanup
  BY <1>1, <1>6 DEF Cleanup, mainVars, clock, SweepPc, Over
<1>7. CASE SweepLoop
  <2>1. /\ kind' \in {"container", "network"} /\ (script = "sse" => kind' = "container")
        /\ now' \in Nat /\ sweepStart' \in Nat /\ lastSighting' \in Nat /\ listErrors' \in Nat
    <3> USE DEF clock
    <3>0. CASE RemoveByName
      BY <3>0, NamesClock
    <3>1. CASE SweepList \/ SweepListFails
      BY <3>1 DEF SweepList, SweepListFails
    <3>2. CASE SweepRemove \/ SleepSync \/ FinalRemove
      BY <3>2 DEF SweepRemove, SleepSync, FinalRemove
    <3>3. CASE SweepEnds \/ FinalConfirm
      BY <3>3 DEF SweepEnds, FinalConfirm, Proceed
    <3>4. CASE Recheck \/ RecheckRemove \/ RecheckConfirm
      BY <3>4 DEF Recheck, RecheckRemove, RecheckConfirm
    <3> QED BY <1>7, <3>0, <3>1, <3>2, <3>3, <3>4 DEF SweepLoop
  <2> QED BY <1>1, <1>7, <2>1, SweepFrame DEF mainVars, Over
<1> QED BY <1>2, <1>3, <1>4, <1>5, <1>6, <1>7, TeardownParts

-----------------------------------------------------------------------------
(* Nothing outlives the process: all that exists is in a registry until    *)
(* the cleanup has gone through it, and nothing is started after that.     *)
HostInv ==
  /\ pc # "dead" => alive \subseteq KilledWith(liveChildren) \cup sockets
                                    \cup (IF tempDirs = {} THEN {} ELSE {"dir"})
                                    \cup {"remains"}
  /\ pc \in SweepPc \cup {"exited"} => alive \subseteq {"remains"}

LEMMA HostStep ==
  ASSUME TeardownType, HostInv, [TeardownNext]_teardownVars
  PROVE  HostInv'
<1> USE DEF HostInv, KilledWith, Deleted
<1>1. CASE UNCHANGED teardownVars
  BY <1>1 DEF teardownVars, registries
<1>2. CASE \/ \E o \in Object : Land(o) \/ Drop(o)
           \/ ClientStarts \/ Prune
  BY <1>2, OutsideFrame DEF registries
<1>3. CASE SweepLoop
  BY <1>3, SweepFrame DEF registries, SweepPc
<1>4. CASE Killed
  BY <1>4 DEF Killed, SweepPc
<1>5. CASE Cleanup
  <2>1. pc # "dead" /\ alive' \subseteq {"remains"}
    BY <1>5 DEF Cleanup
  <2> QED BY <2>1
<1>6. CASE \/ \E o \in Object : Call(o)
           \/ Migrate \/ OpenStream \/ CallOk \/ CallFails \/ ExtractRemove
           \/ Finish \/ Interrupt
  <2>1. pc # "dead" /\ pc' \notin SweepPc \cup {"exited"}
    BY <1>6, MainFrame DEF Running, SweepPc
  <2>2. ASSUME NEW o \in Object, Call(o) PROVE HostInv'
    BY <2>1, <2>2 DEF Call
  <2>3. CASE Migrate \/ OpenStream
    BY <2>1, <2>3 DEF Migrate, OpenStream
  <2>4. CASE CallOk \/ CallFails
    BY <2>1, <2>4 DEF CallOk, CallFails
  <2>5. CASE ExtractRemove
    BY <2>1, <2>5 DEF ExtractRemove
  <2>6. CASE Finish \/ Interrupt
    BY <2>1, <2>6 DEF Finish, Interrupt, registries
  <2> QED BY <1>6, <2>2, <2>3, <2>4, <2>5, <2>6
<1> QED BY <1>1, <1>2, <1>3, <1>4, <1>5, <1>6, TeardownParts

-----------------------------------------------------------------------------
(* The clock: a sweep starts no later than the sweeps before it may have   *)
(* taken, and stays within its budget.                                     *)
Before == IF kind = "network" THEN SWEEP_BUDGET + 2 ELSE 0

ClockInv ==
  /\ pc \in Running \cup {"cleanup", "dead"} => now = 0 /\ kind = "container"
  /\ pc = "names" => now <= Before
  /\ pc \in {"sweep", "remove", "sleep", "final", "confirm"} =>
       sweepStart <= Before /\ sweepStart <= lastSighting /\ lastSighting <= now
  /\ pc \in {"remove", "sleep"} => now <= sweepStart + SWEEP_BUDGET
  /\ pc \in {"sweep", "final"} => now <= sweepStart + SWEEP_BUDGET + 1
  /\ pc = "confirm" => now <= sweepStart + SWEEP_BUDGET + 2
  /\ pc \in {"final", "confirm"} => now >= sweepStart + SWEEP_QUIET
  /\ pc \in {"recheck", "recheck_rm"} => now <= 2 * (SWEEP_BUDGET + 2) /\ script = "image"
  /\ pc = "recheck_confirm" => now <= 2 * (SWEEP_BUDGET + 2) + 1 /\ script = "image"
  /\ pc = "exited" => now <= 2 * (SWEEP_BUDGET + 2) + 1

(* A kind is done within its sweep's budget, two polls for the last        *)
(* removal and the last sleep included.                                    *)
LEMMA ProceedClock ==
  ASSUME TeardownType, Proceed, UNCHANGED <<now, script>>, sweepStart <= Before,
         now <= sweepStart + SWEEP_BUDGET + 2
  PROVE  ClockInv'
<1>1. SWEEP_BUDGET \in Nat
  BY SweepAssumption
<1>2. CASE script = "sse"
  <2>1. kind = "container" /\ pc' = "exited" /\ Before = 0
    BY <1>2 DEF Proceed, TeardownType, Before
  <2> QED BY <1>1, <2>1 DEF ClockInv, TeardownType, Running
<1>3. CASE script = "image" /\ kind = "container"
  <2>1. pc' = "names" /\ kind' = "network" /\ Before = 0 /\ Before' = SWEEP_BUDGET + 2
    BY <1>3 DEF Proceed, Before
  <2> QED BY <1>1, <2>1 DEF ClockInv, TeardownType, Running
<1>4. CASE script = "image" /\ kind = "network"
  <2>1. pc' = "recheck" /\ Before = SWEEP_BUDGET + 2
    BY <1>4 DEF Proceed, Before
  <2> QED BY <1>1, <1>4, <2>1 DEF ClockInv, TeardownType, Running
<1> QED BY <1>2, <1>3, <1>4 DEF TeardownType

LEMMA ClockStep ==
  ASSUME TeardownType, ClockInv, [TeardownNext]_teardownVars
  PROVE  ClockInv'
<1>1. /\ SWEEP_BUDGET \in Nat /\ SWEEP_QUIET \in Nat \ {0} /\ SWEEP_BUDGET >= SWEEP_QUIET
      /\ SWEEP_MAX_LIST_ERRORS \in Nat \ {0}
  BY SweepAssumption
<1>2. ASSUME UNCHANGED <<pc, script, kind, clock>>
      PROVE  ClockInv'
  BY <1>2 DEF ClockInv, clock, Before
<1>3. CASE UNCHANGED teardownVars
  BY <1>2, <1>3 DEF teardownVars, mainVars, sweepVars
<1>4. CASE \/ \E o \in Object : Land(o) \/ Drop(o)
           \/ ClientStarts \/ Prune
  BY <1>2, <1>4, OutsideFrame DEF mainVars, sweepVars
<1>5. CASE \/ \E o \in Object : Call(o)
           \/ Migrate \/ OpenStream \/ CallOk \/ CallFails \/ ExtractRemove
           \/ Finish \/ Interrupt
  BY <1>5, MainFrame DEF ClockInv, sweepVars, clock, Running
<1>6. CASE Killed
  BY <1>6 DEF Killed, ClockInv
<1>7. CASE Cleanup
  BY <1>1, <1>7 DEF Cleanup, ClockInv, clock, Before, mainVars, Running
<1>8. CASE RemoveByName
  <2>1. /\ pc = "names" /\ UNCHANGED <<kind, now>>
        /\ \/ UNCHANGED <<pc, sweepStart, lastSighting, listErrors>>
           \/ pc' = "sweep" /\ sweepStart' = now /\ lastSighting' = now
    BY <1>8, NamesClock
  <2> QED BY <1>1, <2>1 DEF ClockInv, Before, TeardownType, Running
<1>9. CASE SweepList
  <2>1. /\ pc = "sweep" /\ pc' \in {"remove", "sleep"} /\ UNCHANGED <<kind, now, sweepStart>>
        /\ lastSighting' \in {now, lastSighting} /\ now <= sweepStart + SWEEP_BUDGET
    BY <1>1, <1>9 DEF SweepList, Watching, TeardownType
  <2> QED BY <1>1, <2>1 DEF ClockInv, Before, TeardownType, Running
<1>10. CASE SweepListFails
  <2>1. /\ pc = "sweep" /\ pc' = "sleep" /\ UNCHANGED <<kind, now, sweepStart>>
        /\ lastSighting' = now /\ now <= sweepStart + SWEEP_BUDGET
    BY <1>1, <1>10 DEF SweepListFails, Watching, TeardownType
  <2> QED BY <1>1, <2>1 DEF ClockInv, Before, TeardownType, Running
<1>11. CASE SweepRemove
  <2>1. /\ pc = "remove" /\ pc' = "sleep"
        /\ UNCHANGED <<kind, now, sweepStart, lastSighting>>
    BY <1>1, <1>11 DEF SweepRemove, clock
  <2> QED BY <1>1, <2>1 DEF ClockInv, Before, TeardownType, Running
<1>12. CASE SleepSync
  <2>1. /\ pc = "sleep" /\ pc' = "sweep" /\ now' = now + 1
        /\ UNCHANGED <<kind, sweepStart, lastSighting>>
    BY <1>1, <1>12 DEF SleepSync
  <2> QED BY <1>1, <2>1 DEF ClockInv, Before, TeardownType, Running
<1>13. CASE SweepEnds
  <2>1. CASE Proceed
    BY <1>1, <1>13, <2>1, ProceedClock DEF SweepEnds, ClockInv, clock, mainVars, TeardownType
  <2>2. CASE listErrors < SWEEP_MAX_LIST_ERRORS /\ pc' = "final" /\ UNCHANGED kind
    <3>1. now >= sweepStart + SWEEP_QUIET
      BY <1>1, <1>13, <2>2 DEF SweepEnds, Watching, ClockInv, TeardownType
    <3>2. pc = "sweep" /\ UNCHANGED <<now, sweepStart, lastSighting>>
      BY <1>13 DEF SweepEnds, clock
    <3> QED BY <1>1, <2>2, <3>1, <3>2 DEF ClockInv, Before, TeardownType, Running
  <2> QED BY <1>13, <2>1, <2>2 DEF SweepEnds
<1>14. CASE FinalRemove
  <2>1. /\ pc = "final" /\ pc' = "confirm" /\ now' = now + 1
        /\ UNCHANGED <<kind, sweepStart, lastSighting>>
    BY <1>1, <1>14 DEF FinalRemove
  <2> QED BY <1>1, <2>1 DEF ClockInv, Before, TeardownType, Running
<1>15. CASE FinalConfirm
  BY <1>15, ProceedClock DEF FinalConfirm, ClockInv, clock, mainVars
<1>16. CASE Recheck
  <2>1. /\ pc = "recheck" /\ pc' \in {"recheck_rm", "exited"}
        /\ UNCHANGED <<script, now>>
    BY <1>1, <1>16 DEF Recheck, clock, mainVars
  <2> QED BY <1>1, <2>1 DEF ClockInv, Before, TeardownType, Running
<1>17. CASE RecheckRemove
  <2>1. /\ pc = "recheck_rm" /\ pc' = "recheck_confirm" /\ now' = now + 1
        /\ UNCHANGED script
    BY <1>1, <1>17 DEF RecheckRemove, mainVars
  <2> QED BY <1>1, <2>1 DEF ClockInv, Before, TeardownType, Running
<1>18. CASE RecheckConfirm
  <2>1. /\ pc = "recheck_confirm" /\ pc' = "exited"
        /\ UNCHANGED now
    BY <1>1, <1>18 DEF RecheckConfirm, clock
  <2> QED BY <1>1, <2>1 DEF ClockInv, Before, TeardownType, Running
<1> QED BY <1>3, <1>4, <1>5, <1>6, <1>7, <1>8, <1>9, <1>10, <1>11, <1>12, <1>13, <1>14,
           <1>15, <1>16, <1>17, <1>18, TeardownParts DEF SweepLoop

-----------------------------------------------------------------------------
(* A silent exit: as long as nothing was reported, a sweep that is over    *)
(* saw its kind gone for a whole quiet window, and an object of that kind  *)
(* that comes later comes when the teardown is past its reach.             *)
Sweeping == {"sweep", "remove", "sleep", "final", "confirm"}
There(o) == obj[o] \in {"created", "running"}

(* The stream harness has no network, and nothing before its first call.   *)
OwnObjects ==
  /\ script = "sse" => obj["net"] = "absent"
  /\ script = "sse" /\ ~everRegistered => \A o \in Object : obj[o] = "absent"

Watched ==
  /\ kind = "network" /\ pc = "names" => now >= SWEEP_QUIET
  /\ kind = "network" /\ pc \in Sweeping => sweepStart >= SWEEP_QUIET
  /\ pc \in {"recheck", "recheck_rm", "recheck_confirm"} =>
       now >= SweepReach /\ (There("net") => "net" \in late)
  /\ pc = "exited" => /\ now >= SweepReach \/ \A o \in Object : obj[o] = "absent"
                      /\ \A o \in Object : There(o) => o \in late

CleanInv ==
  /\ pc \in {"recheck_rm", "recheck_confirm"} => loud # {}
  /\ loud = {} /\ ~keep => Watched

LEMMA OwnStep ==
  ASSUME TeardownType, OwnObjects, [TeardownNext]_teardownVars
  PROVE  OwnObjects'
<1> USE DEF OwnObjects
<1>1. UNCHANGED script /\ (everRegistered => everRegistered')
  <2>1. CASE UNCHANGED teardownVars
    BY <2>1 DEF teardownVars, mainVars
  <2>2. CASE \/ \E o \in Object : Land(o) \/ Drop(o)
             \/ ClientStarts \/ Prune
    BY <2>2, OutsideFrame DEF mainVars
  <2>3. CASE SweepLoop
    BY <2>3, SweepFrame DEF mainVars
  <2>4. ASSUME NEW o \in Object, Call(o)
        PROVE  UNCHANGED script /\ (everRegistered => everRegistered')
    BY <2>4 DEF Call
  <2>5. CASE Migrate \/ OpenStream \/ CallOk \/ CallFails \/ ExtractRemove
    BY <2>5 DEF Migrate, OpenStream, CallOk, CallFails, ExtractRemove, mainVars
  <2>6. CASE Finish \/ Interrupt \/ Killed \/ Cleanup
    BY <2>6 DEF Finish, Interrupt, Killed, Cleanup, mainVars
  <2> QED BY <2>1, <2>2, <2>3, <2>4, <2>5, <2>6, TeardownParts
<1>2. CASE Shrunk
  BY <1>1, <1>2 DEF Shrunk, Object, Network
<1>3. ASSUME NEW o \in Object, Land(o) PROVE OwnObjects'
  BY <1>1, <1>3 DEF Land, TeardownType
<1>4. ASSUME NEW o \in Object, Call(o) PROVE OwnObjects'
  <2>1. step \in DOMAIN Plan[script] /\ Plan[script][step] = o
    <3>1. step <= Len(Plan[script]) /\ Plan[script][step] = o
      BY <1>4 DEF Call, At, Current
    <3>2. Plan[script] \in Seq(Step)
      BY PlanAssumption DEF TeardownType
    <3>3. \A q \in Seq(Step), i \in Nat \ {0} : i <= Len(q) => i \in DOMAIN q
      OBVIOUS
    <3> QED BY <3>1, <3>2, <3>3 DEF TeardownType
  <2>2. script = "sse" => o # "net"
    BY <2>1, PlanAssumption
  <2>3. script = "sse" => o \in Container
    BY <2>2 DEF Object, Network
  <2> QED BY <1>1, <1>4, <2>2, <2>3 DEF Call, TeardownType, Object, Network
<1>5. CASE ClientStarts
  BY <1>1, <1>5 DEF ClientStarts, TeardownType
<1> QED BY <1>2, <1>3, <1>4, <1>5, ObjectStep

(* A quiet sweep, a window after the sweep before it, lets the teardown go *)
(* on.                                                                     *)
LEMMA ProceedWatched ==
  ASSUME TeardownType, OwnObjects, Proceed, UNCHANGED <<script, now, sweepStart, obj, late>>,
         Present(kind) = {}, now >= sweepStart + SWEEP_QUIET,
         kind = "network" => sweepStart >= SWEEP_QUIET
  PROVE  Watched'
<1>1. SWEEP_QUIET \in Nat
  BY SweepAssumption
<1>2. now >= SWEEP_QUIET
  BY <1>1 DEF TeardownType
<1>3. CASE script = "sse"
  <2>1. kind = "container" /\ pc' = "exited" /\ SweepReach' = SWEEP_QUIET
    BY <1>3 DEF Proceed, TeardownType, SweepReach
  <2>2. ASSUME NEW o \in Object PROVE ~There(o)'
    BY <1>3, <2>1 DEF Present, Kind, There, OwnObjects, Network, Object
  <2> QED BY <1>2, <2>1, <2>2 DEF Watched, Sweeping
<1>4. CASE script = "image" /\ kind = "container"
  <2>1. pc' = "names"
    BY <1>4 DEF Proceed
  <2> QED BY <1>2, <2>1 DEF Watched, Sweeping
<1>5. CASE script = "image" /\ kind = "network"
  <2>1. pc' = "recheck" /\ SweepReach' = 2 * SWEEP_QUIET
    BY <1>5 DEF Proceed, SweepReach
  <2>2. now >= 2 * SWEEP_QUIET
    BY <1>1, <1>5 DEF TeardownType
  <2>3. ~There("net")'
    BY <1>5 DEF Present, Kind, There, Network, Object
  <2> QED BY <2>1, <2>2, <2>3 DEF Watched, Sweeping
<1> QED BY <1>3, <1>4, <1>5 DEF TeardownType

(* As long as its place in the teardown stays, an object that is there was *)
(* there before or has come too late to be seen.                           *)
LEMMA WatchedFrame ==
  ASSUME TeardownType, Watched, UNCHANGED <<script, pc, kind, now, sweepStart>>,
         (Shrunk /\ UNCHANGED late) \/ \E o \in Object : Land(o)
  PROVE  Watched'
<1>1. UNCHANGED SweepReach
  BY DEF SweepReach
<1>2. "net" \in Object
  BY DEF Object, Network
<1>3. CASE Shrunk /\ UNCHANGED late
  <2>1. \A o \in Object : (There(o)' => There(o)) /\ (obj[o] = "absent" => obj'[o] = "absent")
    BY <1>3 DEF Shrunk, There
  <2> QED BY <1>1, <1>2, <1>3, <2>1 DEF Watched
<1>4. ASSUME NEW o \in Object, Land(o) PROVE Watched'
  <2>1. obj[o] # "absent" /\ (now >= SweepReach => late' = late \cup {o})
    BY <1>4 DEF Land
  <2>2. \A x \in Object : There(x)' => There(x) \/ x = o
    BY <1>4 DEF Land, There, TeardownType
  <2> QED BY <1>1, <1>2, <2>1, <2>2 DEF Watched
<1> QED BY <1>3, <1>4

LEMMA CleanSweep ==
  ASSUME TeardownType, OwnObjects, ClockInv, CleanInv, SweepLoop
  PROVE  CleanInv'
<1>1. /\ SWEEP_QUIET \in Nat \ {0} /\ SWEEP_BUDGET \in Nat /\ SWEEP_BUDGET >= SWEEP_QUIET
      /\ SWEEP_MAX_LIST_ERRORS \in Nat
  BY SweepAssumption
<1>2. UNCHANGED <<script, keep, late, SweepReach>>
  BY SweepFrame DEF mainVars, SweepReach
<1>3. ASSUME pc' \in {"names"} \cup Sweeping, UNCHANGED kind, pc \in {"names"} \cup Sweeping,
             UNCHANGED loud,
             Watched /\ kind = "network" =>
               /\ pc' = "names" => now' >= SWEEP_QUIET
               /\ pc' # "names" => sweepStart' >= SWEEP_QUIET
      PROVE  CleanInv'
  BY <1>2, <1>3 DEF CleanInv, Watched, Sweeping
<1>4. ASSUME pc \in Sweeping, pc' \in Sweeping, UNCHANGED <<kind, loud, sweepStart>>
      PROVE  CleanInv'
  BY <1>3, <1>4 DEF Watched, Sweeping
<1>5. ASSUME pc \in Sweeping, Proceed, UNCHANGED <<now, sweepStart, obj>>,
             \/ loud' # {}
             \/ loud' = loud /\ Present(kind) = {} /\ now >= sweepStart + SWEEP_QUIET
      PROVE  CleanInv'
  <2>1. pc' \notin {"recheck_rm", "recheck_confirm"}
    BY <1>5 DEF Proceed
  <2>2. loud' = {} /\ ~keep' => Watched'
    BY <1>2, <1>5, ProceedWatched DEF CleanInv, Watched
  <2> QED BY <2>1, <2>2 DEF CleanInv
<1>6. CASE RemoveByName
  <2>1. /\ pc = "names" /\ UNCHANGED <<kind, loud, now>>
        /\ pc' = "names" \/ (pc' = "sweep" /\ sweepStart' = now)
    BY <1>6, NamesClock
  <2> QED BY <1>3, <2>1 DEF Watched, Sweeping
<1>7. CASE SweepList \/ SweepListFails
  BY <1>4, <1>7 DEF SweepList, SweepListFails, Sweeping
<1>8. CASE SweepRemove \/ SleepSync \/ FinalRemove
  BY <1>4, <1>8 DEF SweepRemove, SleepSync, FinalRemove, Sweeping, clock
<1>9. CASE SweepEnds
  <2>1. pc = "sweep" /\ UNCHANGED <<now, sweepStart, obj>>
    BY <1>9 DEF SweepEnds, clock, daemonVars
  <2>2. listErrors < SWEEP_MAX_LIST_ERRORS => now >= sweepStart + SWEEP_QUIET
    BY <1>1, <1>9 DEF SweepEnds, Watching, ClockInv, TeardownType
  <2>3. CASE Proceed /\ loud' # {}
    BY <1>5, <2>1, <2>3 DEF Sweeping
  <2>4. CASE Proceed /\ listErrors < SWEEP_MAX_LIST_ERRORS /\ Present(kind) = {} /\ UNCHANGED loud
    <3>1. now >= sweepStart + SWEEP_QUIET
      BY <2>2, <2>4
    <3>2. pc \in Sweeping
      BY <2>1 DEF Sweeping
    <3> QED BY <1>5, <2>1, <2>4, <3>1, <3>2
  <2>5. CASE pc' = "final" /\ UNCHANGED <<kind, loud>>
    BY <1>4, <2>1, <2>5 DEF Sweeping
  <2> QED BY <1>9, <2>3, <2>4, <2>5 DEF SweepEnds
<1>10. CASE FinalConfirm
  <2>1. pc = "confirm" /\ now >= sweepStart + SWEEP_QUIET /\ UNCHANGED <<now, sweepStart, obj>>
    BY <1>10 DEF FinalConfirm, ClockInv, clock, daemonVars
  <2> QED BY <1>5, <1>10, <2>1 DEF FinalConfirm, Sweeping
<1>11. CASE Recheck
  <2>1. pc = "recheck" /\ UNCHANGED <<now, obj>>
    BY <1>11 DEF Recheck, clock, daemonVars
  <2>2. CASE loud' # {}
    BY <1>2, <1>11, <2>2 DEF Recheck, CleanInv
  <2>3. CASE Present("container") = {} /\ pc' = "exited" /\ UNCHANGED loud
    <3>1. \A o \in Object : There(o)' => There(o) /\ o = "net"
      BY <2>1, <2>3 DEF Present, Kind, There, Object, Network
    <3> QED BY <1>2, <2>1, <2>3, <3>1 DEF CleanInv, Watched, Sweeping
  <2> QED BY <1>11, <2>2, <2>3 DEF Recheck
<1>12. CASE RecheckRemove \/ RecheckConfirm
  <2>1. loud # {} /\ loud' # {}
    BY <1>12 DEF RecheckRemove, RecheckConfirm, CleanInv
  <2> QED BY <2>1 DEF CleanInv
<1> QED BY <1>6, <1>7, <1>8, <1>9, <1>10, <1>11, <1>12 DEF SweepLoop

LEMMA CleanStep ==
  ASSUME TeardownType, OwnObjects, ClockInv, CleanInv, [TeardownNext]_teardownVars
  PROVE  CleanInv'
<1> USE DEF CleanInv
<1>1. CASE UNCHANGED teardownVars
  <2>1. Shrunk /\ UNCHANGED <<late, script, keep, pc, kind, now, sweepStart, loud>>
    BY <1>1, UnchangedShrinks DEF teardownVars, mainVars, daemonVars, sweepVars, clock, TeardownType
  <2> QED BY <2>1, WatchedFrame
<1>2. CASE (\E o \in Object : Land(o) \/ Drop(o)) \/ Prune
  <2>1. UNCHANGED <<script, keep, pc, kind, now, sweepStart, loud>>
    BY <1>2, OutsideFrame DEF mainVars, sweepVars, clock
  <2>2. ASSUME NEW o \in Object, Drop(o) PROVE Shrunk /\ UNCHANGED late
    BY <2>2 DEF Drop, Shrunk, Condition, TeardownType
  <2>3. CASE Prune
    <3>1. UNCHANGED late
      BY <2>3 DEF Prune, PruneBegins, PruneRemoves, daemonVars
    <3>2. Shrunk
      BY <2>3, RemovedShrinks, UnchangedShrinks DEF Prune, PruneBegins, PruneRemoves, daemonVars,
         TeardownType
    <3> QED BY <2>1, <3>1, <3>2, WatchedFrame
  <2> QED BY <1>2, <2>1, <2>2, <2>3, WatchedFrame
<1>3. CASE ClientStarts
  <2>1. pc' = pc /\ kind' = kind /\ pc \in {"call", "dead"}
    BY <1>3, OutsideFrame DEF ClientStarts, sweepVars
  <2> QED BY <2>1 DEF Watched, Sweeping
<1>4. CASE \/ \E o \in Object : Call(o)
           \/ Migrate \/ OpenStream \/ CallOk \/ CallFails \/ ExtractRemove
           \/ Finish \/ Interrupt
  BY <1>4, MainFrame DEF Watched, Sweeping, Running
<1>5. CASE Killed
  BY <1>5 DEF Killed, Watched, Sweeping
<1>6. CASE Cleanup
  <2>1. UNCHANGED <<script, keep, everRegistered, obj, kind, loud>> /\ kind = "container"
    BY <1>6 DEF Cleanup, mainVars, daemonVars, ClockInv
  <2>2. CASE pc' = "names"
    BY <2>1, <2>2 DEF Watched, Sweeping
  <2>3. CASE pc' = "exited" /\ (keep \/ \A o \in Object : obj[o] = "absent")
    BY <2>1, <2>3 DEF Watched, Sweeping, There
  <2> QED BY <1>6, <2>2, <2>3 DEF Cleanup, OwnObjects
<1> QED BY <1>1, <1>2, <1>3, <1>4, <1>5, <1>6, CleanSweep, TeardownParts

-----------------------------------------------------------------------------
(* A prune that began with nothing in flight: nothing the run started can  *)
(* come any more, and nothing runs that would hold its network.            *)
PruneInv ==
  trusted => /\ pc \in Over /\ "docker" \notin alive
             /\ \A o \in Object : obj[o] # "requested"
             /\ prunePc \in {"networks", "done"} => \A o \in Container : obj[o] = "absent"
             /\ prunePc = "done" => \A o \in Object : obj[o] = "absent"

LEMMA PruneStep ==
  ASSUME TeardownType, PruneInv, [TeardownNext]_teardownVars
  PROVE  PruneInv'
<1> USE DEF PruneInv
<1>1. ASSUME UNCHANGED <<pc, alive, pruneVars>>, Shrunk
      PROVE  PruneInv'
  <2>1. Container \subseteq Object
    BY DEF Object
  <2> QED BY <1>1, <2>1 DEF Shrunk, pruneVars
<1>2. CASE UNCHANGED teardownVars
  BY <1>1, <1>2, UnchangedShrinks DEF teardownVars, daemonVars, TeardownType
<1>3. ASSUME NEW o \in Object, Land(o) \/ Drop(o)
      PROVE  PruneInv'
  BY <1>3 DEF Land, Drop, pruneVars
<1>4. CASE ClientStarts
  BY <1>4 DEF ClientStarts, pruneVars
<1>5. CASE PruneBegins
  BY <1>5 DEF PruneBegins, InFlight, daemonVars
<1>6. ASSUME NEW k \in {"container", "network"}, PruneRemoves(k)
      PROVE  PruneInv'
  <2>1. PICK gone \in SUBSET Removable(Present(k)) :
          obj' = Removed(gone) /\ trusted' = (trusted /\ gone = Removable(Present(k)))
    BY <1>6 DEF PruneRemoves
  <2>2. Shrunk /\ UNCHANGED <<pc, alive>>
    BY <1>6, <2>1, RemovedShrinks DEF PruneRemoves, TeardownType
  <2> SUFFICES ASSUME trusted' PROVE PruneInv'
    OBVIOUS
  <2>3. trusted /\ gone = Removable(Present(k))
    BY <2>1
  <2>4. ASSUME NEW o \in Object, o \in gone \/ obj[o] = "absent"
        PROVE  obj'[o] = "absent"
    BY <2>1, <2>3, <2>4 DEF Removed
  <2>5. ASSUME NEW o \in Object, Kind(o) = k, obj[o] # "absent"
        PROVE  o \in Present(k)
    BY <2>3, <2>5 DEF Present, TeardownType, Condition
  <2>6. CASE k = "container"
    <3>1. prunePc' = "networks"
      BY <1>6, <2>6 DEF PruneRemoves
    <3>2. ASSUME NEW o \in Container PROVE obj'[o] = "absent"
      <4>1. o \in Object /\ o \notin Network /\ Kind(o) = k
        BY <2>6 DEF Object, Container, Network, Kind
      <4> QED BY <2>3, <2>4, <2>5, <4>1 DEF Removable
    <3> QED BY <2>2, <2>3, <3>1, <3>2 DEF Shrunk
  <2>7. CASE k = "network"
    <3>1. prunePc = "networks" /\ \A o \in Container : obj[o] = "absent"
      BY <1>6, <2>3, <2>7 DEF PruneRemoves
    <3>2. gone = Present(k)
      BY <2>3, <3>1 DEF Removable, Container
    <3>3. ASSUME NEW o \in Object PROVE obj'[o] = "absent"
      <4>1. o \in Container \/ Kind(o) = k
        BY <2>7 DEF Object, Kind
      <4> QED BY <2>4, <2>5, <3>1, <3>2, <4>1
    <3> QED BY <2>2, <2>3, <3>3 DEF Shrunk, Object
  <2> QED BY <2>6, <2>7
<1>7. CASE Prune
  BY <1>5, <1>6, <1>7 DEF Prune
<1>8. CASE \/ \E o \in Object : Call(o)
           \/ Migrate \/ OpenStream \/ CallOk \/ CallFails \/ ExtractRemove
           \/ Finish \/ Interrupt
  <2>1. pc \notin Over /\ trusted' = trusted
    BY <1>8, MainFrame DEF Running, Over, pruneVars
  <2> QED BY <2>1
<1>9. CASE Killed \/ Cleanup
  BY <1>9 DEF Killed, Cleanup, pruneVars, Over
<1>10. CASE SweepLoop
  BY <1>10, SweepFrame DEF SweepPc, Over, pruneVars
<1> QED BY <1>2, <1>3, <1>4, <1>7, <1>8, <1>9, <1>10, TeardownParts

-----------------------------------------------------------------------------
TeardownInv ==
  /\ TeardownType /\ HostInv /\ ClockInv /\ OwnObjects /\ CleanInv /\ PruneInv

(* What a harness has started, how long its teardown has taken, what it    *)
(* has seen and what another process has pruned, in every reachable state. *)
THEOREM TeardownInductive == TeardownSpec => []TeardownInv
<1>1. TeardownInit => TeardownInv
  <2> SUFFICES ASSUME TeardownInit PROVE TeardownInv
    OBVIOUS
  <2> USE DEF TeardownInit
  <2>1. TeardownType
    BY PlanAssumption DEF TeardownType, Running, Condition
  <2>2. HostInv
    BY DEF HostInv, SweepPc
  <2>3. ClockInv
    BY DEF ClockInv
  <2>4. OwnObjects
    BY DEF OwnObjects, Object, Network
  <2>5. CleanInv
    BY DEF CleanInv, Watched, Sweeping
  <2>6. PruneInv
    BY DEF PruneInv
  <2> QED BY <2>1, <2>2, <2>3, <2>4, <2>5, <2>6 DEF TeardownInv
<1>2. TeardownInv /\ [TeardownNext]_teardownVars => TeardownInv'
  BY TeardownTypeStep, HostStep, ClockStep, OwnStep, CleanStep, PruneStep DEF TeardownInv
<1> QED BY <1>1, <1>2, PTL DEF TeardownSpec

(* No exit a handler sees leaves anything of the host behind: what exists  *)
(* is registered, and the cleanup goes through every registry.             *)
THEOREM HostIsClean == TeardownSpec => []NothingOutlivesTheProcess
<1>1. TeardownInv => NothingOutlivesTheProcess
  BY DEF TeardownInv, HostInv, NothingOutlivesTheProcess
<1> QED BY <1>1, TeardownInductive, PTL

(* Both sweeps and the last look stay within their budgets, whatever the   *)
(* daemon does.                                                            *)
THEOREM Bounded == TeardownSpec => []TeardownIsBounded
<1>1. TeardownInv => TeardownIsBounded
  <2> SUFFICES ASSUME TeardownType, ClockInv PROVE TeardownIsBounded
    BY DEF TeardownInv
  <2>1. SWEEP_BUDGET \in Nat
    BY SweepAssumption
  <2>2. Before <= SWEEP_BUDGET + 2
    BY <2>1 DEF Before
  <2> QED BY <2>1, <2>2 DEF TeardownType, ClockInv, TeardownIsBounded, Before, Running,
                           SweepPc, Over
<1> QED BY <1>1, TeardownInductive, PTL

(* A teardown that reports nothing has seen everything go that came while  *)
(* it was watching.                                                        *)
THEOREM SilentIsClean == TeardownSpec => []SilentTeardownIsClean
<1>1. TeardownInv => SilentTeardownIsClean
  BY DEF TeardownInv, CleanInv, Watched, There, SilentTeardownIsClean
<1> QED BY <1>1, TeardownInductive, PTL

(* What a killed run left behind is gone after a prune that began with     *)
(* nothing in flight.                                                      *)
THEOREM PruneIsEnough == TeardownSpec => []PruneRecovers
<1>1. TeardownInv => PruneRecovers
  BY DEF TeardownInv, PruneInv, PruneRecovers
<1> QED BY <1>1, TeardownInductive, PTL

-----------------------------------------------------------------------------
(* Induction and recursion over the naturals, with sets for predicates.    *)
LEMMA NatInduct ==
  ASSUME NEW S, 0 \in S, \A n \in Nat : n \in S => n + 1 \in S
  PROVE  \A n \in Nat : n \in S
<1> DEFINE T == Nat \ S
<1>1. SUFFICES ASSUME T # {} PROVE FALSE
  OBVIOUS
<1>2. PICK x \in T : \A y \in T : ~ (<<y, x>> \in OpToRel(<, Nat))
  <2>1. T \subseteq Nat
    OBVIOUS
  <2> QED BY <1>1, <2>1, NatLessThanWellFounded, WFMin
<1>3. x # 0 /\ x - 1 \in Nat /\ x - 1 < x
  OBVIOUS
<1>4. x - 1 \notin T
  BY <1>2, <1>3 DEF OpToRel
<1>5. (x - 1) + 1 \in S
  BY <1>3, <1>4
<1> QED BY <1>5

Iterates(f, x, F, n) == f[0] = x /\ \A i \in 1..n : f[i] = F[<<f[i - 1], i>>]

(* A recursion over 0..m has a solution.                                   *)
LEMMA PrimRec ==
  ASSUME NEW D, NEW x \in D, NEW F \in [D \X Nat -> D], NEW m \in Nat
  PROVE  \E f \in [0..m -> D] : Iterates(f, x, F, m)
<1> USE DEF Iterates
<1> DEFINE P(n) == \E f \in [0..n -> D] : Iterates(f, x, F, n)
           S == {n \in Nat : P(n)}
<1>1. 0 \in S
  <2> DEFINE f == [i \in 0..0 |-> x]
  <2>1. f \in [0..0 -> D] /\ f[0] = x /\ 1..0 = {}
    OBVIOUS
  <2> QED BY <2>1
<1>2. ASSUME NEW n \in Nat, n \in S
      PROVE  n + 1 \in S
  <2>1. PICK f \in [0..n -> D] : f[0] = x /\ \A i \in 1..n : f[i] = F[<<f[i - 1], i>>]
    BY <1>2
  <2> DEFINE g == [i \in 0..(n + 1) |-> IF i <= n THEN f[i] ELSE F[<<f[n], n + 1>>]]
  <2>2. f[n] \in D /\ F[<<f[n], n + 1>>] \in D
    OBVIOUS
  <2>3. g \in [0..(n + 1) -> D]
    BY <2>2
  <2>4. g[0] = x
    BY <2>1
  <2>5. ASSUME NEW i \in 1..(n + 1)
        PROVE  g[i] = F[<<g[i - 1], i>>]
    <3>1. CASE i <= n
      <4>1. i \in 1..n /\ i \in 0..(n + 1) /\ i - 1 \in 0..(n + 1) /\ i - 1 <= n
        BY <3>1
      <4>2. g[i] = f[i] /\ g[i - 1] = f[i - 1]
        BY <4>1
      <4> QED BY <4>1, <4>2, <2>1
    <3>2. CASE i = n + 1
      <4>1. i \in 0..(n + 1) /\ i - 1 \in 0..(n + 1) /\ i - 1 = n /\ ~(i <= n)
        BY <3>2
      <4> QED BY <4>1
    <3> QED BY <3>1, <3>2
  <2>6. P(n + 1)
    BY <2>3, <2>4, <2>5
  <2> QED BY <2>6
<1>3. \A n \in Nat : n \in S
  <2> HIDE DEF S
  <2> QED BY <1>1, <1>2, NatInduct
<1> QED BY <1>3

(* FlattenSeq by its recursion.                                            *)
Unfolds(f, s) ==
  /\ f[1] = s[1]
  /\ \A i \in 2..Len(s) : f[i] = f[i - 1] \o s[i]

(* FlattenSeq, unfolded: the sequence of its partial concatenations.       *)
LEMMA FlattenUnfolds ==
  ASSUME NEW B, NEW s \in Seq(Seq(B)), s # <<>>
  PROVE  \E f \in [1..Len(s) -> Seq(B)] : Unfolds(f, s) /\ FlattenSeq(s) = f[Len(s)]
<1> DEFINE L == Len(s)
           Eq(f) == f = [i \in 1..L |-> IF i = 1 THEN s[i] ELSE f[i - 1] \o s[i]]
           G == CHOOSE f : Eq(f)
           F == [p \in Seq(B) \X Nat |->
                   IF p[2] \in 1..L THEN IF p[2] = 1 THEN s[1] ELSE p[1] \o s[p[2]] ELSE <<>>]
<1>1. L \in Nat /\ L >= 1 /\ \A i \in 1..L : s[i] \in Seq(B)
  OBVIOUS
<1>2. F \in [Seq(B) \X Nat -> Seq(B)]
  <2>1. ASSUME NEW p \in Seq(B) \X Nat
        PROVE  (IF p[2] \in 1..L THEN IF p[2] = 1 THEN s[1] ELSE p[1] \o s[p[2]]
                ELSE <<>>) \in Seq(B)
    BY <1>1, ConcatProperties
  <2> QED BY <2>1
<1>3. PICK f \in [0..L -> Seq(B)] : \A i \in 1..L : f[i] = F[<<f[i - 1], i>>]
  <2> DEFINE D == Seq(B)
             x == <<>>
  <2>1. x \in D /\ F \in [D \X Nat -> D] /\ L \in Nat
    BY <1>1, <1>2
  <2> HIDE DEF F, D, x, L
  <2>2. \E f \in [0..L -> D] : Iterates(f, x, F, L)
    BY <2>1, PrimRec
  <2> QED BY <2>2 DEF D, Iterates
<1>4. \A i \in 1..L : f[i] = IF i = 1 THEN s[i] ELSE f[i - 1] \o s[i]
  <2> TAKE i \in 1..L
  <2>1. f[i - 1] \in Seq(B) /\ i \in Nat
    BY <1>1
  <2>2. F[<<f[i - 1], i>>] = IF i = 1 THEN s[1] ELSE f[i - 1] \o s[i]
    BY <2>1
  <2> QED BY <2>2, <1>3
<1> DEFINE g == [i \in 1..L |-> f[i]]
<1>5. Eq(g)
  BY <1>1, <1>4
<1>6. Eq(G)
  <2> HIDE DEF g
  <2> QED BY <1>5
<1>7. FlattenSeq(s) = G[L]
  BY <1>1 DEF FlattenSeq
<1> HIDE DEF G
<1>8. DOMAIN G = 1..L /\ G[1] = s[1] /\ \A i \in 2..L : G[i] = G[i - 1] \o s[i]
  <2>1. G = [i \in 1..L |-> IF i = 1 THEN s[i] ELSE G[i - 1] \o s[i]]
    BY <1>6
  <2>2. DOMAIN G = 1..L
    BY <2>1
  <2>3. \A i \in 1..L : G[i] = IF i = 1 THEN s[i] ELSE G[i - 1] \o s[i]
    BY <2>1
  <2>4. 1 \in 1..L /\ \A i \in 2..L : i \in 1..L /\ i # 1
    BY <1>1
  <2> HIDE DEF L
  <2> QED BY <2>2, <2>3, <2>4
<1>9. \A i \in 1..L : G[i] \in Seq(B)
  <2> DEFINE S == {n \in Nat : n + 1 \in 1..L => G[n + 1] \in Seq(B)}
  <2>1. 0 \in S
    BY <1>1, <1>8
  <2>2. ASSUME NEW n \in Nat, n \in S
        PROVE  n + 1 \in S
    <3>1. SUFFICES ASSUME (n + 1) + 1 \in 1..L
                   PROVE  G[(n + 1) + 1] \in Seq(B)
      OBVIOUS
    <3>2. n + 1 \in 1..L /\ (n + 1) + 1 \in 2..L /\ ((n + 1) + 1) - 1 = n + 1
      BY <3>1, <1>1
    <3>3. G[n + 1] \in Seq(B) /\ s[(n + 1) + 1] \in Seq(B)
      BY <3>1, <3>2, <2>2, <1>1
    <3>4. G[n + 1] \o s[(n + 1) + 1] \in Seq(B)
      BY <3>3, ConcatProperties
    <3> QED BY <1>8, <3>2, <3>4
  <2>3. \A n \in Nat : n \in S
    <3> HIDE DEF S
    <3> QED BY <2>1, <2>2, NatInduct
  <2> TAKE i \in 1..L
  <2>4. i - 1 \in Nat /\ (i - 1) + 1 = i
    BY <1>1
  <2> QED BY <2>3, <2>4
<1>10. G \in [1..L -> Seq(B)]
  <2>1. G = [i \in 1..L |-> G[i]]
    BY <1>6
  <2> QED BY <1>9, <2>1
<1> QED BY <1>7, <1>8, <1>10 DEF Unfolds

LEMMA FlattenEmpty == FlattenSeq(<<>>) = <<>>
BY DEF FlattenSeq

LEMMA FlattenType ==
  ASSUME NEW B, NEW s \in Seq(Seq(B))
  PROVE  FlattenSeq(s) \in Seq(B)
<1>1. CASE s = <<>>
  BY <1>1, FlattenEmpty, EmptySeq
<1>2. CASE s # <<>>
  <2>1. PICK f \in [1..Len(s) -> Seq(B)] : FlattenSeq(s) = f[Len(s)]
    BY <1>2, FlattenUnfolds
  <2>2. Len(s) \in 1..Len(s)
    BY <1>2
  <2> QED BY <2>1, <2>2
<1> QED BY <1>1, <1>2

Agree(f, g, n) == \A i \in 1..n : f[i] = g[i]

LEMMA UnfoldsAgree ==
  ASSUME NEW s, NEW t, NEW f, NEW g, Len(s) \in Nat, Len(t) \in Nat,
         Unfolds(f, s), Unfolds(g, t), Len(s) <= Len(t), Agree(s, t, Len(s))
  PROVE  Agree(f, g, Len(s))
<1> DEFINE n == Len(s)
<1> USE DEF Agree
<1> DEFINE S == {k \in Nat : k + 1 \in 1..n => f[k + 1] = g[k + 1]}
<1>1. 0 \in S
  BY DEF Unfolds
<1>2. ASSUME NEW k \in Nat, k \in S
      PROVE  k + 1 \in S
  <2>1. SUFFICES ASSUME (k + 1) + 1 \in 1..n
                 PROVE  f[(k + 1) + 1] = g[(k + 1) + 1]
    OBVIOUS
  <2>2. /\ f[k + 1] = g[k + 1] /\ s[(k + 1) + 1] = t[(k + 1) + 1]
        /\ (k + 1) + 1 \in 2..Len(s) /\ (k + 1) + 1 \in 2..Len(t)
        /\ ((k + 1) + 1) - 1 = k + 1
    BY <1>2, <2>1
  <2> QED BY <2>2 DEF Unfolds
<1>3. \A k \in Nat : k \in S
  <2> HIDE DEF S
  <2> QED BY <1>1, <1>2, NatInduct
<1> TAKE i \in 1..n
<1>4. i - 1 \in Nat /\ (i - 1) + 1 = i
  OBVIOUS
<1> QED BY <1>3, <1>4

(* What is appended comes last in the concatenation.                       *)
LEMMA FlattenAppend ==
  ASSUME NEW B, NEW s \in Seq(Seq(B)), NEW e \in Seq(B)
  PROVE  FlattenSeq(Append(s, e)) = FlattenSeq(s) \o e
<1> DEFINE t == Append(s, e)
<1>1. /\ t \in Seq(Seq(B)) /\ t # <<>> /\ Len(t) = Len(s) + 1 /\ Len(s) \in Nat
      /\ t[Len(s) + 1] = e /\ \A i \in 1..Len(s) : t[i] = s[i]
  BY AppendProperties
<1> HIDE DEF t
<1>2. PICK g \in [1..Len(t) -> Seq(B)] : Unfolds(g, t) /\ FlattenSeq(t) = g[Len(t)]
  BY <1>1, FlattenUnfolds
<1>3. CASE s = <<>>
  <2>1. FlattenSeq(t) = e
    BY <1>1, <1>2, <1>3 DEF Unfolds
  <2> QED BY <2>1, <1>3, FlattenEmpty, ConcatEmptySeq DEF t
<1>4. CASE s # <<>>
  <2>1. PICK f \in [1..Len(s) -> Seq(B)] : Unfolds(f, s) /\ FlattenSeq(s) = f[Len(s)]
    BY <1>4, FlattenUnfolds
  <2>2. Len(s) \in 1..Len(s) /\ Len(t) \in 2..Len(t) /\ Len(t) - 1 = Len(s)
    BY <1>1, <1>4
  <2>3. g[Len(s)] = f[Len(s)]
    <3>1. Len(s) <= Len(t) /\ Len(s) \in Nat /\ Len(t) \in Nat
      BY <1>1
    <3>2. Agree(s, t, Len(s))
      BY <1>1 DEF Agree
    <3>3. Agree(f, g, Len(s))
      BY <1>2, <2>1, <3>1, <3>2, UnfoldsAgree
    <3> QED BY <2>2, <3>3 DEF Agree
  <2>4. g[Len(t)] = g[Len(s)] \o e
    BY <1>1, <1>2, <2>2 DEF Unfolds
  <2> QED BY <1>2, <2>1, <2>3, <2>4 DEF t
<1> QED BY <1>3, <1>4

-----------------------------------------------------------------------------
(* The least of some positions, or 0.                                      *)
LEMMA LeastFacts ==
  ASSUME NEW S, S \subseteq Nat \ {0}
  PROVE  /\ Least(S) \in Nat
         /\ Least(S) = 0 <=> S = {}
         /\ S # {} => Least(S) \in S /\ \A j \in S : Least(S) <= j
<1>1. CASE S = {}
  BY <1>1 DEF Least
<1>2. CASE S # {}
  <2>1. PICK x \in S : \A y \in S : ~ (<<y, x>> \in OpToRel(<, Nat))
    <3>1. S \subseteq Nat
      OBVIOUS
    <3> QED BY <1>2, <3>1, NatLessThanWellFounded, WFMin, Zenon
  <2>2. \A y \in S : x <= y
    <3>1. ASSUME NEW y \in S, ~(x <= y)
          PROVE  <<y, x>> \in OpToRel(<, Nat)
      BY <3>1 DEF OpToRel
    <3> QED BY <2>1, <3>1
  <2>3. Least(S) \in S /\ \A j \in S : Least(S) <= j
    BY <1>2, <2>2 DEF Least
  <2> QED BY <1>2, <2>3
<1> QED BY <1>1, <1>2

(* Buffer.indexOf() of a pair of bytes: its first occurrence.              *)
LEMMA IndexFacts ==
  ASSUME NEW B, NEW s \in Seq(B), NEW a, NEW b
  PROVE  /\ IndexOf(s, a, b) \in Nat
         /\ IndexOf(s, a, b) # 0 =>
              /\ IndexOf(s, a, b) \in 1..(Len(s) - 1)
              /\ s[IndexOf(s, a, b)] = a /\ s[IndexOf(s, a, b) + 1] = b
         /\ \A j \in 1..(Len(s) - 1) :
              s[j] = a /\ s[j + 1] = b => IndexOf(s, a, b) # 0 /\ IndexOf(s, a, b) <= j
<1>1. Pairs(s, a, b) \subseteq Nat \ {0}
  BY DEF Pairs
<1>2. /\ Least(Pairs(s, a, b)) \in Nat
      /\ Least(Pairs(s, a, b)) = 0 <=> Pairs(s, a, b) = {}
      /\ Pairs(s, a, b) # {} =>
           /\ Least(Pairs(s, a, b)) \in Pairs(s, a, b)
           /\ \A j \in Pairs(s, a, b) : Least(Pairs(s, a, b)) <= j
  BY <1>1, LeastFacts
<1> QED BY <1>2 DEF IndexOf, Pairs

NoneBefore(s, a, b, i) == \A j \in 1..(i - 1) : ~(s[j] = a /\ s[j + 1] = b)

LEMMA IndexIs ==
  ASSUME NEW B, NEW s \in Seq(B), NEW a, NEW b, NEW i \in 1..(Len(s) - 1),
         s[i] = a, s[i + 1] = b, NoneBefore(s, a, b, i)
  PROVE  IndexOf(s, a, b) = i
<1> USE DEF NoneBefore
<1> DEFINE k == IndexOf(s, a, b)
<1>1. k \in 1..(Len(s) - 1) /\ k <= i /\ s[k] = a /\ s[k + 1] = b
  BY IndexFacts
<1>2. ~(k \in 1..(i - 1))
  BY <1>1
<1> HIDE DEF k
<1> QED BY <1>1, <1>2 DEF k

-----------------------------------------------------------------------------
(* The bytes of w after the first a, up to the b-th.                       *)
Piece(w, a, b) == SubSeq(w, a + 1, b)

(* Pieces: their bytes, the piece after one, the whole of two.             *)
LEMMA PieceFacts ==
  ASSUME NEW B, NEW w \in Seq(B), NEW a \in Nat, NEW b \in Nat, a <= b, b <= Len(w)
  PROVE  /\ Piece(w, a, b) \in Seq(B)
         /\ Len(Piece(w, a, b)) = b - a
         /\ \A i \in 1..(b - a) : Piece(w, a, b)[i] = w[a + i]
<1>1. \A i \in (a + 1)..b : w[i] \in B
  OBVIOUS
<1>2. /\ SubSeq(w, a + 1, b) \in Seq(B)
      /\ Len(SubSeq(w, a + 1, b)) = IF a + 1 <= b THEN b - (a + 1) + 1 ELSE 0
      /\ \A i \in 1..(b - (a + 1) + 1) : SubSeq(w, a + 1, b)[i] = w[(a + 1) + i - 1]
  BY <1>1, SubSeqProperties
<1> QED BY <1>2 DEF Piece

LEMMA PieceAfter ==
  ASSUME NEW B, NEW w \in Seq(B), NEW a \in Nat, NEW b \in Nat, a <= b, b <= Len(w),
         NEW i \in 0..(b - a)
  PROVE  /\ After(Piece(w, a, b), i) = Piece(w, a + i, b)
         /\ SubSeq(Piece(w, a, b), 1, i) = Piece(w, a, a + i)
<1> DEFINE p == Piece(w, a, b)
<1>1. p \in Seq(B) /\ Len(p) = b - a /\ \A j \in 1..(b - a) : p[j] = w[a + j]
  BY PieceFacts
<1>2. /\ Piece(w, a + i, b) \in Seq(B) /\ Len(Piece(w, a + i, b)) = b - (a + i)
      /\ \A j \in 1..(b - (a + i)) : Piece(w, a + i, b)[j] = w[(a + i) + j]
  <2>1. a + i \in Nat /\ a + i <= b
    OBVIOUS
  <2> QED BY <2>1, PieceFacts
<1>3. /\ Piece(w, a, a + i) \in Seq(B) /\ Len(Piece(w, a, a + i)) = i
      /\ \A j \in 1..i : Piece(w, a, a + i)[j] = w[a + j]
  <2> DEFINE c == a + i
  <2>1. c \in Nat /\ a <= c /\ c <= Len(w) /\ c - a = i
    OBVIOUS
  <2> HIDE DEF c
  <2>2. /\ Piece(w, a, c) \in Seq(B) /\ Len(Piece(w, a, c)) = c - a
        /\ \A j \in 1..(c - a) : Piece(w, a, c)[j] = w[a + j]
    BY <2>1, PieceFacts
  <2> QED BY <2>1, <2>2 DEF c
<1> HIDE DEF p
<1>4. /\ SubSeq(p, i + 1, Len(p)) \in Seq(B)
      /\ Len(SubSeq(p, i + 1, Len(p))) = b - (a + i)
      /\ \A j \in 1..(b - (a + i)) : SubSeq(p, i + 1, Len(p))[j] = p[i + j]
  <2> DEFINE x == i + 1
             n == Len(p)
  <2>1. x \in Nat /\ n \in Nat
    BY <1>1
  <2>2. \A j \in x..n : p[j] \in B
    <3>1. \A j \in 1..n : p[j] \in B
      BY <1>1
    <3> QED BY <3>1
  <2>3. /\ n - x + 1 = b - (a + i) /\ (IF x <= n THEN n - x + 1 ELSE 0) = b - (a + i)
        /\ \A j \in 1..(b - (a + i)) : x + j - 1 = i + j
    BY <1>1
  <2> HIDE DEF x, n
  <2>4. /\ SubSeq(p, x, n) \in Seq(B)
        /\ Len(SubSeq(p, x, n)) = IF x <= n THEN n - x + 1 ELSE 0
        /\ \A j \in 1..(n - x + 1) : SubSeq(p, x, n)[j] = p[x + j - 1]
    BY <1>1, <2>1, <2>2, SubSeqProperties
  <2>5. /\ SubSeq(p, x, n) \in Seq(B) /\ Len(SubSeq(p, x, n)) = b - (a + i)
        /\ \A j \in 1..(b - (a + i)) : SubSeq(p, x, n)[j] = p[i + j]
    BY <2>3, <2>4
  <2> QED BY <2>5 DEF x, n
<1>5. /\ SubSeq(p, 1, i) \in Seq(B) /\ Len(SubSeq(p, 1, i)) = i
      /\ \A j \in 1..i : SubSeq(p, 1, i)[j] = p[j]
  <2>1. \A j \in 1..i : p[j] \in B
    BY <1>1
  <2>2. /\ SubSeq(p, 1, i) \in Seq(B)
        /\ Len(SubSeq(p, 1, i)) = IF 1 <= i THEN i - 1 + 1 ELSE 0
        /\ \A j \in 1..(i - 1 + 1) : SubSeq(p, 1, i)[j] = p[1 + j - 1]
    BY <1>1, <2>1, SubSeqProperties
  <2> QED BY <1>1, <2>2
<1>6. SubSeq(p, i + 1, Len(p)) = Piece(w, a + i, b)
  <2>1. \A j \in 1..Len(Piece(w, a + i, b)) :
          SubSeq(p, i + 1, Len(p))[j] = Piece(w, a + i, b)[j]
    <3> TAKE j \in 1..Len(Piece(w, a + i, b))
    <3>1. j \in 1..(b - (a + i)) /\ i + j \in 1..(b - a) /\ a + (i + j) = (a + i) + j
      BY <1>2
    <3> QED BY <1>1, <1>2, <1>4, <3>1
  <2> QED BY <1>2, <1>4, <2>1, SeqEqual
<1>7. SubSeq(p, 1, i) = Piece(w, a, a + i)
  <2>1. \A j \in 1..i : SubSeq(p, 1, i)[j] = Piece(w, a, a + i)[j]
    <3> TAKE j \in 1..i
    <3>1. j \in 1..(b - a)
      OBVIOUS
    <3> QED BY <1>1, <1>3, <1>5, <3>1
  <2> QED BY <1>3, <1>5, <2>1, SeqEqual
<1> QED BY <1>6, <1>7 DEF After, p

LEMMA PieceConcat ==
  ASSUME NEW B, NEW w \in Seq(B), NEW a \in Nat, NEW b \in Nat, NEW d \in Nat,
         a <= b, b <= d, d <= Len(w)
  PROVE  Piece(w, a, b) \o Piece(w, b, d) = Piece(w, a, d)
<1>1. a + 1 \in 1..(Len(w) + 1) /\ b \in ((a + 1) - 1)..Len(w) /\ d \in b..Len(w)
  OBVIOUS
<1> QED BY <1>1, ConcatAdjacentSubSeq DEF Piece

LEMMA PieceWhole ==
  ASSUME NEW B, NEW w \in Seq(B)
  PROVE  Piece(w, 0, Len(w)) = w
BY SubSeqFull DEF Piece

LEMMA Halves ==
  ASSUME NEW B, NEW s \in Seq(B), NEW i \in 0..Len(s)
  PROVE  /\ SubSeq(s, 1, i) \in Seq(B) /\ Len(SubSeq(s, 1, i)) = i
         /\ \A j \in 1..i : SubSeq(s, 1, i)[j] = s[j]
         /\ After(s, i) \in Seq(B) /\ Len(After(s, i)) = Len(s) - i
         /\ \A j \in 1..(Len(s) - i) : After(s, i)[j] = s[i + j]
         /\ SubSeq(s, 1, i) \o After(s, i) = s
<1> DEFINE z == 0
           n == Len(s)
<1>0. z \in Nat /\ n \in Nat /\ z <= i /\ i <= n /\ i \in Nat /\ n <= n
  OBVIOUS
<1>1. /\ Piece(s, z, i) \in Seq(B) /\ Len(Piece(s, z, i)) = i - z
      /\ \A j \in 1..(i - z) : Piece(s, z, i)[j] = s[z + j]
  <2>1. i <= Len(s)
    BY <1>0
  <2> HIDE DEF z
  <2> QED BY <1>0, <2>1, PieceFacts
<1>2. /\ Piece(s, i, n) \in Seq(B) /\ Len(Piece(s, i, n)) = n - i
      /\ \A j \in 1..(n - i) : Piece(s, i, n)[j] = s[i + j]
  <2>1. n <= Len(s)
    BY <1>0
  <2> HIDE DEF n
  <2> QED BY <1>0, <2>1, PieceFacts
<1>3. Piece(s, z, i) \o Piece(s, i, n) = s
  <2>1. n <= Len(s) /\ Piece(s, z, n) = s
    BY <1>0, PieceWhole
  <2> HIDE DEF n, z
  <2>2. Piece(s, z, i) \o Piece(s, i, n) = Piece(s, z, n)
    BY <1>0, <2>1, PieceConcat
  <2> QED BY <2>1, <2>2
<1>4. Piece(s, z, i) = SubSeq(s, 1, i) /\ Piece(s, i, n) = After(s, i)
  BY DEF Piece, After
<1>5. i - z = i /\ \A j \in 1..i : z + j = j
  OBVIOUS
<1> HIDE DEF z
<1>6. \A j \in 1..i : SubSeq(s, 1, i)[j] = s[j]
  BY <1>1, <1>4, <1>5
<1> QED BY <1>1, <1>2, <1>3, <1>4, <1>5, <1>6

(* A reader's text is cut into frames, each of them ending at its first    *)
(* blank line.                                                             *)
Parts(B) == [frames : Seq(Seq(B)), carry : Seq(B)]
Text(c) == FlattenSeq(c.frames) \o c.carry
FramesEnd(c) ==
  \A k \in DOMAIN c.frames : IndexOf(c.frames[k], "n", "n") = Len(c.frames[k]) - 1

(* One turn of emit()'s loop keeps the text and its frames whole.          *)
LEMMA CutStep ==
  ASSUME NEW B, NEW c \in Parts(B)
  PROVE  /\ Cut(c) \in Parts(B)
         /\ Text(Cut(c)) = Text(c)
         /\ FramesEnd(c) => FramesEnd(Cut(c))
         /\ IndexOf(c.carry, "n", "n") = 0 => Cut(c) = c
         /\ IndexOf(c.carry, "n", "n") # 0 => Len(Cut(c).carry) < Len(c.carry)
<1> DEFINE i == IndexOf(c.carry, "n", "n")
           frame == SubSeq(c.carry, 1, i + 1)
           rest == After(c.carry, i + 1)
<1>1. c.frames \in Seq(Seq(B)) /\ c.carry \in Seq(B) /\ i \in Nat
  BY IndexFacts DEF Parts
<1>2. CASE i = 0
  BY <1>2 DEF Cut
<1>3. CASE i # 0
  <2>1. /\ i \in 1..(Len(c.carry) - 1) /\ c.carry[i] = "n" /\ c.carry[i + 1] = "n"
        /\ \A j \in 1..(Len(c.carry) - 1) :
             c.carry[j] = "n" /\ c.carry[j + 1] = "n" => i <= j
    BY <1>1, <1>3, IndexFacts
  <2>2. /\ i + 1 \in 0..Len(c.carry) /\ Len(c.carry) \in Nat
    BY <1>1, <2>1
  <2>3. /\ frame \in Seq(B) /\ Len(frame) = i + 1
        /\ \A j \in 1..(i + 1) : frame[j] = c.carry[j]
        /\ rest \in Seq(B) /\ Len(rest) = Len(c.carry) - (i + 1)
        /\ frame \o rest = c.carry
    <3> DEFINE s == c.carry
               m == i + 1
    <3>1. s \in Seq(B) /\ m \in 0..Len(s)
      BY <1>1, <2>2
    <3> HIDE DEF s, m
    <3>2. /\ SubSeq(s, 1, m) \in Seq(B) /\ Len(SubSeq(s, 1, m)) = m
          /\ \A j \in 1..m : SubSeq(s, 1, m)[j] = s[j]
          /\ After(s, m) \in Seq(B) /\ Len(After(s, m)) = Len(s) - m
          /\ SubSeq(s, 1, m) \o After(s, m) = s
      BY <3>1, Halves
    <3> QED BY <3>2 DEF s, m
  <2>4. Cut(c) = [frames |-> Append(c.frames, frame), carry |-> rest]
    BY <1>3 DEF Cut
  <2>5. IndexOf(frame, "n", "n") = Len(frame) - 1
    <3> HIDE DEF i, frame, rest
    <3>1. /\ i \in 1..(Len(frame) - 1) /\ frame[i] = "n" /\ frame[i + 1] = "n"
          /\ \A j \in 1..(i - 1) : ~(frame[j] = "n" /\ frame[j + 1] = "n")
      <4>1. i \in 1..(Len(frame) - 1) /\ frame[i] = "n" /\ frame[i + 1] = "n"
        BY <1>1, <2>1, <2>3
      <4>2. ASSUME NEW j \in 1..(i - 1)
            PROVE  ~(frame[j] = "n" /\ frame[j + 1] = "n")
        <5>1. /\ j \in 1..(i + 1) /\ j + 1 \in 1..(i + 1) /\ ~(i <= j)
              /\ j \in 1..(Len(c.carry) - 1)
          BY <1>1, <2>1
        <5> QED BY <2>1, <2>3, <5>1
      <4> QED BY <4>1, <4>2
    <3>2. IndexOf(frame, "n", "n") = i
      <4>1. NoneBefore(frame, "n", "n", i)
        BY <3>1 DEF NoneBefore
      <4> QED BY <2>3, <3>1, <4>1, IndexIs
    <3> QED BY <2>3, <3>2, <1>1
  <2> HIDE DEF frame, rest, i
  <2>6. /\ Append(c.frames, frame) \in Seq(Seq(B))
        /\ Len(Append(c.frames, frame)) = Len(c.frames) + 1
        /\ \A k \in 1..Len(c.frames) : Append(c.frames, frame)[k] = c.frames[k]
        /\ Append(c.frames, frame)[Len(c.frames) + 1] = frame
    BY <1>1, <2>3, AppendProperties
  <2>7. Cut(c) \in Parts(B) /\ Cut(c).frames = Append(c.frames, frame) /\ Cut(c).carry = rest
    BY <2>3, <2>4, <2>6 DEF Parts
  <2>8. Text(Cut(c)) = Text(c)
    <3>1. FlattenSeq(c.frames) \in Seq(B)
      BY <1>1, FlattenType
    <3>2. FlattenSeq(Append(c.frames, frame)) = FlattenSeq(c.frames) \o frame
      BY <1>1, <2>3, FlattenAppend
    <3>3. (FlattenSeq(c.frames) \o frame) \o rest = FlattenSeq(c.frames) \o (frame \o rest)
      <4> DEFINE t == FlattenSeq(c.frames)
      <4>1. t \in Seq(B) /\ frame \in Seq(B) /\ rest \in Seq(B)
        BY <3>1, <2>3
      <4> HIDE DEF t
      <4>2. (t \o frame) \o rest = t \o (frame \o rest)
        BY <4>1, ConcatAssociative
      <4> QED BY <4>2 DEF t
    <3> QED BY <2>3, <2>7, <3>2, <3>3 DEF Text
  <2>9. FramesEnd(c) => FramesEnd(Cut(c))
    <3>1. SUFFICES ASSUME FramesEnd(c), NEW k \in DOMAIN Append(c.frames, frame)
                   PROVE  IndexOf(Append(c.frames, frame)[k], "n", "n")
                            = Len(Append(c.frames, frame)[k]) - 1
      BY <2>7 DEF FramesEnd
    <3>2. k \in 1..Len(c.frames) \/ k = Len(c.frames) + 1
      BY <1>1, <2>6, <3>1
    <3> QED BY <1>1, <2>5, <2>6, <3>1, <3>2 DEF FramesEnd
  <2>10. Len(Cut(c).carry) < Len(c.carry)
    BY <1>1, <2>2, <2>3, <2>7
  <2> QED BY <1>3, <2>7, <2>8, <2>9, <2>10 DEF i
<1> QED BY <1>2, <1>3

(* The cuts of Split, which end where there is no blank line left.         *)
Cutting(c, text) == Text(c) = text /\ FramesEnd(c)

LEMMA SplitFacts ==
  ASSUME NEW B, NEW frames \in Seq(Seq(B)), NEW carry \in Seq(B),
         FramesEnd([frames |-> frames, carry |-> carry])
  PROVE  /\ Split(frames, carry) \in Parts(B)
         /\ Cutting(Split(frames, carry), FlattenSeq(frames) \o carry)
         /\ IndexOf(Split(frames, carry).carry, "n", "n") = 0
<1> DEFINE c0 == [frames |-> frames, carry |-> carry]
           n == Len(carry)
           Eq(f) == f = [i \in 0..n |-> IF i = 0 THEN c0 ELSE Cut(f[i - 1])]
           G == CHOOSE f : Eq(f)
           D == Parts(B)
           F == [p \in D \X Nat |-> Cut(p[1])]
           text == FlattenSeq(frames) \o carry
<1>1. c0 \in D /\ n \in Nat
  BY DEF Parts
<1>2. F \in [D \X Nat -> D]
  BY CutStep
<1>3. PICK f \in [0..n -> D] : Iterates(f, c0, F, n)
  <2> HIDE DEF F, D, n, c0
  <2> QED BY <1>1, <1>2, PrimRec
<1>4. Eq(f)
  <2>1. \A i \in 1..n : f[i - 1] \in D /\ f[i] = Cut(f[i - 1])
    <3> TAKE i \in 1..n
    <3>1. f[i - 1] \in D /\ i \in Nat
      <4>1. i - 1 \in 0..n /\ i \in Nat
        BY <1>1
      <4> HIDE DEF D, n
      <4> QED BY <4>1
    <3>2. F[<<f[i - 1], i>>] = Cut(f[i - 1])
      BY <3>1
    <3> QED BY <1>3, <3>1, <3>2 DEF Iterates
  <2>2. f[0] = c0
    BY <1>3 DEF Iterates
  <2> HIDE DEF n, c0
  <2> QED BY <1>1, <2>1, <2>2
<1>5. Eq(G)
  BY <1>4
<1>6. Split(frames, carry) = G[n]
  BY DEF Split
<1> HIDE DEF G, F
<1>7. G[0] = c0 /\ \A i \in Nat : i + 1 <= n => G[i + 1] = Cut(G[i])
  <2>1. G = [i \in 0..n |-> IF i = 0 THEN c0 ELSE Cut(G[i - 1])]
    BY <1>5
  <2> HIDE DEF n, c0
  <2>2. \A i \in 0..n : G[i] = IF i = 0 THEN c0 ELSE Cut(G[i - 1])
    BY <2>1
  <2>3. \A i \in Nat : i + 1 <= n => i + 1 \in 0..n /\ i + 1 # 0 /\ (i + 1) - 1 = i
    BY <1>1
  <2>4. 0 \in 0..n
    BY <1>1
  <2> QED BY <2>2, <2>3, <2>4
<1> DEFINE Good(c, i) == /\ c \in D /\ Cutting(c, text)
                         /\ IndexOf(c.carry, "n", "n") = 0 \/ Len(c.carry) <= n - i
           S == {i \in Nat : i <= n => Good(G[i], i)}
<1>8. 0 \in S
  <2>1. c0.carry = carry /\ Text(c0) = text
    BY DEF Text
  <2>2. FramesEnd(c0)
    OBVIOUS
  <2>3. Len(carry) <= n - 0
    BY <1>1
  <2> HIDE DEF c0, text, D, n
  <2>4. Good(c0, 0)
    BY <1>1, <2>1, <2>2, <2>3 DEF Cutting
  <2> HIDE DEF Good
  <2> QED BY <1>7, <2>4
<1>9. ASSUME NEW i \in Nat, i \in S
      PROVE  i + 1 \in S
  <2>1. SUFFICES ASSUME i + 1 <= n
                 PROVE  Good(G[i + 1], i + 1)
    OBVIOUS
  <2>2. Good(G[i], i) /\ G[i + 1] = Cut(G[i])
    BY <1>1, <1>7, <1>9, <2>1
  <2> DEFINE c == G[i]
             d == G[i + 1]
  <2>3. /\ d \in D /\ Text(d) = Text(c)
        /\ FramesEnd(c) => FramesEnd(d)
        /\ IndexOf(c.carry, "n", "n") = 0 => d = c
        /\ IndexOf(c.carry, "n", "n") # 0 => Len(d.carry) < Len(c.carry)
    <3>1. c \in D
      BY <2>2
    <3> HIDE DEF c
    <3> QED BY <2>2, <3>1, CutStep DEF c
  <2> HIDE DEF c, d, text
  <2>4. Good(c, i)
    BY <2>2 DEF c
  <2>5. Cutting(d, text)
    BY <2>3, <2>4 DEF Cutting
  <2>6. SUFFICES Good(d, i + 1)
    BY DEF d
  <2>7. CASE IndexOf(c.carry, "n", "n") = 0
    BY <2>3, <2>4, <2>5, <2>7
  <2>8. CASE IndexOf(c.carry, "n", "n") # 0
    <3>1. Len(c.carry) \in Nat /\ Len(d.carry) \in Nat
      BY <2>3, <2>4 DEF Parts
    <3>2. Len(c.carry) <= n - i /\ Len(d.carry) < Len(c.carry)
      BY <2>3, <2>4, <2>8
    <3>3. Len(d.carry) <= n - (i + 1)
      <4> HIDE DEF n
      <4> QED BY <1>1, <3>1, <3>2
    <3> QED BY <2>3, <2>5, <3>3
  <2> QED BY <2>7, <2>8
<1>10. \A i \in Nat : i \in S
  <2> HIDE DEF S
  <2> QED BY <1>8, <1>9, NatInduct
<1>11. Good(G[n], n)
  <2> HIDE DEF n, D, text
  <2> QED BY <1>1, <1>10
<1>12. IndexOf(G[n].carry, "n", "n") = 0
  <2>1. G[n].carry \in Seq(B) /\ n - n = 0
    BY <1>1, <1>11 DEF Parts
  <2>2. CASE Len(G[n].carry) <= 0
    BY <2>1, <2>2, IndexFacts
  <2> QED BY <1>11, <2>1, <2>2
<1> QED BY <1>6, <1>11, <1>12

-----------------------------------------------------------------------------
(* The reader's record.                                                    *)
Readers(B) ==
  [state : {"size", "data", "crlf", "trailer", "done", "identity"}, pending : Seq(B),
   need : Nat, carry : Seq(B), frames : Seq(Seq(B)), chunkSizes : Seq(Nat),
   bodyBytes : Nat, complete : BOOLEAN, bad : BOOLEAN]

Framed(rd) == FramesEnd(rd) /\ IndexOf(rd.carry, "n", "n") = 0

(* emit() adds its bytes to the text and leaves no frame uncut.            *)
LEMMA EmitFacts ==
  ASSUME NEW B, NEW rd \in Readers(B), NEW bytes \in Seq(B), FramesEnd(rd)
  PROVE  /\ Emit(rd, bytes) \in Readers(B)
         /\ Text(Emit(rd, bytes)) = Text(rd) \o bytes
         /\ Framed(Emit(rd, bytes))
         /\ Emit(rd, bytes).pending = rd.pending /\ Emit(rd, bytes).state = rd.state
         /\ Emit(rd, bytes).need = rd.need /\ Emit(rd, bytes).chunkSizes = rd.chunkSizes
         /\ Emit(rd, bytes).complete = rd.complete /\ Emit(rd, bytes).bad = rd.bad
<1> DEFINE all == rd.carry \o bytes
           c == Split(rd.frames, all)
           e == Emit(rd, bytes)
<1>1. rd.frames \in Seq(Seq(B)) /\ rd.carry \in Seq(B) /\ rd.bodyBytes \in Nat /\ Len(bytes) \in Nat
  BY DEF Readers
<1>2. all \in Seq(B)
  BY <1>1, ConcatProperties
<1>3. FramesEnd([frames |-> rd.frames, carry |-> all])
  BY DEF FramesEnd
<1> HIDE DEF all
<1>4. /\ c \in Parts(B) /\ Cutting(c, FlattenSeq(rd.frames) \o all)
      /\ IndexOf(c.carry, "n", "n") = 0
  BY <1>1, <1>2, <1>3, SplitFacts
<1>5. e = [rd EXCEPT !.frames = c.frames, !.carry = c.carry,
                     !.bodyBytes = rd.bodyBytes + Len(bytes)]
  BY DEF Emit, all
<1> HIDE DEF c
<1>6. c.frames \in Seq(Seq(B)) /\ c.carry \in Seq(B)
  BY <1>4 DEF Parts
<1>7. /\ e \in Readers(B) /\ e.frames = c.frames /\ e.carry = c.carry
      /\ e.pending = rd.pending /\ e.state = rd.state
      /\ e.need = rd.need /\ e.chunkSizes = rd.chunkSizes
      /\ e.complete = rd.complete /\ e.bad = rd.bad
  <2> DEFINE more == rd.bodyBytes + Len(bytes)
  <2>1. more \in Nat
    BY <1>1
  <2> HIDE DEF more, e
  <2>2. e = [rd EXCEPT !.frames = c.frames, !.carry = c.carry, !.bodyBytes = more]
    BY <1>5 DEF more
  <2> QED BY <1>6, <2>1, <2>2 DEF Readers
<1> HIDE DEF e
<1>8. Text(e) = Text(rd) \o bytes
  <2> DEFINE t == FlattenSeq(rd.frames)
  <2>1. t \in Seq(B)
    BY <1>1, FlattenType
  <2>2. Text(e) = t \o all /\ Text(rd) = t \o rd.carry
    BY <1>4, <1>7 DEF Cutting, Text
  <2> DEFINE k == rd.carry
  <2>3. k \in Seq(B) /\ all = k \o bytes /\ Text(rd) = t \o k
    BY <1>1, <2>2 DEF all
  <2> HIDE DEF t, k
  <2>4. (t \o k) \o bytes = t \o (k \o bytes)
    BY <2>1, <2>3, ConcatAssociative
  <2> QED BY <2>2, <2>3, <2>4
<1>9. Framed(e)
  BY <1>4, <1>7 DEF Framed, FramesEnd, Cutting
<1> QED BY <1>7, <1>8, <1>9 DEF e

LEMMA ReaderFields ==
  ASSUME NEW B, NEW rd \in Readers(B)
  PROVE  /\ rd.pending \in Seq(B) /\ Len(rd.pending) \in Nat /\ rd.need \in Nat
         /\ rd.frames \in Seq(Seq(B)) /\ rd.carry \in Seq(B)
         /\ rd.chunkSizes \in Seq(Nat) /\ rd.bodyBytes \in Nat
         /\ rd.complete \in BOOLEAN /\ rd.bad \in BOOLEAN
BY DEF Readers

(* What is left after some bytes of a reader's input.                      *)
LEMMA PairEnds ==
  ASSUME NEW B, NEW s \in Seq(B), NEW a, NEW b, IndexOf(s, a, b) # 0
  PROVE  /\ IndexOf(s, a, b) + 1 \in 0..Len(s) /\ IndexOf(s, a, b) - 1 \in 0..Len(s)
         /\ After(s, IndexOf(s, a, b) + 1) \in Seq(B)
         /\ Len(After(s, IndexOf(s, a, b) + 1)) < Len(s)
<1> DEFINE i == IndexOf(s, a, b)
<1>1. i \in 1..(Len(s) - 1) /\ Len(s) \in Nat
  BY IndexFacts
<1> HIDE DEF i
<1> DEFINE j == i + 1
<1>2. j \in 0..Len(s) /\ i - 1 \in 0..Len(s) /\ j > 0
  BY <1>1
<1> HIDE DEF j
<1>3. After(s, j) \in Seq(B) /\ Len(After(s, j)) = Len(s) - j
  BY <1>2, Halves
<1> QED BY <1>1, <1>2, <1>3 DEF i, j

SameText(rd, x) ==
  /\ x.frames = rd.frames /\ x.carry = rd.carry /\ x.chunkSizes = rd.chunkSizes
  /\ x.bodyBytes = rd.bodyBytes

(* The turns, one by one: their types, and what they leave alone.          *)
LEMMA SizeTurnType ==
  ASSUME NEW B, NEW rd \in Readers(B)
  PROVE  SizeTurn(rd) \in Readers(B) /\ SameText(rd, SizeTurn(rd))
<1> DEFINE i == IndexOf(rd.pending, "r", "n")
           size == SizeOf(SubSeq(rd.pending, 1, i - 1))
           rest == After(rd.pending, i + 1)
           need == CHOOSE k \in size : TRUE
           long == Len(rd.pending) > SizeLineLimit
<1>1. i # 0 => rest \in Seq(B)
  BY ReaderFields, PairEnds
<1>2. size # {} => need \in Nat
  BY SizeLineAssumption DEF SizeOf
<1>3. long \in BOOLEAN /\ i \in Nat
  BY ReaderFields, IndexFacts
<1>4. \/ i = 0 /\ SizeTurn(rd) = [rd EXCEPT !.bad = long]
      \/ SizeTurn(rd) = [rd EXCEPT !.bad = TRUE]
      \/ i # 0 /\ SizeTurn(rd) = [rd EXCEPT !.pending = rest, !.state = "trailer"]
      \/ i # 0 /\ size # {} /\ SizeTurn(rd) = [rd EXCEPT !.pending = rest, !.state = "data",
                                                         !.need = need]
  BY <1>3 DEF SizeTurn
<1> HIDE DEF rest, need, i, size, long
<1> DEFINE x == SizeTurn(rd)
<1>5. \/ i = 0 /\ x = [rd EXCEPT !.bad = long]
      \/ x = [rd EXCEPT !.bad = TRUE]
      \/ i # 0 /\ x = [rd EXCEPT !.pending = rest, !.state = "trailer"]
      \/ i # 0 /\ size # {} /\ x = [rd EXCEPT !.pending = rest, !.state = "data", !.need = need]
  BY <1>4
<1> HIDE DEF x
<1>6. x \in Readers(B)
  BY <1>1, <1>2, <1>3, <1>5 DEF Readers
<1>7. SameText(rd, x)
  BY <1>5 DEF Readers, SameText
<1> QED BY <1>6, <1>7 DEF x

LEMMA DataTurnFacts ==
  ASSUME NEW B, NEW rd \in Readers(B), FramesEnd(rd)
  PROVE  /\ DataTurn(rd) \in Readers(B)
         /\ Len(rd.pending) < rd.need => DataTurn(rd) = rd
         /\ Len(rd.pending) >= rd.need =>
              /\ Text(DataTurn(rd)) = Text(rd) \o SubSeq(rd.pending, 1, rd.need)
              /\ Framed(DataTurn(rd))
              /\ DataTurn(rd).pending = After(rd.pending, rd.need)
              /\ DataTurn(rd).chunkSizes = Append(rd.chunkSizes, rd.need)
              /\ DataTurn(rd).state = "crlf"
              /\ DataTurn(rd).complete = rd.complete /\ DataTurn(rd).bad = rd.bad
<1>1. CASE Len(rd.pending) < rd.need
  BY <1>1, ReaderFields DEF DataTurn
<1>2. CASE ~(Len(rd.pending) < rd.need)
  <2> DEFINE k == rd.need
             bytes == SubSeq(rd.pending, 1, k)
             rest == After(rd.pending, k)
             e == Emit(rd, bytes)
             sizes == Append(rd.chunkSizes, k)
  <2>1. k \in 0..Len(rd.pending) /\ k \in Nat
    BY <1>2, ReaderFields
  <2>2. bytes \in Seq(B) /\ rest \in Seq(B)
    <3> HIDE DEF k
    <3> QED BY <2>1, ReaderFields, Halves
  <2>3. sizes \in Seq(Nat)
    <3> HIDE DEF k
    <3> QED BY <2>1, ReaderFields, AppendProperties
  <2> HIDE DEF bytes
  <2>4. /\ e \in Readers(B) /\ Text(e) = Text(rd) \o bytes /\ Framed(e)
        /\ e.chunkSizes = rd.chunkSizes /\ e.complete = rd.complete /\ e.bad = rd.bad
    BY <2>2, EmitFacts
  <2>5. DataTurn(rd) = [e EXCEPT !.pending = rest, !.chunkSizes = sizes,
                                 !.need = 0, !.state = "crlf"]
    BY <1>2, <2>4 DEF DataTurn, bytes
  <2> DEFINE d == DataTurn(rd)
  <2> HIDE DEF e, rest, sizes, d
  <2>6. /\ d \in Readers(B) /\ d.pending = rest /\ d.chunkSizes = sizes /\ d.state = "crlf"
        /\ d.complete = e.complete /\ d.bad = e.bad
        /\ d.frames = e.frames /\ d.carry = e.carry
    <3>1. d = [e EXCEPT !.pending = rest, !.chunkSizes = sizes, !.need = 0, !.state = "crlf"]
      BY <2>5 DEF d
    <3> QED BY <2>2, <2>3, <2>4, <3>1 DEF Readers
  <2>7. Text(d) = Text(e) /\ Framed(d)
    BY <2>4, <2>6 DEF Text, Framed, FramesEnd
  <2> QED BY <1>2, <2>1, <2>4, <2>6, <2>7 DEF d, bytes, rest, sizes
<1> QED BY <1>1, <1>2

LEMMA OtherTurnTypes ==
  ASSUME NEW B, NEW rd \in Readers(B)
  PROVE  /\ CrlfTurn(rd) \in Readers(B) /\ SameText(rd, CrlfTurn(rd))
         /\ TrailerTurn(rd) \in Readers(B) /\ SameText(rd, TrailerTurn(rd))
<1> DEFINE i == IndexOf(rd.pending, "r", "n")
           rest == After(rd.pending, i + 1)
<1>1. /\ i \in Nat
      /\ i # 0 => rest \in Seq(B)
  BY ReaderFields, IndexFacts, PairEnds
<1>2. CrlfTurn(rd) \in Readers(B) /\ SameText(rd, CrlfTurn(rd))
  <2> DEFINE x == CrlfTurn(rd)
             two == After(rd.pending, 2)
  <2>1. \/ x = rd \/ x = [rd EXCEPT !.bad = TRUE]
        \/ i = 1 /\ x = [rd EXCEPT !.pending = two, !.state = "size"]
    BY DEF CrlfTurn
  <2>2. i = 1 => two \in Seq(B)
    BY <1>1
  <2> HIDE DEF i, x, two
  <2>3. x \in Readers(B)
    BY <2>1, <2>2 DEF Readers
  <2>4. SameText(rd, x)
    BY <2>1 DEF Readers, SameText
  <2> QED BY <2>3, <2>4 DEF x
<1>3. TrailerTurn(rd) \in Readers(B) /\ SameText(rd, TrailerTurn(rd))
  <2> DEFINE x == TrailerTurn(rd)
             two == After(rd.pending, 2)
  <2>1. \/ x = rd
        \/ i = 1 /\ x = [rd EXCEPT !.pending = two, !.complete = TRUE, !.state = "done"]
        \/ i # 0 /\ x = [rd EXCEPT !.pending = rest]
    BY DEF TrailerTurn
  <2>2. i = 1 => two \in Seq(B)
    BY <1>1
  <2> HIDE DEF i, rest, x, two
  <2>3. x \in Readers(B)
    BY <1>1, <2>1, <2>2 DEF Readers
  <2>4. SameText(rd, x)
    BY <2>1 DEF Readers, SameText
  <2> QED BY <2>3, <2>4 DEF x
<1> QED BY <1>2, <1>3

LEMMA SameFraming ==
  ASSUME NEW rd, NEW x, SameText(rd, x)
  PROVE  /\ Text(x) = Text(rd)
         /\ FramesEnd(rd) => FramesEnd(x)
         /\ Framed(rd) => Framed(x)
BY DEF SameText, Text, Framed, FramesEnd

(* A turn is that of the reader's state, or none.                          *)
LEMMA TurnCases ==
  ASSUME NEW B, NEW rd \in Readers(B)
  PROVE  /\ rd.bad => Turn(rd) = rd
         /\ ~rd.bad /\ rd.state = "size" => Turn(rd) = SizeTurn(rd)
         /\ ~rd.bad /\ rd.state = "data" => Turn(rd) = DataTurn(rd)
         /\ ~rd.bad /\ rd.state = "crlf" => Turn(rd) = CrlfTurn(rd)
         /\ ~rd.bad /\ rd.state = "trailer" => Turn(rd) = TrailerTurn(rd)
         /\ ~rd.bad /\ rd.state \in {"done", "identity"} => Turn(rd) = rd
         /\ rd.state \in {"size", "data", "crlf", "trailer", "done", "identity"}
<1>1. rd.bad \in BOOLEAN
  BY DEF Readers
<1>2. rd.state \in {"size", "data", "crlf", "trailer", "done", "identity"}
  BY DEF Readers
<1> QED BY <1>1, <1>2 DEF Turn

(* The loop: what every turn keeps is kept, and it ends.                   *)
Closed(D) == \A x \in D : Turn(x) \in D
Ends(D) ==
  \A x \in D :
    \/ Turn(x) = x \/ Turn(x).bad
    \/ Len(Turn(x).pending) < Len(x.pending)

FramedReaders(B) == {rd \in Readers(B) : Framed(rd)}

LEMMA FramedReadersClosed ==
  ASSUME NEW B
  PROVE  Closed(FramedReaders(B))
<1> SUFFICES ASSUME NEW rd \in Readers(B), Framed(rd)
             PROVE  Turn(rd) \in Readers(B) /\ Framed(Turn(rd))
  BY DEF Closed, FramedReaders
<1>1. SizeTurn(rd) \in Readers(B) /\ Framed(SizeTurn(rd))
  BY SizeTurnType, SameFraming
<1>2. DataTurn(rd) \in Readers(B) /\ Framed(DataTurn(rd))
  <2>1. FramesEnd(rd)
    BY DEF Framed
  <2>2. \/ Len(rd.pending) < rd.need
        \/ Len(rd.pending) >= rd.need
    BY ReaderFields
  <2> QED BY <2>1, <2>2, DataTurnFacts
<1>3. CrlfTurn(rd) \in Readers(B) /\ Framed(CrlfTurn(rd))
  BY OtherTurnTypes, SameFraming
<1>4. TrailerTurn(rd) \in Readers(B) /\ Framed(TrailerTurn(rd))
  BY OtherTurnTypes, SameFraming
<1>5. rd.bad \/ ~rd.bad
  OBVIOUS
<1> QED BY <1>1, <1>2, <1>3, <1>4, <1>5, TurnCases

(* push()'s loop as a sequence of turns.                                   *)
LEMMA LoopRuns ==
  ASSUME NEW B, NEW D, D \subseteq Readers(B), Closed(D), NEW rd \in D
  PROVE  \E run \in [0..(Len(rd.pending) + 1) -> D] :
           /\ run[0] = rd
           /\ \A i \in 1..(Len(rd.pending) + 1) : run[i] = Turn(run[i - 1])
           /\ Loop(rd) = run[Len(rd.pending) + 1]
<1> DEFINE n == Len(rd.pending) + 1
           Eq(f) == f = [i \in 0..n |-> IF i = 0 THEN rd ELSE Turn(f[i - 1])]
           G == CHOOSE f : Eq(f)
           F == [p \in D \X Nat |-> Turn(p[1])]
<1>1. n \in Nat
  BY ReaderFields
<1>2. F \in [D \X Nat -> D]
  BY DEF Closed
<1>3. PICK f \in [0..n -> D] : Iterates(f, rd, F, n)
  <2> HIDE DEF F, n
  <2> QED BY <1>1, <1>2, PrimRec
<1>4. Eq(f)
  <2>1. \A i \in 1..n : f[i - 1] \in D /\ f[i] = Turn(f[i - 1])
    <3> TAKE i \in 1..n
    <3> HIDE DEF n
    <3>1. f[i - 1] \in D /\ i \in Nat
      BY <1>1
    <3>2. F[<<f[i - 1], i>>] = Turn(f[i - 1])
      BY <3>1
    <3> QED BY <1>3, <3>1, <3>2 DEF Iterates
  <2>2. f[0] = rd
    BY <1>3 DEF Iterates
  <2> HIDE DEF n
  <2> QED BY <1>1, <2>1, <2>2
<1>5. Eq(G)
  BY <1>4
<1>6. Loop(rd) = G[n]
  BY DEF Loop
<1> HIDE DEF G, F
<1>7. G[0] = rd /\ \A i \in 1..n : G[i] = Turn(G[i - 1])
  <2>1. G = [i \in 0..n |-> IF i = 0 THEN rd ELSE Turn(G[i - 1])]
    BY <1>5
  <2> HIDE DEF n
  <2>2. \A i \in 0..n : G[i] = IF i = 0 THEN rd ELSE Turn(G[i - 1])
    BY <2>1
  <2>3. 0 \in 0..n /\ \A i \in 1..n : i \in 0..n /\ i # 0
    BY <1>1
  <2> QED BY <2>2, <2>3
<1>8. \A i \in 0..n : G[i] \in D
  <2> DEFINE S == {i \in Nat : i <= n => G[i] \in D}
  <2> HIDE DEF n
  <2>1. 0 \in S
    BY <1>7
  <2>2. ASSUME NEW i \in Nat, i \in S
        PROVE  i + 1 \in S
    <3>1. i + 1 <= n => i <= n /\ i + 1 \in 1..n /\ (i + 1) - 1 = i
      BY <1>1
    <3> QED BY <1>7, <2>2, <3>1 DEF Closed
  <2>3. \A i \in Nat : i \in S
    <3> HIDE DEF S
    <3> QED BY <2>1, <2>2, NatInduct
  <2> QED BY <1>1, <2>3
<1>9. G \in [0..n -> D]
  <2>1. G = [i \in 0..n |-> G[i]]
    BY <1>5
  <2> QED BY <1>8, <2>1
<1> QED BY <1>6, <1>7, <1>9

(* What every turn keeps, the loop keeps.                                  *)
LEMMA LoopStays ==
  ASSUME NEW B, NEW D, D \subseteq Readers(B), Closed(D), NEW rd \in D
  PROVE  Loop(rd) \in D
<1>1. PICK run \in [0..(Len(rd.pending) + 1) -> D] : Loop(rd) = run[Len(rd.pending) + 1]
  BY LoopRuns
<1>2. Len(rd.pending) + 1 \in 0..(Len(rd.pending) + 1)
  BY ReaderFields
<1> QED BY <1>1, <1>2

(* If each turn stands still or takes a byte, the loop ends in a reader    *)
(* that stands still.                                                      *)
LEMMA LoopEnds ==
  ASSUME NEW B, NEW D, D \subseteq Readers(B), Closed(D), Ends(D), NEW rd \in D
  PROVE  Turn(Loop(rd)) = Loop(rd)
<1> DEFINE m == Len(rd.pending)
           n == m + 1
<1>1. m \in Nat /\ n \in Nat
  BY ReaderFields
<1>2. PICK run \in [0..n -> D] :
        run[0] = rd /\ (\A i \in 1..n : run[i] = Turn(run[i - 1])) /\ Loop(rd) = run[n]
  BY LoopRuns
<1> DEFINE Still(x) == Turn(x) = x
           Good(x, i) == Still(x) \/ Len(x.pending) <= m - i
           S == {i \in Nat : i <= n => Good(run[i], i)}
<1> HIDE DEF n
<1>3. 0 \in S
  <2>1. Len(run[0].pending) <= m - 0
    BY <1>1, <1>2
  <2> QED BY <2>1
<1>4. ASSUME NEW i \in Nat, i \in S
      PROVE  i + 1 \in S
  <2>1. SUFFICES ASSUME i + 1 <= n
                 PROVE  Good(run[i + 1], i + 1)
    OBVIOUS
  <2> DEFINE x == run[i]
             y == run[i + 1]
  <2>2. x \in D /\ y \in D /\ y = Turn(x)
    <3>1. i \in 0..n /\ i + 1 \in 1..n /\ i + 1 \in 0..n /\ (i + 1) - 1 = i
      BY <1>1, <2>1
    <3> QED BY <1>2, <3>1
  <2>3. Good(x, i)
    BY <1>1, <1>4, <2>1
  <2> HIDE DEF x, y
  <2>4. Len(x.pending) \in Nat /\ Len(y.pending) \in Nat /\ y.bad \in BOOLEAN
    BY <2>2, ReaderFields
  <2>5. Good(y, i + 1)
    <3>1. CASE Turn(x) = x
      BY <2>2, <3>1
    <3>2. CASE y.bad
      BY <2>2, <3>2, TurnCases
    <3>3. CASE Turn(x) # x /\ Len(y.pending) < Len(x.pending)
      <4>1. Len(x.pending) <= m - i
        BY <2>3, <3>3
      <4> HIDE DEF m
      <4>2. Len(y.pending) <= m - (i + 1)
        BY <1>1, <2>4, <3>3, <4>1
      <4> QED BY <4>2
    <3> QED BY <2>2, <3>1, <3>2, <3>3 DEF Ends
  <2> QED BY <2>5 DEF y
<1>5. \A i \in Nat : i \in S
  <2> HIDE DEF S
  <2> QED BY <1>3, <1>4, NatInduct
<1>6. Good(run[n], n) /\ run[n] \in D
  <2>1. n \in 0..n
    BY <1>1
  <2>2. n <= n
    BY <1>1
  <2> QED BY <1>1, <1>2, <1>5, <2>1, <2>2
<1>7. ~(Len(run[n].pending) <= m - n)
  <2>1. Len(run[n].pending) \in Nat
    BY <1>6, ReaderFields
  <2> HIDE DEF m
  <2> QED BY <1>1, <2>1 DEF n
<1> QED BY <1>2, <1>6, <1>7

(* push() and a new reader: every frame ends at its first blank line.      *)
LEMMA PushType ==
  ASSUME NEW B, NEW rd \in FramedReaders(B), NEW bytes \in Seq(B)
  PROVE  Push(rd, bytes) \in FramedReaders(B)
<1>1. rd \in Readers(B) /\ FramesEnd(rd)
  BY DEF FramedReaders, Framed
<1>2. CASE rd.state = "identity"
  <2>1. Push(rd, bytes) = Emit(rd, bytes)
    BY <1>2 DEF Push
  <2> QED BY <1>1, <2>1, EmitFacts DEF FramedReaders
<1>3. CASE rd.state # "identity"
  <2> DEFINE more == rd.pending \o bytes
             x == [rd EXCEPT !.pending = more]
  <2>1. more \in Seq(B)
    BY <1>1, ReaderFields, ConcatProperties
  <2>2. Push(rd, bytes) = Loop(x)
    BY <1>3 DEF Push
  <2> HIDE DEF more
  <2>3. x \in Readers(B) /\ SameText(rd, x)
    BY <1>1, <2>1 DEF Readers, SameText
  <2> HIDE DEF x
  <2>4. x \in FramedReaders(B)
    BY <2>3, SameFraming DEF FramedReaders
  <2>5. FramedReaders(B) \subseteq Readers(B)
    BY DEF FramedReaders
  <2> QED BY <2>2, <2>4, <2>5, LoopStays, FramedReadersClosed
<1> QED BY <1>2, <1>3

LEMMA NewReaderType ==
  ASSUME NEW B, NEW chunked \in BOOLEAN
  PROVE  NewReader(chunked) \in FramedReaders(B)
<1>1. NewReader(chunked) \in Readers(B)
  BY DEF NewReader, Readers
<1>2. NewReader(chunked).frames = <<>> /\ NewReader(chunked).carry = <<>>
  BY DEF NewReader
<1>3. Pairs(<<>>, "n", "n") = {}
  BY DEF Pairs
<1> QED BY <1>1, <1>2, <1>3 DEF FramedReaders, Framed, FramesEnd, IndexOf, Least

-----------------------------------------------------------------------------
(* The bytes a server writes.                                              *)

LEMMA Literals ==
  /\ CRLF \in Seq(Byte) /\ Len(CRLF) = 2 /\ CRLF[1] = "r" /\ CRLF[2] = "n"
  /\ <<"x", "x">> \in Seq(Byte) /\ Len(<<"x", "x">>) = 2
BY SizeLineAssumption DEF CRLF

LEMMA SizeLineFacts ==
  ASSUME NEW k \in DOMAIN SizeLine
  PROVE  /\ SizeLine[k] \in Seq(Byte) /\ Len(SizeLine[k]) \in Nat
         /\ Len(SizeLine[k]) >= 1 /\ Len(SizeLine[k]) + 1 <= SizeLineLimit
         /\ \A i \in 1..Len(SizeLine[k]) : SizeLine[k][i] # "r"
<1>1. SizeLine[k] \in Seq(Byte \ {"r"}) /\ Len(SizeLine[k]) \in 1..(SizeLineLimit - 1)
  BY SizeLineAssumption
<1>2. SizeLine[k] \in Seq(Byte)
  BY <1>1, SeqMonotonic
<1>3. \A i \in 1..Len(SizeLine[k]) : SizeLine[k][i] \in Byte \ {"r"}
  BY <1>1, ElementOfSeq
<1> QED BY <1>1, <1>2, <1>3, SizeLineAssumption

Chunked(resp) == resp \in Responses /\ resp.framing = "chunked"

EncodedWrite(resp, k) == Encoded(resp.writes[k], Crlf(resp, k))

LEMMA WriteFacts ==
  ASSUME NEW resp, Chunked(resp), NEW k \in 1..Len(resp.writes)
  PROVE  /\ resp.writes[k] \in Seq(Byte) /\ Len(resp.writes[k]) \in Nat \ {0}
         /\ Len(resp.writes[k]) \in DOMAIN SizeLine
         /\ Crlf(resp, k) \in Seq(Byte) /\ Len(Crlf(resp, k)) = 2
BY ResponseAssumption, SizeLineAssumption, Literals DEF Chunked, Crlf

IsJoin(str, s, t) ==
  /\ Len(str) = Len(s) + Len(t)
  /\ \A i \in 1..Len(s) : str[i] = s[i]
  /\ \A i \in 1..Len(t) : str[Len(s) + i] = t[i]

(* The bytes of two sequences joined.                                      *)
LEMMA Joined ==
  ASSUME NEW B, NEW s \in Seq(B), NEW t \in Seq(B)
  PROVE  s \o t \in Seq(B) /\ IsJoin(s \o t, s, t)
<1> USE DEF IsJoin
<1> DEFINE str == s \o t
<1>1. /\ str \in Seq(B) /\ Len(str) = Len(s) + Len(t)
      /\ \A i \in 1..(Len(s) + Len(t)) : str[i] = IF i <= Len(s) THEN s[i] ELSE t[i - Len(s)]
  BY ConcatProperties
<1>2. Len(s) \in Nat /\ Len(t) \in Nat
  OBVIOUS
<1> HIDE DEF str
<1>3. \A i \in 1..Len(s) : str[i] = s[i]
  BY <1>1, <1>2
<1>4. ASSUME NEW i \in 1..Len(t) PROVE str[Len(s) + i] = t[i]
  <2> DEFINE j == Len(s) + i
  <2>1. j \in 1..(Len(s) + Len(t)) /\ ~(j <= Len(s)) /\ j - Len(s) = i
    BY <1>2
  <2> HIDE DEF j
  <2> QED BY <1>1, <2>1 DEF j
<1> QED BY <1>1, <1>3, <1>4 DEF str

(* One chunk, byte by byte.                                                *)
IsChunk(e, line, w, c) ==
  /\ Len(e) = Len(line) + 2 + Len(w) + 2
  /\ \A i \in 1..Len(line) : e[i] = line[i]
  /\ e[Len(line) + 1] = "r" /\ e[Len(line) + 2] = "n"
  /\ \A i \in 1..Len(w) : e[Len(line) + 2 + i] = w[i]
  /\ \A i \in 1..2 : e[Len(line) + 2 + Len(w) + i] = c[i]

LEMMA EncodedFacts ==
  ASSUME NEW resp, Chunked(resp), NEW k \in 1..Len(resp.writes)
  PROVE  LET w == resp.writes[k] IN
         /\ EncodedWrite(resp, k) \in Seq(Byte)
         /\ IsChunk(EncodedWrite(resp, k), SizeLine[Len(w)], w, Crlf(resp, k))
<1> DEFINE w == resp.writes[k]
           line == SizeLine[Len(w)]
           c == Crlf(resp, k)
           lc == line \o CRLF
           lw == lc \o w
           e == lw \o c
<1>1. /\ w \in Seq(Byte) /\ Len(w) \in Nat /\ c \in Seq(Byte) /\ Len(c) = 2
      /\ line \in Seq(Byte) /\ Len(line) \in Nat
  BY WriteFacts, SizeLineFacts
<1>2. e = EncodedWrite(resp, k)
  BY DEF EncodedWrite, Encoded
<1> HIDE DEF line, w, c
<1>j. /\ lc \in Seq(Byte) /\ IsJoin(lc, line, CRLF)
      /\ lw \in Seq(Byte) /\ IsJoin(lw, lc, w)
      /\ e \in Seq(Byte) /\ IsJoin(e, lw, c)
  <2>1. lc \in Seq(Byte) /\ IsJoin(lc, line, CRLF)
    BY <1>1, Literals, Joined
  <2> HIDE DEF lc
  <2>2. lw \in Seq(Byte) /\ IsJoin(lw, lc, w)
    BY <1>1, <2>1, Joined
  <2> HIDE DEF lw
  <2>3. e \in Seq(Byte) /\ IsJoin(e, lw, c)
    BY <1>1, <2>2, Joined
  <2> QED BY <2>1, <2>2, <2>3
<1> HIDE DEF lc, lw, e
<1>3. /\ Len(lc) = Len(line) + 2
      /\ \A i \in 1..Len(line) : lc[i] = line[i]
      /\ \A i \in 1..2 : lc[Len(line) + i] = CRLF[i]
  BY <1>j, Literals DEF IsJoin
<1>4. /\ Len(lw) = Len(lc) + Len(w)
      /\ \A i \in 1..Len(lc) : lw[i] = lc[i]
      /\ \A i \in 1..Len(w) : lw[Len(lc) + i] = w[i]
  BY <1>j DEF IsJoin
<1>5. /\ e \in Seq(Byte) /\ Len(e) = Len(lw) + Len(c)
      /\ \A i \in 1..Len(lw) : e[i] = lw[i]
      /\ \A i \in 1..Len(c) : e[Len(lw) + i] = c[i]
  BY <1>j DEF IsJoin
<1>6. Len(e) = Len(line) + 2 + Len(w) + 2
  BY <1>1, <1>3, <1>4, <1>5
<1>7. \A i \in 1..(Len(line) + 2) : e[i] = lc[i]
  BY <1>1, <1>3, <1>4, <1>5
<1>8. \A i \in 1..Len(line) : e[i] = line[i]
  BY <1>1, <1>3, <1>7
<1>9. e[Len(line) + 1] = "r" /\ e[Len(line) + 2] = "n"
  <2>1. Len(line) + 1 \in 1..(Len(line) + 2) /\ Len(line) + 2 \in 1..(Len(line) + 2)
    BY <1>1
  <2>2. lc[Len(line) + 1] = "r" /\ lc[Len(line) + 2] = "n"
    BY <1>3, Literals
  <2> QED BY <1>7, <2>1, <2>2
<1>10. ASSUME NEW i \in 1..Len(w) PROVE e[Len(line) + 2 + i] = w[i]
  <2>1. Len(lc) + i \in 1..Len(lw) /\ Len(lc) = Len(line) + 2
    BY <1>1, <1>3, <1>4
  <2> QED BY <1>4, <1>5, <2>1
<1>11. ASSUME NEW i \in 1..2 PROVE e[Len(line) + 2 + Len(w) + i] = c[i]
  <2>1. Len(lw) = Len(line) + 2 + Len(w)
    BY <1>1, <1>3, <1>4
  <2> QED BY <1>1, <1>5, <2>1
<1>12. IsChunk(e, line, w, c)
  BY <1>6, <1>8, <1>9, <1>10, <1>11 DEF IsChunk
<1> QED BY <1>2, <1>5, <1>12 DEF w, line, c

Off(resp, k) == Len(resp.head) + Len(Chunks(resp, k))

EncodedWrites(resp, n) == [k \in 1..n |-> EncodedWrite(resp, k)]

LEMMA EncodedWritesType ==
  ASSUME NEW resp, Chunked(resp), NEW n \in 0..Len(resp.writes)
  PROVE  /\ EncodedWrites(resp, n) \in Seq(Seq(Byte))
         /\ Chunks(resp, n) = FlattenSeq(EncodedWrites(resp, n))
         /\ Chunks(resp, n) \in Seq(Byte) /\ Len(Chunks(resp, n)) \in Nat
<1>1. Len(resp.writes) \in Nat
  BY ResponseAssumption DEF Chunked
<1>2. \A k \in 1..n : EncodedWrite(resp, k) \in Seq(Byte)
  <2> TAKE k \in 1..n
  <2>1. k \in 1..Len(resp.writes)
    BY <1>1
  <2> QED BY <2>1, EncodedFacts
<1>3. EncodedWrites(resp, n) \in Seq(Seq(Byte))
  BY <1>1, <1>2 DEF EncodedWrites
<1>4. Chunks(resp, n) = FlattenSeq(EncodedWrites(resp, n))
  BY DEF Chunks, EncodedWrites, EncodedWrite
<1> QED BY <1>3, <1>4, FlattenType, LenProperties

(* The chunks of the first n + 1 writes, and those of the first k of n.    *)
LEMMA ChunksStep ==
  ASSUME NEW resp, Chunked(resp), NEW n \in Nat, n + 1 <= Len(resp.writes)
  PROVE  /\ Chunks(resp, n + 1) = Chunks(resp, n) \o EncodedWrite(resp, n + 1)
         /\ IsJoin(Chunks(resp, n + 1), Chunks(resp, n), EncodedWrite(resp, n + 1))
<1> DEFINE m == n + 1
           s == EncodedWrites(resp, n)
           t == EncodedWrites(resp, m)
           e == EncodedWrite(resp, m)
<1>1. Len(resp.writes) \in Nat
  BY ResponseAssumption DEF Chunked
<1>2. n \in 0..Len(resp.writes) /\ m \in 0..Len(resp.writes) /\ m \in 1..Len(resp.writes)
  BY <1>1
<1>3. /\ s \in Seq(Seq(Byte)) /\ t \in Seq(Seq(Byte)) /\ e \in Seq(Byte)
      /\ Chunks(resp, n) = FlattenSeq(s) /\ Chunks(resp, m) = FlattenSeq(t)
      /\ Chunks(resp, n) \in Seq(Byte)
  <2> HIDE DEF m
  <2> QED BY <1>2, EncodedWritesType, EncodedFacts
<1>4. t = Append(s, e)
  <2>1. Len(s) = n /\ Len(t) = n + 1 /\ (\A k \in 1..n : s[k] = EncodedWrite(resp, k))
        /\ \A k \in 1..(n + 1) : t[k] = EncodedWrite(resp, k)
    BY DEF EncodedWrites
  <2> HIDE DEF s, t, e
  <2>2. /\ Append(s, e) \in Seq(Seq(Byte)) /\ Len(Append(s, e)) = Len(s) + 1
        /\ \A k \in 1..Len(s) : Append(s, e)[k] = s[k]
        /\ Append(s, e)[Len(s) + 1] = e
    BY <1>3, AppendProperties
  <2>3. \A k \in 1..Len(t) : t[k] = Append(s, e)[k]
    <3> TAKE k \in 1..Len(t)
    <3>1. k \in 1..n \/ k = n + 1
      BY <2>1
    <3>2. CASE k \in 1..n
      BY <2>1, <2>2, <3>2
    <3>3. CASE k = n + 1
      BY <2>1, <2>2, <3>3 DEF e
    <3> QED BY <3>1, <3>2, <3>3
  <2> QED BY <1>3, <2>1, <2>2, <2>3, SeqEqual
<1> HIDE DEF s, t, e, m
<1>5. Chunks(resp, m) = Chunks(resp, n) \o e
  BY <1>3, <1>4, FlattenAppend
<1>6. IsJoin(Chunks(resp, m), Chunks(resp, n), e)
  BY <1>3, <1>5, Joined
<1> QED BY <1>5, <1>6 DEF m, e

Starts(s, t) == Len(s) <= Len(t) /\ \A i \in 1..Len(s) : t[i] = s[i]

LEMMA ChunksStart ==
  ASSUME NEW resp, Chunked(resp), NEW k \in 0..Len(resp.writes), NEW n \in k..Len(resp.writes)
  PROVE  Starts(Chunks(resp, k), Chunks(resp, n))
<1> DEFINE N == Len(resp.writes)
           S == {i \in Nat : k + i <= N => Starts(Chunks(resp, k), Chunks(resp, k + i))}
<1>1. N \in Nat /\ k \in Nat
  BY ResponseAssumption DEF Chunked
<1>2. \A i \in 0..N : Len(Chunks(resp, i)) \in Nat
  BY EncodedWritesType
<1> HIDE DEF N
<1>3. 0 \in S
  <2>1. k \in 0..N /\ k + 0 = k
    BY <1>1 DEF N
  <2>2. Starts(Chunks(resp, k), Chunks(resp, k))
    BY <1>2, <2>1 DEF Starts
  <2> QED BY <2>1, <2>2
<1>4. ASSUME NEW i \in Nat, i \in S
      PROVE  i + 1 \in S
  <2>1. SUFFICES ASSUME k + (i + 1) <= N
                 PROVE  Starts(Chunks(resp, k), Chunks(resp, k + (i + 1)))
    OBVIOUS
  <2> DEFINE j == k + i
             a == Chunks(resp, k)
             b == Chunks(resp, j)
             c == Chunks(resp, j + 1)
             e == EncodedWrite(resp, j + 1)
  <2>2. j \in Nat /\ j + 1 <= N /\ k + (i + 1) = j + 1 /\ j \in 0..N /\ k \in 0..N /\ j + 1 \in 1..N
    BY <1>1, <2>1
  <2>3. Starts(a, b)
    BY <1>1, <1>4, <2>2
  <2> HIDE DEF j
  <2>4. IsJoin(c, b, e) /\ Len(e) \in Nat
    <3>1. j + 1 <= Len(resp.writes) /\ j + 1 \in 1..Len(resp.writes)
      BY <2>2 DEF N
    <3>2. e \in Seq(Byte)
      <4> DEFINE m == j + 1
      <4> HIDE DEF m
      <4>1. EncodedWrite(resp, m) \in Seq(Byte)
        BY <3>1, EncodedFacts DEF m
      <4> QED BY <4>1 DEF m
    <3> QED BY <2>2, <3>1, <3>2, ChunksStep
  <2>5. Len(a) \in Nat /\ Len(b) \in Nat
    BY <1>2, <2>2
  <2> HIDE DEF a, b, c, e
  <2>6. Starts(a, c)
    <3>1. Len(a) <= Len(b) /\ Len(c) = Len(b) + Len(e)
      BY <2>3, <2>4 DEF Starts, IsJoin
    <3>2. ASSUME NEW x \in 1..Len(a) PROVE c[x] = a[x]
      <4>1. x \in 1..Len(b)
        BY <2>5, <3>1
      <4> QED BY <2>3, <2>4, <4>1 DEF Starts, IsJoin
    <3>3. Len(a) <= Len(c)
      BY <2>4, <2>5, <3>1
    <3> QED BY <3>2, <3>3 DEF Starts
  <2> QED BY <2>2, <2>6 DEF a, c
<1>5. \A i \in Nat : i \in S
  <2> HIDE DEF S
  <2> QED BY <1>3, <1>4, NatInduct
<1>6. n - k \in Nat /\ k + (n - k) = n /\ k + (n - k) <= N
  BY <1>1 DEF N
<1> QED BY <1>5, <1>6

LEMMA RespTypes ==
  ASSUME NEW resp, Chunked(resp)
  PROVE  /\ resp.head \in Seq(Byte) /\ Len(resp.head) \in Nat
         /\ resp.tail \in Seq(Byte) /\ Len(resp.tail) \in Nat
         /\ resp.writes \in Seq(Seq(Byte)) /\ Len(resp.writes) \in Nat
         /\ \A k \in 0..Len(resp.writes) : Len(Chunks(resp, k)) \in Nat /\ Off(resp, k) \in Nat
<1>1. /\ resp.head \in Seq(Byte) /\ resp.tail \in Seq(Byte)
      /\ resp.writes \in Seq(Seq(Byte))
  BY ResponseAssumption DEF Chunked
<1>2. /\ Len(resp.head) \in Nat /\ Len(resp.tail) \in Nat /\ Len(resp.writes) \in Nat
  BY <1>1, LenProperties
<1> QED BY <1>1, <1>2, EncodedWritesType DEF Off

(* The wire: its head, its chunks and its tail, by place.                  *)
LEMMA WireParts ==
  ASSUME NEW resp, Chunked(resp)
  PROVE  LET w == Wire(resp)
             N == Len(resp.writes)
         IN /\ w \in Seq(Byte) /\ Len(w) = Off(resp, N) + Len(resp.tail)
            /\ \A i \in 1..Len(resp.head) : w[i] = resp.head[i]
            /\ \A i \in 1..Len(Chunks(resp, N)) : w[Len(resp.head) + i] = Chunks(resp, N)[i]
            /\ \A i \in 1..Len(resp.tail) : w[Off(resp, N) + i] = resp.tail[i]
<1> DEFINE w == Wire(resp)
           N == Len(resp.writes)
           h == resp.head
           c == Chunks(resp, N)
           t == resp.tail
           hc == h \o c
<1>1. N \in 0..Len(resp.writes)
  BY RespTypes
<1>2. /\ h \in Seq(Byte) /\ c \in Seq(Byte) /\ t \in Seq(Byte)
      /\ Len(h) \in Nat /\ Len(c) \in Nat /\ Len(t) \in Nat
  BY <1>1, RespTypes, EncodedWritesType
<1>3. w = hc \o t
  BY DEF Wire, Chunked
<1>4. Off(resp, N) = Len(h) + Len(c)
  BY DEF Off
<1> HIDE DEF w, h, c, t
<1>5. hc \in Seq(Byte) /\ IsJoin(hc, h, c)
  BY <1>2, Joined
<1> HIDE DEF hc
<1>6. w \in Seq(Byte) /\ IsJoin(w, hc, t)
  BY <1>2, <1>3, <1>5, Joined
<1>7. Len(hc) = Len(h) + Len(c) /\ Len(w) = Off(resp, N) + Len(t)
  BY <1>4, <1>5, <1>6 DEF IsJoin
<1>8. \A i \in 1..Len(h) : w[i] = h[i]
  <2>1. \A i \in 1..Len(h) : i \in 1..Len(hc)
    BY <1>2, <1>7
  <2> QED BY <1>5, <1>6, <2>1 DEF IsJoin
<1>9. \A i \in 1..Len(c) : w[Len(h) + i] = c[i]
  <2>1. \A i \in 1..Len(c) : Len(h) + i \in 1..Len(hc)
    BY <1>2, <1>7
  <2> QED BY <1>5, <1>6, <2>1 DEF IsJoin
<1>10. \A i \in 1..Len(t) : w[Off(resp, N) + i] = t[i]
  BY <1>4, <1>6, <1>7 DEF IsJoin
<1> QED BY <1>6, <1>7, <1>8, <1>9, <1>10 DEF w, h, c, t

LEMMA WireChunk ==
  ASSUME NEW resp, Chunked(resp), NEW k \in Nat, k < Len(resp.writes)
  PROVE  LET e == EncodedWrite(resp, k + 1)
         IN /\ Off(resp, k + 1) = Off(resp, k) + Len(e)
            /\ Off(resp, k + 1) <= Off(resp, Len(resp.writes))
            /\ \A i \in 1..Len(e) : Wire(resp)[Off(resp, k) + i] = e[i]
<1> DEFINE w == Wire(resp)
           N == Len(resp.writes)
           m == k + 1
           h == resp.head
           e == EncodedWrite(resp, m)
           a == Chunks(resp, k)
           b == Chunks(resp, m)
           c == Chunks(resp, N)
<1>1. /\ k \in 0..N /\ m \in 0..N /\ m \in 1..N /\ N \in m..N /\ k + 1 <= N
  BY RespTypes
<1>2. /\ IsJoin(b, a, e) /\ Starts(b, c) /\ e \in Seq(Byte)
  <2>1. IsJoin(b, a, e)
    BY <1>1, ChunksStep
  <2> HIDE DEF m
  <2>2. Starts(b, c) /\ e \in Seq(Byte)
    BY <1>1, ChunksStart, EncodedFacts
  <2> QED BY <2>1, <2>2
<1>3. /\ Len(a) \in Nat /\ Len(b) \in Nat /\ Len(c) \in Nat /\ Len(h) \in Nat /\ Len(e) \in Nat
      /\ Off(resp, k) = Len(h) + Len(a) /\ Off(resp, m) = Len(h) + Len(b)
      /\ Off(resp, N) = Len(h) + Len(c)
  <2> HIDE DEF m
  <2>1. N \in 0..N
    BY <1>1
  <2> QED BY <1>1, <1>2, <2>1, RespTypes DEF Off
<1>4. \A i \in 1..Len(c) : w[Len(h) + i] = c[i]
  BY WireParts
<1> HIDE DEF a, b, c, e, h, w, N
<1>5. Len(b) = Len(a) + Len(e) /\ Len(b) <= Len(c)
  BY <1>2 DEF IsJoin, Starts
<1>6. ASSUME NEW i \in 1..Len(e) PROVE w[Off(resp, k) + i] = e[i]
  <2> DEFINE j == Len(a) + i
  <2>1. j \in 1..Len(b) /\ j \in 1..Len(c) /\ Off(resp, k) + i = Len(h) + j
    BY <1>3, <1>5
  <2>2. b[j] = e[i]
    BY <1>2 DEF IsJoin
  <2> HIDE DEF j
  <2>3. c[j] = b[j] /\ w[Len(h) + j] = c[j]
    BY <1>2, <1>4, <2>1 DEF Starts
  <2> QED BY <2>1, <2>2, <2>3
<1> QED BY <1>3, <1>5, <1>6 DEF e, w, N

(* Where the data of write k + 1 begins.                                   *)
DataAt(resp, k) == Off(resp, k) + Len(SizeLine[Len(resp.writes[k + 1])]) + 2

(* A size line at some place of the wire.                                  *)
LineAt(w, c, key) ==
  /\ c + Len(SizeLine[key]) + 2 <= Len(w)
  /\ \A i \in 1..Len(SizeLine[key]) : w[c + i] = SizeLine[key][i]
  /\ w[c + Len(SizeLine[key]) + 1] = "r" /\ w[c + Len(SizeLine[key]) + 2] = "n"

(* Where a chunk starts its size is written, then its data and a CRLF.     *)
HoldsChunk(resp, k) ==
  LET w == Wire(resp)
      d == DataAt(resp, k)
      data == resp.writes[k + 1]
  IN /\ Len(data) \in DOMAIN SizeLine /\ Len(data) \in Nat \ {0}
     /\ data \in Seq(Byte)
     /\ LineAt(w, Off(resp, k), Len(data))
     /\ d \in Nat /\ Off(resp, k) \in Nat /\ Off(resp, k + 1) \in Nat
     /\ Off(resp, k) <= d
     /\ Off(resp, k + 1) = d + Len(data) + 2
     /\ Off(resp, k + 1) <= Off(resp, Len(resp.writes))
     /\ Off(resp, k + 1) <= Len(w)
     /\ \A i \in 1..Len(data) : w[d + i] = data[i]
     /\ \A i \in 1..2 : w[d + Len(data) + i] = Crlf(resp, k + 1)[i]

(* The wire holds every chunk that was written.                            *)
LEMMA ChunkAt ==
  ASSUME NEW resp, Chunked(resp), NEW k \in Nat, k < Len(resp.writes)
  PROVE  HoldsChunk(resp, k)
<1> DEFINE w == Wire(resp)
           N == Len(resp.writes)
           m == k + 1
           data == resp.writes[m]
           line == SizeLine[Len(data)]
           e == EncodedWrite(resp, m)
           o == Off(resp, k)
           p == Off(resp, m)
           d == DataAt(resp, k)
           c == Crlf(resp, m)
<1>1. k \in 0..N /\ m \in 0..N /\ m \in 1..N /\ N \in 0..N
  BY RespTypes
<1>2. o \in Nat /\ p \in Nat /\ Off(resp, N) \in Nat /\ Len(resp.tail) \in Nat
  <2> HIDE DEF m
  <2> QED BY <1>1, RespTypes
<1>3. /\ data \in Seq(Byte) /\ Len(data) \in Nat \ {0} /\ Len(data) \in DOMAIN SizeLine
      /\ Len(line) \in Nat
  <2> HIDE DEF m
  <2> QED BY <1>1, WriteFacts, SizeLineFacts
<1>4. /\ Len(e) = Len(line) + 2 + Len(data) + 2
      /\ \A i \in 1..Len(line) : e[i] = line[i]
      /\ e[Len(line) + 1] = "r" /\ e[Len(line) + 2] = "n"
      /\ \A i \in 1..Len(data) : e[Len(line) + 2 + i] = data[i]
      /\ \A i \in 1..2 : e[Len(line) + 2 + Len(data) + i] = c[i]
  <2>1. IsChunk(e, line, data, c)
    <3> HIDE DEF m
    <3> QED BY <1>1, EncodedFacts
  <2> QED BY <2>1 DEF IsChunk
<1>5. /\ p = o + Len(e) /\ p <= Off(resp, N)
      /\ \A i \in 1..Len(e) : w[o + i] = e[i]
  BY WireChunk
<1>6. Len(w) = Off(resp, N) + Len(resp.tail)
  BY WireParts
<1>7. d = o + Len(line) + 2
  BY DEF DataAt
<1> HIDE DEF w, N, m, line, e, o, p, d, c
<1> DEFINE l == Len(line)
           n == Len(data)
           z == Len(e)
<1>8. l \in Nat /\ n \in Nat /\ z = l + 2 + n + 2
  BY <1>3, <1>4
<1>e. /\ \A i \in 1..l : e[i] = line[i]
      /\ e[l + 1] = "r" /\ e[l + 2] = "n"
      /\ \A i \in 1..n : e[l + 2 + i] = data[i]
      /\ \A i \in 1..2 : e[l + 2 + n + i] = c[i]
      /\ \A i \in 1..z : w[o + i] = e[i]
      /\ p = o + z /\ d = o + l + 2
  BY <1>4, <1>5, <1>7
<1> HIDE DEF l, n, z
<1>9. \A i \in 1..l : w[o + i] = line[i]
  <2>1. \A i \in 1..l : i \in 1..z
    BY <1>8
  <2> QED BY <1>e, <2>1
<1>10. w[o + (l + 1)] = "r" /\ w[o + (l + 2)] = "n"
  <2>1. l + 1 \in 1..z /\ l + 2 \in 1..z
    BY <1>8
  <2> QED BY <1>e, <2>1
<1>11. \A i \in 1..n : w[o + (l + 2 + i)] = data[i]
  <2>1. \A i \in 1..n : l + 2 + i \in 1..z
    BY <1>8
  <2> QED BY <1>e, <2>1
<1>12. \A i \in 1..2 : w[o + (l + 2 + n + i)] = c[i]
  <2>1. \A i \in 1..2 : l + 2 + n + i \in 1..z
    BY <1>8
  <2> QED BY <1>e, <2>1
<1>13. /\ o + (l + 1) = o + l + 1 /\ o + (l + 2) = o + l + 2
       /\ \A i \in 1..n : o + (l + 2 + i) = d + i
       /\ \A i \in 1..2 : o + (l + 2 + n + i) = d + n + i
  BY <1>2, <1>8, <1>e
<1>14. d \in Nat /\ o <= d /\ p = d + n + 2 /\ p <= Len(w) /\ o + l + 2 <= Len(w)
  <2> DEFINE f == Off(resp, N)
             t == Len(resp.tail)
             x == Len(w)
  <2>1. /\ o \in Nat /\ p \in Nat /\ f \in Nat /\ t \in Nat
        /\ p <= f /\ x = f + t /\ p = o + z /\ d = o + l + 2
    BY <1>2, <1>5, <1>6, <1>e
  <2> HIDE DEF f, t, x
  <2>2. p <= x /\ o + l + 2 <= p
    BY <1>8, <2>1
  <2>3. d \in Nat /\ o <= d /\ p = d + n + 2 /\ o + l + 2 <= x
    BY <1>8, <2>1, <2>2
  <2> QED BY <2>2, <2>3 DEF x
<1>15. LineAt(w, o, n)
  <2>1. line = SizeLine[n] /\ Len(line) = l
    BY DEF line, n, l
  <2> QED BY <1>9, <1>10, <1>13, <1>14, <2>1 DEF LineAt
<1>16. /\ \A i \in 1..n : w[d + i] = data[i]
       /\ \A i \in 1..2 : w[d + n + i] = c[i]
  BY <1>11, <1>12, <1>13
<1> QED BY <1>2, <1>3, <1>5, <1>14, <1>15, <1>16 DEF HoldsChunk, w, N, m, o, p, d, c, n

(* The size line that a reader at its start finds.                         *)
LEMMA LineRead ==
  ASSUME NEW w \in Seq(Byte), NEW c \in Nat, NEW a \in Nat, c <= a, a <= Len(w),
         NEW key \in DOMAIN SizeLine, LineAt(w, c, key)
  PROVE  LET p == Piece(w, c, a)
             s == Len(SizeLine[key])
         IN /\ a < c + s + 2 => IndexOf(p, "r", "n") = 0 /\ ~(Len(p) > SizeLineLimit)
            /\ a >= c + s + 2 => /\ IndexOf(p, "r", "n") = s + 1
                                 /\ SizeOf(SubSeq(p, 1, s)) = {key}
<1> DEFINE p == Piece(w, c, a)
           line == SizeLine[key]
           s == Len(line)
<1>1. /\ p \in Seq(Byte) /\ Len(p) = a - c
      /\ \A i \in 1..(a - c) : p[i] = w[c + i]
  BY PieceFacts
<1>2. /\ line \in Seq(Byte) /\ s \in Nat /\ s >= 1 /\ s + 1 <= SizeLineLimit
      /\ \A i \in 1..s : line[i] # "r"
  BY SizeLineFacts
<1>3. /\ c + s + 2 <= Len(w)
      /\ \A i \in 1..s : w[c + i] = line[i]
      /\ w[c + s + 1] = "r" /\ w[c + s + 2] = "n"
  BY DEF LineAt
<1> HIDE DEF p, line, s
<1>4. ASSUME NEW i \in 1..s, i <= a - c
      PROVE  p[i] = line[i] /\ p[i] # "r"
  <2>1. i \in 1..(a - c)
    BY <1>2, <1>4
  <2> QED BY <1>1, <1>2, <1>3, <2>1
<1>5. CASE a < c + s + 2
  <2>1. SUFFICES ASSUME IndexOf(p, "r", "n") # 0 PROVE FALSE
    <3>1. ~(Len(p) > SizeLineLimit)
      <4>1. SizeLineLimit \in Nat
        BY SizeLineAssumption
      <4> QED BY <1>1, <1>2, <1>5, <4>1
    <3> QED BY <1>1, <1>5, <3>1, IndexFacts DEF p, s, line
  <2> DEFINE i == IndexOf(p, "r", "n")
  <2>2. i \in 1..(Len(p) - 1) /\ p[i] = "r"
    BY <1>1, <2>1, IndexFacts
  <2> HIDE DEF i
  <2>3. i \in 1..s /\ i <= a - c
    BY <1>1, <1>2, <1>5, <2>2
  <2> QED BY <1>4, <2>2, <2>3
<1>6. CASE a >= c + s + 2
  <2>1. /\ s + 1 \in 1..(Len(p) - 1) /\ s + 1 \in 1..(a - c) /\ s + 2 \in 1..(a - c)
        /\ (s + 1) + 1 = s + 2 /\ c + (s + 1) = c + s + 1 /\ c + (s + 2) = c + s + 2
    BY <1>1, <1>2, <1>6
  <2>2. p[s + 1] = "r" /\ p[(s + 1) + 1] = "n"
    BY <1>1, <1>3, <2>1
  <2>3. \A j \in 1..s : p[j] = line[j] /\ p[j] # "r"
    <3>1. \A j \in 1..s : j <= a - c
      BY <1>2, <1>6
    <3> QED BY <1>4, <3>1
  <2>4. IndexOf(p, "r", "n") = s + 1
    <3> DEFINE i == s + 1
    <3>1. NoneBefore(p, "r", "n", i)
      BY <1>2, <2>3 DEF NoneBefore
    <3>2. i \in 1..(Len(p) - 1) /\ p[i] = "r" /\ p[i + 1] = "n"
      BY <2>1, <2>2
    <3> HIDE DEF i
    <3>3. IndexOf(p, "r", "n") = i
      BY <1>1, <3>1, <3>2, IndexIs
    <3> QED BY <3>3 DEF i
  <2>5. SubSeq(p, 1, s) = line
    <3>1. s \in 0..Len(p)
      BY <1>1, <1>2, <1>6
    <3> DEFINE h == SubSeq(p, 1, s)
    <3>2. /\ h \in Seq(Byte) /\ Len(h) = s
          /\ \A j \in 1..s : h[j] = p[j]
      BY <1>1, <3>1, Halves
    <3> HIDE DEF h
    <3>3. \A j \in 1..Len(h) : h[j] = line[j]
      BY <2>3, <3>2
    <3>4. Len(line) = s
      BY DEF s
    <3>5. h = line
      BY <1>2, <3>2, <3>3, <3>4, SeqEqual
    <3> QED BY <3>5 DEF h
  <2>6. SizeOf(line) = {key}
    BY SizeLineAssumption DEF SizeOf, line
  <2>7. ~(a < c + s + 2)
    BY <1>2, <1>6
  <2> QED BY <2>4, <2>5, <2>6, <2>7 DEF p, s, line
<1>7. a < c + s + 2 \/ a >= c + s + 2
  BY <1>2
<1> QED BY <1>5, <1>6, <1>7 DEF p, s, line

-----------------------------------------------------------------------------
(* What follows the last chunk.                                            *)
LEMMA PrefixStarts ==
  ASSUME NEW B, NEW s \in Seq(B), NEW t \in Seq(B)
  PROVE  IsPrefix(s, t) <=> Starts(s, t)
<1> DEFINE n == Len(s)
<1>1. n \in Nat /\ n \in 0..Len(s) /\ Len(t) \in Nat
  OBVIOUS
<1>2. SubSeq(s, 1, n) = s
  OBVIOUS
<1>3. CASE n <= Len(t)
  <2> DEFINE str == SubSeq(t, 1, n)
  <2>1. n \in 0..Len(t)
    BY <1>1, <1>3
  <2>2. str \in Seq(B) /\ Len(str) = n /\ \A j \in 1..n : str[j] = t[j]
    <3> HIDE DEF n
    <3> QED BY <2>1, Halves
  <2> HIDE DEF str
  <2>3. s = str <=> \A j \in 1..n : str[j] = s[j]
    <3>1. (\A j \in 1..n : str[j] = s[j]) => s = str
      BY <1>1, <2>2, SeqEqual
    <3> QED BY <3>1
  <2>4. s = str <=> \A j \in 1..n : t[j] = s[j]
    BY <2>2, <2>3
  <2> QED BY <1>2, <1>3, <2>4 DEF IsPrefix, Starts, str
<1>4. CASE ~(n <= Len(t))
  BY <1>4 DEF IsPrefix, Starts
<1> QED BY <1>3, <1>4

LEMMA LineStarts ==
  ASSUME NEW t \in Seq(Byte), NEW key \in DOMAIN SizeLine
  PROVE  IsPrefix(SizeLine[key] \o CRLF, t) <=> LineAt(t, 0, key)
<1> DEFINE line == SizeLine[key]
           s == Len(line)
           lc == line \o CRLF
<1>1. line \in Seq(Byte) /\ s \in Nat
  BY SizeLineFacts
<1>2. lc \in Seq(Byte) /\ IsJoin(lc, line, CRLF)
  <2> HIDE DEF line
  <2> QED BY <1>1, Literals, Joined
<1>3. IsPrefix(lc, t) <=> Starts(lc, t)
  <2> HIDE DEF lc
  <2> QED BY <1>2, PrefixStarts
<1> HIDE DEF lc, s, line
<1>4. /\ Len(lc) = s + 2 /\ lc[s + 1] = "r" /\ lc[s + 2] = "n"
      /\ \A i \in 1..s : lc[i] = line[i]
  BY <1>1, <1>2, Literals DEF IsJoin, s
<1>5. Starts(lc, t) <=> /\ s + 2 <= Len(t)
                        /\ \A i \in 1..s : t[i] = line[i]
                        /\ t[s + 1] = "r" /\ t[s + 2] = "n"
  <2>1. 1..(s + 2) = (1..s) \cup {s + 1, s + 2}
    BY <1>1
  <2> QED BY <1>4, <2>1 DEF Starts
<1>6. LineAt(t, 0, key) <=> /\ s + 2 <= Len(t)
                            /\ \A i \in 1..s : t[i] = line[i]
                            /\ t[s + 1] = "r" /\ t[s + 2] = "n"
  <2>1. 0 + s + 2 = s + 2 /\ 0 + s + 1 = s + 1 /\ \A i \in 1..s : 0 + i = i
    BY <1>1
  <2> QED BY <2>1 DEF LineAt, s, line
<1> QED BY <1>3, <1>5, <1>6 DEF lc, line

(* The tail begins with the size of a last chunk, or with no size.         *)
LEMMA TailLine ==
  ASSUME NEW resp, Chunked(resp), NEW key \in DOMAIN SizeLine
  PROVE  LineAt(Wire(resp), Off(resp, Len(resp.writes)), key)
           <=> IsPrefix(SizeLine[key] \o CRLF, resp.tail)
<1> DEFINE w == Wire(resp)
           t == resp.tail
           o == Off(resp, Len(resp.writes))
           line == SizeLine[key]
           s == Len(line)
<1>1. /\ Len(w) = o + Len(t) /\ \A i \in 1..Len(t) : w[o + i] = t[i]
  BY WireParts
<1>2. o \in Nat /\ Len(t) \in Nat /\ t \in Seq(Byte)
  BY RespTypes
<1>3. s \in Nat
  BY SizeLineFacts
<1>4. LineAt(w, o, key) <=> /\ o + s + 2 <= Len(w)
                            /\ \A i \in 1..s : w[o + i] = line[i]
                            /\ w[o + s + 1] = "r" /\ w[o + s + 2] = "n"
  BY DEF LineAt
<1>5. LineAt(t, 0, key) <=> /\ 0 + s + 2 <= Len(t)
                            /\ \A i \in 1..s : t[0 + i] = line[i]
                            /\ t[0 + s + 1] = "r" /\ t[0 + s + 2] = "n"
  BY DEF LineAt
<1>6. LineAt(t, 0, key) <=> IsPrefix(SizeLine[key] \o CRLF, t)
  BY <1>2, LineStarts
<1> HIDE DEF w, t, o, line, s
<1>7. CASE s + 2 <= Len(t)
  <2>1. /\ o + s + 2 <= Len(w) /\ 0 + s + 2 <= Len(t)
        /\ 0 + s + 1 \in 1..Len(t) /\ 0 + s + 2 \in 1..Len(t)
        /\ o + (0 + s + 1) = o + s + 1 /\ o + (0 + s + 2) = o + s + 2
        /\ \A i \in 1..s : 0 + i = i /\ i \in 1..Len(t)
    <3> DEFINE n == Len(t)
               x == Len(w)
    <3>1. o \in Nat /\ n \in Nat /\ s \in Nat /\ x = o + n /\ s + 2 <= n
      BY <1>1, <1>2, <1>3, <1>7
    <3> HIDE DEF n, x
    <3>2. o + s + 2 <= x /\ 0 + s + 2 <= n /\ 0 + s + 1 \in 1..n /\ 0 + s + 2 \in 1..n
      BY <3>1
    <3>3. o + (0 + s + 1) = o + s + 1 /\ o + (0 + s + 2) = o + s + 2
      BY <3>1
    <3>4. \A i \in 1..s : 0 + i = i /\ i \in 1..n
      BY <3>1
    <3> QED BY <3>2, <3>3, <3>4 DEF n, x
  <2>2. w[o + s + 1] = t[0 + s + 1] /\ w[o + s + 2] = t[0 + s + 2]
    <3> DEFINE i == 0 + s + 1
               j == 0 + s + 2
    <3>1. i \in 1..Len(t) /\ j \in 1..Len(t) /\ o + i = o + s + 1 /\ o + j = o + s + 2
      BY <2>1
    <3> HIDE DEF i, j
    <3>2. w[o + i] = t[i] /\ w[o + j] = t[j]
      BY <1>1, <3>1
    <3>3. w[o + s + 1] = t[i] /\ w[o + s + 2] = t[j]
      BY <3>1, <3>2
    <3> QED BY <3>3 DEF i, j
  <2>3. \A i \in 1..s : w[o + i] = t[0 + i]
    BY <1>1, <2>1
  <2> QED BY <1>4, <1>5, <1>6, <2>1, <2>2, <2>3 DEF w, t, o, line
<1>8. CASE ~(s + 2 <= Len(t))
  <2>1. ~(o + s + 2 <= Len(w)) /\ ~(0 + s + 2 <= Len(t))
    BY <1>1, <1>2, <1>3, <1>8
  <2> QED BY <1>4, <1>5, <1>6, <2>1 DEF w, t, o, line
<1> QED BY <1>7, <1>8

LinesFrom(resp) == Off(resp, Len(resp.writes)) + Len(LastSize)
EndsWell(resp) == IsPrefix(LastSize, resp.tail) /\ ~resp.broken

(* Where a line can start, and the blank one, in what follows place z.     *)
LineStart(w, z, c) ==
  /\ z <= c /\ c + 2 <= Len(w)
  /\ c = z \/ (z + 2 <= c /\ w[c - 1] = "r" /\ w[c] = "n")
BlankAt(w, z, p) == LineStart(w, z, p) /\ w[p + 1] = "r" /\ w[p + 2] = "n"
OneBlank(w, z) == \A p \in 0..Len(w) : BlankAt(w, z, p) <=> p + 2 = Len(w)

LEMMA BreakAt ==
  ASSUME NEW L \in Seq(Byte), NEW i \in Nat
  PROVE  i \in {j \in 1..(Len(L) - 1) : SubSeq(L, j, j + 1) = CRLF}
           <=> i \in 1..(Len(L) - 1) /\ L[i] = "r" /\ L[i + 1] = "n"
<1> SUFFICES ASSUME i \in 1..(Len(L) - 1)
             PROVE  SubSeq(L, i, i + 1) = CRLF <=> L[i] = "r" /\ L[i + 1] = "n"
  OBVIOUS
<1> DEFINE j == i + 1
           str == SubSeq(L, i, j)
<1>1. \A x \in i..j : L[x] \in Byte
  OBVIOUS
<1>2. /\ str \in Seq(Byte)
      /\ Len(str) = IF i <= j THEN j - i + 1 ELSE 0
      /\ \A x \in 1..(j - i + 1) : str[x] = L[i + x - 1]
  <2> HIDE DEF j
  <2>1. i \in Nat /\ j \in Nat
    BY DEF j
  <2> QED BY <1>1, <2>1, SubSeqProperties
<1> HIDE DEF str
<1>3. Len(str) = 2 /\ str[1] = L[i] /\ str[2] = L[i + 1]
  <2>1. j - i + 1 = 2 /\ i <= j /\ 1 \in 1..2 /\ 2 \in 1..2 /\ i + 1 - 1 = i /\ i + 2 - 1 = i + 1
    OBVIOUS
  <2> HIDE DEF j
  <2> QED BY <1>2, <2>1
<1>4. str = CRLF <=> str[1] = "r" /\ str[2] = "n"
  <2>1. str = CRLF => str[1] = "r" /\ str[2] = "n"
    BY Literals
  <2>2. ASSUME str[1] = "r", str[2] = "n" PROVE str = CRLF
    <3>1. \A x \in 1..Len(str) : str[x] = CRLF[x]
      BY <1>3, <2>2, Literals
    <3> QED BY <1>2, <1>3, <3>1, Literals, SeqEqual
  <2> QED BY <2>1, <2>2
<1> QED BY <1>3, <1>4 DEF str

LEMMA BlankIs ==
  ASSUME NEW L \in Seq(Byte), NEW i \in Nat
  PROVE  i \in Blanks(L) <=> /\ i \in 1..(Len(L) - 1) /\ L[i] = "r" /\ L[i + 1] = "n"
                             /\ i = 1 \/ (i >= 3 /\ L[i - 2] = "r" /\ L[i - 1] = "n")
<1> DEFINE breaks == {j \in 1..(Len(L) - 1) : SubSeq(L, j, j + 1) = CRLF}
           h == i - 2
<1>1. i \in breaks <=> i \in 1..(Len(L) - 1) /\ L[i] = "r" /\ L[i + 1] = "n"
  BY BreakAt
<1>2. i \in Blanks(L) <=> i \in breaks /\ (i = 1 \/ h \in breaks)
  BY DEF Blanks
<1>3. CASE i >= 3
  <2>1. h \in Nat /\ h + 1 = i - 1
    BY <1>3
  <2> HIDE DEF h
  <2>2. h \in breaks <=> h \in 1..(Len(L) - 1) /\ L[h] = "r" /\ L[h + 1] = "n"
    BY <2>1, BreakAt
  <2>3. i \in 1..(Len(L) - 1) => h \in 1..(Len(L) - 1)
    BY <1>3 DEF h
  <2> HIDE DEF breaks
  <2> QED BY <1>1, <1>2, <1>3, <2>1, <2>2, <2>3 DEF h
<1>4. CASE ~(i >= 3)
  <2>1. ~(h \in breaks)
    BY <1>4
  <2> HIDE DEF breaks, h
  <2> QED BY <1>1, <1>2, <1>4, <2>1
<1> QED BY <1>3, <1>4

(* What the tail is, by place: the last size and lines up to a blank one.  *)
LEMMA TailFacts ==
  ASSUME NEW resp, Chunked(resp)
  PROVE  LET w == Wire(resp)
             N == Len(resp.writes)
         IN /\ IsPrefix(LastSize, resp.tail) =>
                 /\ LineAt(w, Off(resp, N), 0)
                 /\ LinesFrom(resp) = Off(resp, N) + Len(SizeLine[0]) + 2
                 /\ OneBlank(w, LinesFrom(resp))
                 /\ LinesFrom(resp) + 2 <= Len(w)
            /\ ~IsPrefix(LastSize, resp.tail) =>
                 \A key \in DOMAIN SizeLine : ~LineAt(w, Off(resp, N), key)
<1> DEFINE w == Wire(resp)
           N == Len(resp.writes)
           o == Off(resp, N)
           t == resp.tail
           q == Len(LastSize)
           z == LinesFrom(resp)
<1>1. /\ Len(w) = o + Len(t) /\ w \in Seq(Byte)
      /\ \A i \in 1..Len(t) : w[o + i] = t[i]
  BY WireParts
<1>2. o \in Nat /\ Len(t) \in Nat /\ t \in Seq(Byte)
  BY RespTypes
<1>3. 0 \in DOMAIN SizeLine /\ LastSize = SizeLine[0] \o CRLF
  BY SizeLineAssumption DEF LastSize
<1>4. LastSize \in Seq(Byte) /\ q = Len(SizeLine[0]) + 2 /\ q \in Nat
  <2> DEFINE line == SizeLine[0]
  <2>1. line \in Seq(Byte) /\ Len(line) \in Nat
    BY <1>3, SizeLineFacts
  <2> HIDE DEF line
  <2>2. line \o CRLF \in Seq(Byte) /\ IsJoin(line \o CRLF, line, CRLF)
    BY <2>1, Literals, Joined
  <2>3. LastSize = line \o CRLF
    BY <1>3 DEF line
  <2> QED BY <2>1, <2>2, <2>3, Literals DEF IsJoin, line
<1>5. CASE ~IsPrefix(LastSize, t)
  <2>1. \A key \in DOMAIN SizeLine : ~IsPrefix(SizeLine[key] \o CRLF, t)
    BY <1>5, ResponseAssumption DEF Chunked
  <2> QED BY <1>5, <2>1, TailLine
<1>6. CASE IsPrefix(LastSize, t)
  <2>1. LineAt(w, o, 0)
    <3> DEFINE key == 0
    <3>1. key \in DOMAIN SizeLine /\ IsPrefix(SizeLine[key] \o CRLF, t)
      BY <1>3, <1>6
    <3> HIDE DEF key
    <3>2. LineAt(w, o, key)
      BY <3>1, TailLine
    <3> QED BY <3>2 DEF key
  <2>2. z = o + Len(SizeLine[0]) + 2
    BY <1>2, <1>4 DEF LinesFrom
  <2> DEFINE L == SubSeq(t, q + 1, Len(t))
             n == Len(L)
             T == Len(t)
  <2>3. Blanks(L) = {Len(L) - 1}
    BY <1>6, ResponseAssumption DEF Chunked
  <2>4. q <= T
    BY <1>6 DEF IsPrefix
  <2>5. /\ L \in Seq(Byte) /\ n = T - q
        /\ \A i \in 1..(T - q) : L[i] = t[q + i]
    <3>1. L = Piece(t, q, T)
      BY DEF Piece
    <3>2. q \in Nat /\ T \in Nat /\ q <= T /\ T <= Len(t) /\ t \in Seq(Byte)
      BY <1>2, <1>4, <2>4
    <3> HIDE DEF L, q, T, t
    <3>3. /\ Piece(t, q, T) \in Seq(Byte) /\ Len(Piece(t, q, T)) = T - q
          /\ \A i \in 1..(T - q) : Piece(t, q, T)[i] = t[q + i]
      BY <3>2, PieceFacts
    <3> QED BY <3>1, <3>3
  <2> DEFINE W == Len(w)
  <2>6. /\ z \in Nat /\ z = o + q /\ W = o + T /\ n = W - z /\ n \in Nat
        /\ o \in Nat /\ q \in Nat /\ T \in Nat /\ n = T - q
    <3>1. /\ o \in Nat /\ q \in Nat /\ T \in Nat /\ q <= T
          /\ z = o + q /\ W = o + T /\ n = T - q
      BY <1>1, <1>2, <1>4, <2>4, <2>5 DEF LinesFrom
    <3> HIDE DEF L, n, T, W, z, q, w, o, t, N
    <3>2. z \in Nat /\ n = W - z /\ n \in Nat
      BY <3>1
    <3> QED BY <3>1, <3>2
  <2> HIDE DEF L, n, T, W, z, q, w, o, t, N
  <2>7. \A i \in 1..n : L[i] = w[z + i]
    <3> TAKE i \in 1..n
    <3>1. i \in 1..(T - q) /\ q + i \in 1..T /\ o + (q + i) = z + i
      BY <2>6
    <3>2. w[o + (q + i)] = t[q + i]
      BY <1>1, <3>1 DEF T
    <3> QED BY <2>5, <3>1, <3>2
  <2>8. ASSUME NEW i \in Nat
        PROVE  i \in Blanks(L) <=> /\ i \in 1..(n - 1) /\ L[i] = "r" /\ L[i + 1] = "n"
                                   /\ i = 1 \/ (i >= 3 /\ L[i - 2] = "r" /\ L[i - 1] = "n")
    BY <2>5, BlankIs DEF n
  <2>9. n - 1 \in 1..(n - 1)
    <3>1. n - 1 \in Blanks(L)
      BY <2>3 DEF n
    <3>2. n - 1 \in Nat \/ n = 0
      BY <2>6
    <3>3. n # 0
      <4>1. SUFFICES ASSUME n = 0 PROVE FALSE
        OBVIOUS
      <4>2. Blanks(L) \subseteq 1..(n - 1)
        BY DEF Blanks, n
      <4> QED BY <3>1, <4>1, <4>2
    <3> DEFINE i == n - 1
    <3>4. i \in Nat /\ i \in Blanks(L)
      BY <3>1, <3>2, <3>3
    <3> HIDE DEF i
    <3>5. i \in 1..(n - 1)
      BY <2>8, <3>4
    <3> QED BY <3>5 DEF i
  <2>10. z + 2 <= W
    BY <2>6, <2>9
  <2>11. ASSUME NEW p \in 0..W
         PROVE  BlankAt(w, z, p) <=> p + 2 = W
    <3>1. CASE z <= p /\ p + 2 <= W
      <4> DEFINE i == p - z + 1
      <4>1. /\ i \in Nat /\ i \in 1..(n - 1) /\ i \in 1..n /\ i + 1 \in 1..n
            /\ z + i = p + 1 /\ z + (i + 1) = p + 2
            /\ i = 1 <=> p = z
            /\ i >= 3 <=> z + 2 <= p
            /\ i = n - 1 <=> p + 2 = W
        BY <2>6, <3>1
      <4>2. i >= 3 => /\ i - 2 \in 1..n /\ i - 1 \in 1..n
                      /\ z + (i - 2) = p - 1 /\ z + (i - 1) = p
        BY <2>6, <3>1
      <4> HIDE DEF i
      <4>3. L[i] = w[p + 1] /\ L[i + 1] = w[p + 2]
        BY <2>7, <4>1
      <4>4. i >= 3 => L[i - 2] = w[p - 1] /\ L[i - 1] = w[p]
        BY <2>7, <4>2
      <4>5. i \in Blanks(L) <=> /\ w[p + 1] = "r" /\ w[p + 2] = "n"
                                /\ p = z \/ (z + 2 <= p /\ w[p - 1] = "r" /\ w[p] = "n")
        BY <2>8, <4>1, <4>3, <4>4
      <4>6. i \in Blanks(L) <=> p + 2 = W
        BY <2>3, <4>1 DEF n
      <4> QED BY <3>1, <4>5, <4>6 DEF BlankAt, LineStart, W
    <3>2. CASE ~(z <= p /\ p + 2 <= W)
      <4>1. ~BlankAt(w, z, p)
        BY <3>2 DEF BlankAt, LineStart, W
      <4>2. p + 2 # W
        BY <2>6, <2>10, <3>2
      <4> QED BY <4>1, <4>2
    <3> QED BY <3>1, <3>2
  <2>12. OneBlank(w, z)
    BY <2>11 DEF OneBlank, W
  <2> QED BY <1>6, <2>1, <2>2, <2>10, <2>12 DEF w, z, o, N, W, t
<1> QED BY <1>5, <1>6

(* The first place i of a CRLF in p, or 0.                                  *)
FirstCrlf(p, i) ==
  /\ i \in Nat
  /\ i # 0 => i \in 1..(Len(p) - 1) /\ p[i] = "r" /\ p[i + 1] = "n"
  /\ \A j \in 1..(Len(p) - 1) : p[j] = "r" /\ p[j + 1] = "n" => i # 0 /\ i <= j

LEMMA CrlfFound ==
  ASSUME NEW B, NEW p \in Seq(B)
  PROVE  FirstCrlf(p, IndexOf(p, "r", "n"))
BY IndexFacts DEF FirstCrlf

(* A line of the trailer, read at its start: none yet, the blank one, or   *)
(* one with another after it.                                              *)
LEMMA LineTurns ==
  ASSUME NEW w \in Seq(Byte), NEW z \in Nat, OneBlank(w, z),
         NEW c \in Nat, LineStart(w, z, c), NEW a \in Nat, c <= a, a <= Len(w),
         NEW i, i = IndexOf(Piece(w, c, a), "r", "n")
  PROVE  /\ i = 0 => a < Len(w)
         /\ i = 1 => c + 2 = Len(w) /\ a = Len(w)
         /\ i > 1 => c + i + 1 <= a /\ LineStart(w, z, c + i + 1)
         /\ i \in Nat
<1> DEFINE p == Piece(w, c, a)
           W == Len(w)
<1>1. /\ p \in Seq(Byte) /\ Len(p) = a - c /\ \A j \in 1..(a - c) : p[j] = w[c + j]
  BY PieceFacts
<1>2. /\ i \in Nat
      /\ i # 0 => i \in 1..(Len(p) - 1) /\ p[i] = "r" /\ p[i + 1] = "n"
      /\ \A j \in 1..(Len(p) - 1) : p[j] = "r" /\ p[j + 1] = "n" => i # 0 /\ i <= j
  <2>1. FirstCrlf(p, i)
    BY <1>1, CrlfFound
  <2> QED BY <2>1 DEF FirstCrlf
<1>3. W \in Nat /\ a <= W /\ z <= c /\ c + 2 <= W
  BY DEF LineStart
<1> HIDE DEF p, W
<1>4. \A x \in 0..W : BlankAt(w, z, x) <=> x + 2 = W
  BY DEF OneBlank, W
<1>5. w[W - 1] = "r" /\ w[W] = "n"
  <2> DEFINE x == W - 2
  <2>1. x \in 0..W /\ x + 2 = W /\ x + 1 = W - 1
    BY <1>3
  <2> HIDE DEF x
  <2> QED BY <1>4, <2>1 DEF BlankAt
<1>6. ASSUME i = 0
      PROVE  a < W
  <2>1. SUFFICES ASSUME a = W PROVE FALSE
    BY <1>3
  <2> DEFINE j == W - 1 - c
  <2>2. /\ j \in 1..(a - c - 1) /\ j \in 1..(a - c) /\ j + 1 \in 1..(a - c)
        /\ c + j = W - 1 /\ c + (j + 1) = W
    BY <1>3, <2>1
  <2> HIDE DEF j
  <2>3. p[j] = "r" /\ p[j + 1] = "n"
    BY <1>1, <1>5, <2>2
  <2> QED BY <1>1, <1>2, <1>6, <2>2, <2>3
<1>7. ASSUME i # 0
      PROVE  /\ i >= 1 /\ c + i + 1 <= a /\ i \in 1..(a - c - 1)
             /\ w[c + i] = "r" /\ w[c + i + 1] = "n"
  <2>1. /\ i \in 1..(a - c - 1) /\ i \in 1..(a - c) /\ i + 1 \in 1..(a - c)
        /\ c + (i + 1) = c + i + 1 /\ c + i + 1 <= a /\ i >= 1
    <3>1. i \in 1..(a - c - 1)
      BY <1>1, <1>2, <1>7
    <3>2. i \in Nat /\ a \in Nat /\ c \in Nat
      BY <1>2
    <3> QED BY <3>1, <3>2
  <2>2. p[i] = w[c + i] /\ p[i + 1] = w[c + (i + 1)]
    BY <1>1, <2>1
  <2> QED BY <1>2, <1>7, <2>1, <2>2
<1>8. ASSUME i = 1
      PROVE  c + 2 = W /\ a = W
  <2>1. w[c + 1] = "r" /\ w[c + 2] = "n" /\ c + 2 <= a
    BY <1>7, <1>8
  <2>2. BlankAt(w, z, c) /\ c \in 0..W
    BY <1>3, <2>1 DEF BlankAt
  <2> QED BY <1>3, <1>4, <2>1, <2>2
<1>9. ASSUME i > 1
      PROVE  c + i + 1 <= a /\ LineStart(w, z, c + i + 1)
  <2> DEFINE d == c + i + 1
  <2>1. d \in Nat /\ d <= a /\ d <= W /\ z + 2 <= d /\ d - 1 = c + i
    BY <1>2, <1>3, <1>7, <1>9
  <2>2. w[d - 1] = "r" /\ w[d] = "n"
    BY <1>2, <1>7, <1>9, <2>1
  <2>3. d # W - 1
    BY <1>5, <2>2
  <2>4. d # W
    <3>1. SUFFICES ASSUME d = W PROVE FALSE
      OBVIOUS
    <3> DEFINE x == c + i - 1
    <3>2. x \in 0..W /\ x + 2 = W /\ x # z /\ x - 1 = c + (i - 2) /\ x = c + (i - 1)
      <4>1. i \in Nat /\ i > 1 /\ c + i + 1 = W /\ z <= c
        BY <1>2, <1>3, <1>9, <3>1
      <4> QED BY <4>1
    <3> HIDE DEF x
    <3>3. z + 2 <= x /\ w[x - 1] = "r" /\ w[x] = "n"
      BY <1>4, <3>2 DEF BlankAt, LineStart
    <3>4. CASE i = 2
      <4>1. x - 1 = c /\ x = c + 1
        BY <3>2, <3>4
      <4> QED BY <3>3, <4>1 DEF LineStart
    <3>5. CASE i > 2
      <4> DEFINE j == i - 2
      <4>1. /\ j \in 1..(a - c - 1) /\ j \in 1..(a - c) /\ j + 1 \in 1..(a - c)
            /\ j + 1 = i - 1 /\ ~(i <= j)
        <5>1. i \in Nat /\ i > 2 /\ i <= a - c - 1
          BY <1>2, <1>7, <3>5
        <5> QED BY <5>1
      <4> HIDE DEF j
      <4>2. p[j] = "r" /\ p[j + 1] = "n"
        <5>1. c + j = x - 1 /\ c + (j + 1) = x
          BY <3>2, <4>1 DEF j
        <5> QED BY <1>1, <3>3, <4>1, <5>1
      <4> QED BY <1>1, <1>2, <4>1, <4>2
    <3> QED BY <1>2, <1>9, <3>4, <3>5
  <2>5. d + 2 <= W
    BY <1>3, <2>1, <2>3, <2>4
  <2> QED BY <2>1, <2>2, <2>5 DEF LineStart, W
<1> QED BY <1>2, <1>6, <1>8, <1>9 DEF W

-----------------------------------------------------------------------------
(* The decoder's invariant: k writes have been decoded, and what is        *)
(* pending is the wire from place c on.                                    *)
Taken(rd, resp, k) ==
  /\ rd.chunkSizes = [j \in 1..k |-> Len(resp.writes[j])]
  /\ Text(rd) = FlattenSeq([j \in 1..k |-> resp.writes[j]])

AtSize(rd, resp, k, c) ==
  /\ rd.state = "size" /\ c = Off(resp, k)
  /\ k = Len(resp.writes) => ~resp.broken
  /\ rd.bad => k = Len(resp.writes) /\ ~IsPrefix(LastSize, resp.tail)

AtData(rd, resp, k, c) ==
  /\ rd.state = "data" /\ ~rd.bad
  /\ k < Len(resp.writes) /\ c = DataAt(resp, k) /\ rd.need = Len(resp.writes[k + 1])

AtCrlf(rd, resp, k, c) ==
  /\ rd.state = "crlf" /\ k > 0 /\ c + 2 = Off(resp, k)
  /\ rd.bad => k = Len(resp.writes) /\ resp.broken

AtTrailer(rd, resp, k, c) ==
  /\ rd.state = "trailer" /\ ~rd.bad
  /\ k = Len(resp.writes) /\ EndsWell(resp) /\ LineStart(Wire(resp), LinesFrom(resp), c)

AtDone(rd, resp, k, c) ==
  /\ rd.state = "done" /\ ~rd.bad
  /\ k = Len(resp.writes) /\ EndsWell(resp) /\ c = Len(Wire(resp))

Place(rd, resp, k, c) ==
  \/ AtSize(rd, resp, k, c) \/ AtData(rd, resp, k, c) \/ AtCrlf(rd, resp, k, c)
  \/ AtTrailer(rd, resp, k, c) \/ AtDone(rd, resp, k, c)

Decodes(rd, resp, k, c, a) ==
  /\ rd \in Readers(Byte) /\ Framed(rd) /\ Taken(rd, resp, k)
  /\ k \in 0..Len(resp.writes) /\ c \in Nat /\ a \in Nat
  /\ c <= a /\ a <= Len(Wire(resp)) /\ rd.pending = Piece(Wire(resp), c, a)
  /\ rd.complete = (rd.state = "done")
  /\ Place(rd, resp, k, c)

(* One turn, from any such place to another.                               *)
Moves(rd, x, resp, a) ==
  /\ \E k, c \in Nat : Decodes(x, resp, k, c, a)
  /\ x = rd \/ x.bad \/ Len(x.pending) < Len(rd.pending)

(* A reader that goes on to a later place has fewer bytes before it.       *)
LEMMA PieceShrinks ==
  ASSUME NEW w \in Seq(Byte), NEW c \in Nat, NEW a \in Nat, c <= a, a <= Len(w),
         NEW i \in Nat, i > 0, c + i <= a
  PROVE  /\ After(Piece(w, c, a), i) = Piece(w, c + i, a)
         /\ Len(Piece(w, c + i, a)) < Len(Piece(w, c, a))
         /\ SubSeq(Piece(w, c, a), 1, i) = Piece(w, c, c + i)
<1> DEFINE d == c + i
<1>1. d \in Nat /\ d <= a /\ i \in 0..(a - c) /\ c < d
  OBVIOUS
<1>2. /\ After(Piece(w, c, a), i) = Piece(w, d, a)
      /\ SubSeq(Piece(w, c, a), 1, i) = Piece(w, c, d)
  BY <1>1, PieceAfter
<1> HIDE DEF d
<1>3. Len(Piece(w, d, a)) = a - d /\ Len(Piece(w, c, a)) = a - c
  BY <1>1, PieceFacts
<1> QED BY <1>1, <1>2, <1>3 DEF d

SizeTurned(rd, x, i, size, rest, long) ==
  /\ i = 0 => x = [rd EXCEPT !.bad = long]
  /\ i # 0 /\ size = {} => x = [rd EXCEPT !.bad = TRUE]
  /\ i # 0 /\ size = {0} => x = [rd EXCEPT !.pending = rest, !.state = "trailer"]
  /\ i # 0 /\ size # {} /\ size # {0} =>
       x = [rd EXCEPT !.pending = rest, !.state = "data", !.need = CHOOSE k \in size : TRUE]

(* The turn that reads a size line: what it may find, and where it leads.  *)
LEMMA SizeTurnCases ==
  ASSUME NEW B, NEW rd \in Readers(B)
  PROVE  LET i == IndexOf(rd.pending, "r", "n")
         IN SizeTurned(rd, SizeTurn(rd), i, SizeOf(SubSeq(rd.pending, 1, i - 1)),
                       After(rd.pending, i + 1), Len(rd.pending) > SizeLineLimit)
<1> DEFINE i == IndexOf(rd.pending, "r", "n")
           size == SizeOf(SubSeq(rd.pending, 1, i - 1))
           rest == After(rd.pending, i + 1)
           long == Len(rd.pending) > SizeLineLimit
           need == CHOOSE k \in size : TRUE
           x == SizeTurn(rd)
<1>1. i \in Nat
  BY ReaderFields, IndexFacts
<1>2. x = CASE i = 0 -> [rd EXCEPT !.bad = long]
            [] i > 0 /\ size = {} -> [rd EXCEPT !.bad = TRUE]
            [] i > 0 /\ size = {0} -> [rd EXCEPT !.pending = rest, !.state = "trailer"]
            [] OTHER -> [rd EXCEPT !.pending = rest, !.state = "data", !.need = need]
  BY DEF SizeTurn
<1> HIDE DEF i, rest, long, need, x
<1>3. (i > 0) = (i # 0)
  BY <1>1
<1>4. /\ i = 0 => x = [rd EXCEPT !.bad = long]
      /\ i # 0 /\ size = {} => x = [rd EXCEPT !.bad = TRUE]
      /\ i # 0 /\ size = {0} => x = [rd EXCEPT !.pending = rest, !.state = "trailer"]
      /\ i # 0 /\ size # {} /\ size # {0} =>
           x = [rd EXCEPT !.pending = rest, !.state = "data", !.need = need]
  <2> HIDE DEF size
  <2> QED BY <1>2, <1>3
<1> QED BY <1>4 DEF SizeTurned, i, rest, long, need, x

LEMMA SizeTurnMoves ==
  ASSUME NEW resp, Chunked(resp), NEW rd, NEW k, NEW c, NEW a,
         Decodes(rd, resp, k, c, a), AtSize(rd, resp, k, c), ~rd.bad
  PROVE  /\ Moves(rd, SizeTurn(rd), resp, a)
         /\ SizeTurn(rd) = rd =>
              IF k < Len(resp.writes) THEN a < DataAt(resp, k)
              ELSE IsPrefix(LastSize, resp.tail) => a < LinesFrom(resp)
<1> DEFINE w == Wire(resp)
           N == Len(resp.writes)
           p == rd.pending
           i == IndexOf(p, "r", "n")
           size == SizeOf(SubSeq(p, 1, i - 1))
           x == SizeTurn(rd)
<1>1. /\ rd \in Readers(Byte) /\ Framed(rd) /\ Taken(rd, resp, k)
      /\ k \in 0..N /\ c \in Nat /\ a \in Nat
      /\ c <= a /\ a <= Len(w) /\ p = Piece(w, c, a)
      /\ rd.complete = (rd.state = "done") /\ rd.state = "size"
      /\ c = Off(resp, k) /\ (k = N => ~resp.broken)
  BY DEF Decodes, AtSize
<1>2. w \in Seq(Byte) /\ N \in Nat
  BY WireParts, RespTypes
<1>3. x \in Readers(Byte) /\ SameText(rd, x)
  BY <1>1, SizeTurnType
<1>4. Framed(x) /\ Taken(x, resp, k)
  BY <1>1, <1>3, SameFraming DEF Taken, SameText
<1>5. rd.complete = FALSE /\ rd.bad = FALSE
  BY <1>1 DEF Readers
<1>t. SizeTurned(rd, x, i, size, After(p, i + 1), Len(p) > SizeLineLimit)
  BY <1>1, SizeTurnCases
<1>6. ASSUME NEW key \in DOMAIN SizeLine, LineAt(w, c, key)
      PROVE  LET d == c + Len(SizeLine[key]) + 2
             IN /\ a < d => i = 0 /\ x = rd
                /\ a >= d => /\ i # 0 /\ size = {key} /\ d \in Nat
                             /\ After(p, i + 1) = Piece(w, d, a)
                             /\ Len(Piece(w, d, a)) < Len(p)
  <2> DEFINE s == Len(SizeLine[key])
             d == c + s + 2
  <2>1. s \in Nat
    BY SizeLineFacts
  <2>2. /\ a < d => i = 0 /\ ~(Len(p) > SizeLineLimit)
        /\ a >= d => i = s + 1 /\ SizeOf(SubSeq(p, 1, s)) = {key}
    BY <1>1, <1>2, <1>6, LineRead
  <2>3. a < d => i = 0 /\ x = rd
    <3>1. SUFFICES ASSUME a < d PROVE i = 0 /\ x = rd
      OBVIOUS
    <3> DEFINE long == Len(p) > SizeLineLimit
    <3>2. i = 0 /\ long = FALSE
      BY <2>2, <3>1
    <3>3. x = [rd EXCEPT !.bad = long]
      <4> HIDE DEF x, i, size, p
      <4> QED BY <1>t, <3>2 DEF SizeTurned
    <3> HIDE DEF long
    <3>4. [rd EXCEPT !.bad = long] = rd
      BY <1>1, <1>5, <3>2 DEF Readers
    <3> QED BY <3>2, <3>3, <3>4
  <2>4. a >= d => /\ i # 0 /\ size = {key} /\ d \in Nat
                  /\ After(p, i + 1) = Piece(w, d, a)
                  /\ Len(Piece(w, d, a)) < Len(p)
    <3>1. SUFFICES ASSUME a >= d
                   PROVE  /\ i # 0 /\ size = {key} /\ d \in Nat
                          /\ After(p, i + 1) = Piece(w, d, a)
                          /\ Len(Piece(w, d, a)) < Len(p)
      OBVIOUS
    <3>2. i = s + 1 /\ SizeOf(SubSeq(p, 1, s)) = {key}
      BY <2>2, <3>1
    <3> DEFINE j == s + 2
    <3> HIDE DEF s
    <3>3. i - 1 = s /\ i + 1 = j /\ i # 0 /\ c + j = d /\ j \in Nat /\ j > 0 /\ d \in Nat
      <4>1. i = s + 1 /\ s \in Nat /\ c \in Nat /\ d = c + s + 2
        BY <1>1, <2>1, <3>2
      <4> HIDE DEF d, i
      <4> QED BY <4>1
    <3>4. c + j <= a
      BY <3>1, <3>3
    <3> HIDE DEF j, d, i
    <3>5. /\ After(Piece(w, c, a), j) = Piece(w, c + j, a)
          /\ Len(Piece(w, c + j, a)) < Len(Piece(w, c, a))
      BY <1>1, <1>2, <3>3, <3>4, PieceShrinks
    <3>6. size = {key}
      BY <3>2, <3>3
    <3> QED BY <1>1, <3>3, <3>5, <3>6
  <2> QED BY <2>3, <2>4
<1>7. CASE k < N
  <2> DEFINE data == resp.writes[k + 1]
             key == Len(data)
             d == DataAt(resp, k)
  <2>1. k \in Nat
    BY <1>1, <1>2
  <2>2. key \in DOMAIN SizeLine /\ LineAt(w, c, key) /\ d = c + Len(SizeLine[key]) + 2
    <3>1. HoldsChunk(resp, k)
      BY <1>7, <2>1, ChunkAt
    <3> QED BY <1>1, <3>1 DEF HoldsChunk, DataAt
  <2> HIDE DEF key, d
  <2>3. /\ a < d => i = 0 /\ x = rd
        /\ a >= d => /\ i # 0 /\ size = {key} /\ d \in Nat
                     /\ After(p, i + 1) = Piece(w, d, a)
                     /\ Len(Piece(w, d, a)) < Len(p)
    BY <1>6, <2>2
  <2>4. CASE a < d
    BY <1>1, <1>7, <2>3, <2>4 DEF Moves, d
  <2>5. CASE a >= d
    <3> DEFINE rest == After(p, i + 1)
    <3>1. x = [rd EXCEPT !.pending = rest, !.state = "data", !.need = key]
      <4> DEFINE need == CHOOSE j \in size : TRUE
      <4>1. size = {key} /\ i # 0 /\ key # 0
        <5>1. HoldsChunk(resp, k)
          BY <1>7, <2>1, ChunkAt
        <5> QED BY <2>3, <2>5, <5>1 DEF HoldsChunk, key
      <4>2. need = key /\ size # {} /\ size # {0}
        BY <4>1
      <4>3. x = [rd EXCEPT !.pending = rest, !.state = "data", !.need = need]
        <5> HIDE DEF x, i, size, p
        <5> QED BY <1>t, <4>1, <4>2 DEF SizeTurned
      <4> QED BY <4>2, <4>3
    <3>2. rest = Piece(w, d, a) /\ Len(rest) < Len(p) /\ d \in Nat
      BY <2>3, <2>5
    <3> HIDE DEF rest, i, size
    <3> DEFINE y == x
    <3> HIDE DEF x
    <3>3. /\ x.pending = rest /\ x.state = "data" /\ x.need = key
          /\ x.bad = rd.bad /\ x.complete = rd.complete
      BY <1>1, <3>1 DEF Readers
    <3>4. AtData(x, resp, k, d)
      BY <1>5, <1>7, <3>3 DEF AtData, d, key
    <3>5. Decodes(x, resp, k, d, a)
      BY <1>1, <1>3, <1>4, <1>5, <2>5, <3>2, <3>3, <3>4 DEF Decodes, Place
    <3>6. x # rd
      BY <1>1, <3>3
    <3> QED BY <1>7, <2>1, <3>2, <3>3, <3>5, <3>6 DEF Moves, x
  <2>6. a < d \/ a >= d
    <3>1. d \in Nat
      <4>1. HoldsChunk(resp, k)
        BY <1>7, <2>1, ChunkAt
      <4> QED BY <4>1 DEF HoldsChunk, d
    <3> QED BY <1>1, <3>1
  <2> QED BY <2>4, <2>5, <2>6
<1>8. CASE k = N /\ IsPrefix(LastSize, resp.tail)
  <2> DEFINE key == 0
             d == LinesFrom(resp)
  <2>1. key \in DOMAIN SizeLine /\ LineAt(w, c, key) /\ d = c + Len(SizeLine[key]) + 2
        /\ OneBlank(w, d) /\ d + 2 <= Len(w)
    BY <1>1, <1>8, TailFacts, SizeLineAssumption
  <2> HIDE DEF key, d
  <2>3. /\ a < d => i = 0 /\ x = rd
        /\ a >= d => /\ i # 0 /\ size = {key} /\ d \in Nat
                     /\ After(p, i + 1) = Piece(w, d, a)
                     /\ Len(Piece(w, d, a)) < Len(p)
    BY <1>6, <2>1
  <2>4. CASE a < d
    BY <1>1, <1>8, <2>3, <2>4 DEF Moves, d
  <2>5. CASE a >= d
    <3> DEFINE rest == After(p, i + 1)
    <3>1. x = [rd EXCEPT !.pending = rest, !.state = "trailer"]
      <4>1. size = {0} /\ i # 0
        BY <2>3, <2>5 DEF key
      <4> HIDE DEF x, i, size, p
      <4> QED BY <1>t, <4>1 DEF SizeTurned
    <3>2. rest = Piece(w, d, a) /\ Len(rest) < Len(p) /\ d \in Nat
      BY <2>3, <2>5
    <3> HIDE DEF rest, i, size
    <3> HIDE DEF x
    <3>3. /\ x.pending = rest /\ x.state = "trailer"
          /\ x.bad = rd.bad /\ x.complete = rd.complete
      BY <1>1, <3>1 DEF Readers
    <3>4. AtTrailer(x, resp, k, d)
      BY <1>1, <1>5, <1>8, <2>1, <3>2, <3>3 DEF AtTrailer, LineStart, EndsWell, d
    <3>5. Decodes(x, resp, k, d, a)
      BY <1>1, <1>3, <1>4, <1>5, <2>5, <3>2, <3>3, <3>4 DEF Decodes, Place
    <3>6. x # rd
      BY <1>1, <3>3
    <3>7. k \in Nat
      BY <1>2, <1>8
    <3> QED BY <3>2, <3>3, <3>5, <3>6, <3>7 DEF Moves, x
  <2>6. a < d \/ a >= d
    <3>1. d \in Nat
      <4>1. c \in Nat /\ Len(SizeLine[key]) \in Nat
        BY <1>1, <2>1, SizeLineFacts
      <4> QED BY <2>1, <4>1
    <3> QED BY <1>1, <3>1
  <2> QED BY <2>4, <2>5, <2>6
<1>9. CASE k = N /\ ~IsPrefix(LastSize, resp.tail)
  <2>1. \A key \in DOMAIN SizeLine : ~LineAt(w, c, key)
    BY <1>1, <1>9, TailFacts
  <2>2. i # 0 => size = {}
    <3>1. SUFFICES ASSUME i # 0, NEW key \in size PROVE FALSE
      OBVIOUS
    <3> DEFINE s == i - 1
               h == SubSeq(p, 1, s)
    <3>2. i \in 1..(Len(p) - 1) /\ p[i] = "r" /\ p[i + 1] = "n"
      BY <1>1, <3>1, ReaderFields, IndexFacts
    <3>3. key \in DOMAIN SizeLine /\ SizeLine[key] = h
      BY DEF SizeOf
    <3>4. p \in Seq(Byte) /\ Len(p) = a - c /\ \A j \in 1..(a - c) : p[j] = w[c + j]
      <4> HIDE DEF p, w
      <4>1. c \in Nat /\ a \in Nat /\ c <= a /\ a <= Len(w) /\ p = Piece(w, c, a)
        BY <1>1
      <4>2. /\ Piece(w, c, a) \in Seq(Byte) /\ Len(Piece(w, c, a)) = a - c
            /\ \A j \in 1..(a - c) : Piece(w, c, a)[j] = w[c + j]
        BY <1>2, <4>1, PieceFacts
      <4> QED BY <4>1, <4>2
    <3> HIDE DEF p, i
    <3>5. s \in 0..Len(p) /\ s \in Nat /\ i = s + 1 /\ i + 1 = s + 2 /\ s + 2 <= Len(p)
      BY <3>2, <3>4
    <3> HIDE DEF s
    <3>6. Len(h) = s /\ \A j \in 1..s : h[j] = p[j]
      BY <3>4, <3>5, Halves
    <3> HIDE DEF h
    <3>7. \A j \in 1..s : w[c + j] = SizeLine[key][j]
      <4>1. \A j \in 1..s : j \in 1..(a - c)
        BY <3>4, <3>5
      <4> QED BY <3>3, <3>4, <3>6, <4>1
    <3>8. w[c + s + 1] = "r" /\ w[c + s + 2] = "n"
      <4>1. /\ s + 1 \in 1..(a - c) /\ s + 2 \in 1..(a - c)
            /\ c + (s + 1) = c + s + 1 /\ c + (s + 2) = c + s + 2
        BY <1>1, <3>4, <3>5
      <4> QED BY <3>2, <3>4, <3>5, <4>1
    <3>9. c + s + 2 <= Len(w)
      <4> DEFINE W == Len(w)
      <4>1. a <= W /\ W \in Nat /\ s + 2 <= a - c
        BY <1>1, <1>2, <3>4, <3>5
      <4> HIDE DEF W
      <4>2. c + s + 2 <= W
        BY <1>1, <3>5, <4>1
      <4> QED BY <4>2 DEF W
    <3>10. LineAt(w, c, key)
      BY <3>3, <3>6, <3>7, <3>8, <3>9 DEF LineAt
    <3> QED BY <2>1, <3>3, <3>10
  <2>3. x = [rd EXCEPT !.bad = TRUE] \/ x = [rd EXCEPT !.bad = (Len(p) > SizeLineLimit)]
    <3>1. i = 0 \/ (i # 0 /\ size = {})
      BY <2>2
    <3> HIDE DEF x, i, size, p
    <3> QED BY <1>t, <3>1 DEF SizeTurned
  <2> DEFINE long == Len(p) > SizeLineLimit
  <2>4. long \in BOOLEAN
    OBVIOUS
  <2> HIDE DEF long, x
  <2>5. x = [rd EXCEPT !.bad = TRUE] \/ x = [rd EXCEPT !.bad = long]
    BY <2>3 DEF long, x
  <2>6. /\ x.pending = p /\ x.state = rd.state /\ x.complete = rd.complete
        /\ x = rd \/ x.bad
    BY <1>1, <1>5, <2>4, <2>5 DEF Readers
  <2>7. AtSize(x, resp, k, c)
    BY <1>1, <1>9, <2>6 DEF AtSize
  <2>8. Decodes(x, resp, k, c, a)
    BY <1>1, <1>3, <1>4, <2>6, <2>7 DEF Decodes, Place, x
  <2>9. k \in Nat
    BY <1>2, <1>9
  <2>10. ~(k < N)
    BY <1>2, <1>9
  <2> QED BY <1>1, <1>9, <2>6, <2>8, <2>9, <2>10 DEF Moves, x
<1>10. k < N \/ k = N
  BY <1>1, <1>2
<1> QED BY <1>7, <1>8, <1>9, <1>10

LEMMA WritesAppend ==
  ASSUME NEW resp, Chunked(resp), NEW k \in Nat, k < Len(resp.writes), NEW rd, NEW x,
         Taken(rd, resp, k), Text(rd) \in Seq(Byte), rd.chunkSizes \in Seq(Nat),
         Text(x) = Text(rd) \o resp.writes[k + 1],
         x.chunkSizes = Append(rd.chunkSizes, Len(resp.writes[k + 1]))
  PROVE  Taken(x, resp, k + 1)
<1> DEFINE m == k + 1
           str == resp.writes
           s == [j \in 1..k |-> str[j]]
           t == [j \in 1..m |-> str[j]]
           ls == [j \in 1..k |-> Len(str[j])]
           lt == [j \in 1..m |-> Len(str[j])]
<1>1. /\ str \in Seq(Seq(Byte)) /\ Len(str) \in Nat /\ m \in Nat /\ m \in 1..Len(str)
      /\ \A j \in 1..m : str[j] \in Seq(Byte) /\ Len(str[j]) \in Nat
  <2>1. str \in Seq(Seq(Byte)) /\ Len(str) \in Nat
    BY RespTypes
  <2>2. \A j \in 1..Len(str) : str[j] \in Seq(Byte)
    BY <2>1, ElementOfSeq
  <2>3. \A j \in 1..m : j \in 1..Len(str)
    BY <2>1
  <2>4. m \in Nat /\ m \in 1..Len(str)
    BY <2>1
  <2> QED BY <2>1, <2>2, <2>3, <2>4
<1>2. /\ s \in Seq(Seq(Byte)) /\ Len(s) = k /\ t \in Seq(Seq(Byte)) /\ Len(t) = m
      /\ ls \in Seq(Nat) /\ Len(ls) = k /\ lt \in Seq(Nat) /\ Len(lt) = m
  <2>1. \A j \in 1..k : j \in 1..m
    OBVIOUS
  <2> HIDE DEF m, str
  <2> DEFINE D == Seq(Byte)
  <2>x. \A j \in 1..k : str[j] \in D
    BY <1>1, <2>1
  <2> HIDE DEF D
  <2>y. s \in Seq(D) /\ Len(s) = k
    BY <2>x
  <2>2. s \in Seq(Seq(Byte)) /\ Len(s) = k
    BY <2>y DEF D
  <2>3. t \in Seq(Seq(Byte)) /\ Len(t) = m
    BY <1>1
  <2>4. ls \in Seq(Nat) /\ Len(ls) = k
    BY <1>1, <2>1
  <2>5. lt \in Seq(Nat) /\ Len(lt) = m
    BY <1>1
  <2> QED BY <2>2, <2>3, <2>4, <2>5
<1>3. /\ \A j \in 1..k : s[j] = str[j] /\ ls[j] = Len(str[j])
      /\ \A j \in 1..m : t[j] = str[j] /\ lt[j] = Len(str[j])
  OBVIOUS
<1>4. str[m] \in Seq(Byte) /\ Len(str[m]) \in Nat
  BY <1>1
<1>5. /\ Text(rd) = FlattenSeq(s) /\ rd.chunkSizes = ls
      /\ Text(x) = FlattenSeq(s) \o str[m] /\ x.chunkSizes = Append(ls, Len(str[m]))
  BY DEF Taken
<1> HIDE DEF s, t, ls, lt, str
<1> DEFINE e == str[m]
           n == Len(e)
<1>6. t = Append(s, e) /\ lt = Append(ls, n)
  <2>e. e \in Seq(Byte) /\ n \in Nat
    BY <1>4
  <2> HIDE DEF e, n
  <2>1. /\ Append(s, e) \in Seq(Seq(Byte)) /\ Len(Append(s, e)) = Len(s) + 1
        /\ \A j \in 1..Len(s) : Append(s, e)[j] = s[j]
        /\ Append(s, e)[Len(s) + 1] = e
    <3> DEFINE D == Seq(Byte)
    <3>1. s \in Seq(D) /\ e \in D
      BY <1>2, <2>e
    <3> HIDE DEF D
    <3>2. /\ Append(s, e) \in Seq(D) /\ Len(Append(s, e)) = Len(s) + 1
          /\ \A j \in 1..Len(s) : Append(s, e)[j] = s[j]
          /\ Append(s, e)[Len(s) + 1] = e
      BY <3>1, AppendProperties
    <3> QED BY <3>2 DEF D
  <2>2. /\ Append(ls, n) \in Seq(Nat) /\ Len(Append(ls, n)) = Len(ls) + 1
        /\ \A j \in 1..Len(ls) : Append(ls, n)[j] = ls[j]
        /\ Append(ls, n)[Len(ls) + 1] = n
    <3>1. ls \in Seq(Nat) /\ n \in Nat
      BY <1>2, <2>e
    <3> QED BY <3>1, AppendProperties
  <2>3. \A j \in 1..m : t[j] = Append(s, e)[j] /\ lt[j] = Append(ls, n)[j]
    <3> TAKE j \in 1..m
    <3>1. j \in 1..k \/ j = k + 1
      OBVIOUS
    <3>2. CASE j \in 1..k
      BY <1>2, <1>3, <2>1, <2>2, <3>2
    <3>3. CASE j = k + 1
      BY <1>2, <1>3, <2>1, <2>2, <3>3 DEF e, n
    <3> QED BY <3>1, <3>2, <3>3
  <2>4. t = Append(s, e)
    BY <1>2, <2>1, <2>3, SeqEqual
  <2>5. lt = Append(ls, n)
    BY <1>2, <2>2, <2>3, SeqEqual
  <2> QED BY <2>4, <2>5
<1>7. FlattenSeq(t) = FlattenSeq(s) \o e
  <2> HIDE DEF e
  <2> QED BY <1>2, <1>4, <1>6, FlattenAppend DEF e
<1> QED BY <1>5, <1>6, <1>7 DEF Taken, t, lt, str

(* The turn that takes a chunk's data, whole.                              *)
LEMMA DataTurnMoves ==
  ASSUME NEW resp, Chunked(resp), NEW rd, NEW k, NEW c, NEW a,
         Decodes(rd, resp, k, c, a), AtData(rd, resp, k, c)
  PROVE  /\ Moves(rd, DataTurn(rd), resp, a)
         /\ DataTurn(rd) = rd => a + 2 < Off(resp, k + 1)
<1> DEFINE w == Wire(resp)
           N == Len(resp.writes)
           p == rd.pending
           m == k + 1
           data == resp.writes[m]
           n == Len(data)
           x == DataTurn(rd)
           o == Off(resp, m)
<1>1. /\ rd \in Readers(Byte) /\ Framed(rd) /\ Taken(rd, resp, k)
      /\ k \in 0..N /\ c \in Nat /\ a \in Nat
      /\ c <= a /\ a <= Len(w) /\ p = Piece(w, c, a)
      /\ rd.complete = (rd.state = "done") /\ rd.state = "data" /\ ~rd.bad
      /\ k < N /\ c = DataAt(resp, k) /\ rd.need = n
  BY DEF Decodes, AtData
<1>2. w \in Seq(Byte) /\ N \in Nat /\ k \in Nat
  BY <1>1, WireParts, RespTypes
<1>3. /\ data \in Seq(Byte) /\ n \in Nat /\ n > 0
      /\ c \in Nat /\ o = c + n + 2 /\ o <= Len(w)
      /\ \A i \in 1..n : w[c + i] = data[i]
  <2>1. /\ data \in Seq(Byte) /\ n \in Nat \ {0}
        /\ o = DataAt(resp, k) + n + 2 /\ o <= Len(w)
        /\ \A i \in 1..n : w[DataAt(resp, k) + i] = data[i]
    <3>1. HoldsChunk(resp, k)
      BY <1>1, <1>2, ChunkAt
    <3> QED BY <3>1 DEF HoldsChunk
  <2> HIDE DEF o, w, n
  <2>2. n > 0
    BY <2>1
  <2> QED BY <1>1, <2>1, <2>2
<1>f. /\ c \in Nat /\ a \in Nat /\ c <= a /\ a <= Len(w) /\ w \in Seq(Byte)
      /\ p = Piece(w, c, a)
  BY <1>1, <1>2
<1>4. Len(p) = a - c
  <2> HIDE DEF w, p
  <2>1. Len(Piece(w, c, a)) = a - c
    BY <1>f, PieceFacts
  <2> QED BY <1>f, <2>1
<1>5. FramesEnd(rd)
  BY <1>1 DEF Framed
<1>6. /\ x \in Readers(Byte)
      /\ Len(p) < n => x = rd
      /\ Len(p) >= n => /\ Text(x) = Text(rd) \o SubSeq(p, 1, n) /\ Framed(x)
                        /\ x.pending = After(p, n)
                        /\ x.chunkSizes = Append(rd.chunkSizes, n)
                        /\ x.state = "crlf" /\ x.complete = rd.complete /\ x.bad = rd.bad
  <2>1. rd \in Readers(Byte) /\ rd.need = n
    BY <1>1
  <2> DEFINE i == rd.need
  <2>2. /\ x \in Readers(Byte)
        /\ Len(p) < i => x = rd
        /\ Len(p) >= i => /\ Text(x) = Text(rd) \o SubSeq(p, 1, i) /\ Framed(x)
                          /\ x.pending = After(p, i)
                          /\ x.chunkSizes = Append(rd.chunkSizes, i)
                          /\ x.state = "crlf" /\ x.complete = rd.complete /\ x.bad = rd.bad
    BY <1>5, <2>1, DataTurnFacts
  <2> HIDE DEF x, n, p
  <2> QED BY <2>1, <2>2
<1> HIDE DEF x, o, w, n, p
<1>7. CASE a < c + n
  <2>1. Len(p) < n
    BY <1>1, <1>3, <1>4, <1>7
  <2>2. a + 2 < o
    BY <1>1, <1>3, <1>7
  <2>3. x = rd
    BY <1>6, <2>1
  <2> QED BY <1>2, <1>1, <2>2, <2>3 DEF Moves, x, o
<1>8. CASE a >= c + n
  <2> DEFINE d == c + n
  <2>1. Len(p) >= n /\ c + n <= a /\ d \in Nat /\ d <= Len(w) /\ d + 2 = o
    <3> DEFINE W == Len(w)
               P == Len(p)
    <3>1. c + n <= a /\ P = a - c /\ a <= W /\ W \in Nat /\ n \in Nat /\ c \in Nat /\ a \in Nat
          /\ o = c + n + 2
      BY <1>1, <1>2, <1>3, <1>4, <1>8
    <3> HIDE DEF W, P
    <3>2. P >= n /\ d \in Nat /\ d <= W /\ d + 2 = o
      BY <3>1
    <3> QED BY <3>1, <3>2 DEF W, P
  <2> HIDE DEF d
  <2>2. /\ After(p, n) = Piece(w, d, a) /\ Len(Piece(w, d, a)) < Len(p)
        /\ SubSeq(p, 1, n) = Piece(w, c, d)
    <3>1. n \in Nat /\ n > 0 /\ c + n <= a
      BY <1>3, <2>1
    <3>2. /\ After(Piece(w, c, a), n) = Piece(w, c + n, a)
          /\ Len(Piece(w, c + n, a)) < Len(Piece(w, c, a))
          /\ SubSeq(Piece(w, c, a), 1, n) = Piece(w, c, c + n)
      <4> HIDE DEF w, p, n
      <4>1. c \in Nat /\ a \in Nat /\ c <= a /\ a <= Len(w) /\ w \in Seq(Byte)
        BY <1>f
      <4> QED BY <3>1, <4>1, PieceShrinks
    <3> QED BY <1>f, <3>2 DEF d
  <2>3. Piece(w, c, d) = data
    <3>1. c <= d /\ d - c = n
      BY <1>3 DEF d
    <3>2. /\ Piece(w, c, d) \in Seq(Byte) /\ Len(Piece(w, c, d)) = n
          /\ \A i \in 1..n : Piece(w, c, d)[i] = w[c + i]
      <4>1. /\ Piece(w, c, d) \in Seq(Byte) /\ Len(Piece(w, c, d)) = d - c
            /\ \A i \in 1..(d - c) : Piece(w, c, d)[i] = w[c + i]
        BY <1>f, <2>1, <3>1, PieceFacts
      <4> QED BY <3>1, <4>1
    <3> DEFINE q == Piece(w, c, d)
    <3> HIDE DEF q
    <3>3. q \in Seq(Byte) /\ Len(q) = n /\ \A i \in 1..n : q[i] = data[i]
      BY <1>3, <3>2 DEF q
    <3>4. q = data
      <4> HIDE DEF data
      <4>1. Len(data) = n /\ data \in Seq(Byte)
        BY <1>3 DEF n
      <4> QED BY <3>3, <4>1, SeqEqual
    <3> QED BY <3>4 DEF q
  <2>4. Taken(x, resp, m)
    <3>1. Text(x) = Text(rd) \o data /\ x.chunkSizes = Append(rd.chunkSizes, Len(data))
      BY <1>6, <2>1, <2>2, <2>3 DEF n
    <3>2. rd.chunkSizes \in Seq(Nat) /\ Text(rd) \in Seq(Byte)
      <4>1. rd.frames \in Seq(Seq(Byte)) /\ rd.carry \in Seq(Byte) /\ rd.chunkSizes \in Seq(Nat)
        BY <1>1, ReaderFields
      <4>2. FlattenSeq(rd.frames) \in Seq(Byte)
        BY <4>1, FlattenType
      <4> QED BY <4>1, <4>2, ConcatProperties DEF Text
    <3> QED BY <1>1, <1>2, <3>1, <3>2, WritesAppend
  <2>5. m \in 0..N /\ m > 0 /\ m \in Nat
    BY <1>1, <1>2
  <2> HIDE DEF m
  <2>6. AtCrlf(x, resp, m, d)
    BY <1>1, <1>6, <2>1, <2>5 DEF AtCrlf, o
  <2>7. Decodes(x, resp, m, d, a)
    <3>1. x.complete = (x.state = "done")
      BY <1>1, <1>6, <2>1
    <3>2. /\ x \in Readers(Byte) /\ Framed(x) /\ x.pending = Piece(w, d, a)
      BY <1>6, <2>1, <2>2
    <3>3. d <= a
      BY <2>1 DEF d
    <3> QED BY <1>1, <2>1, <2>4, <2>5, <2>6, <3>1, <3>2, <3>3 DEF Decodes, Place, w
  <2>8. Len(x.pending) < Len(rd.pending)
    BY <1>6, <2>1, <2>2 DEF p
  <2>9. x # rd
    BY <1>1, <1>6, <2>1
  <2> QED BY <2>1, <2>5, <2>7, <2>8, <2>9 DEF Moves, x
<1>9. a < c + n \/ a >= c + n
  BY <1>1, <1>3
<1> QED BY <1>7, <1>8, <1>9

LEMMA TwoAt ==
  ASSUME NEW w \in Seq(Byte), NEW c \in Nat, NEW a \in Nat, c + 2 <= a, a <= Len(w)
  PROVE  IndexOf(Piece(w, c, a), "r", "n") = 1 <=> w[c + 1] = "r" /\ w[c + 2] = "n"
<1> DEFINE p == Piece(w, c, a)
<1>1. /\ p \in Seq(Byte) /\ Len(p) = a - c /\ \A j \in 1..(a - c) : p[j] = w[c + j]
  <2>1. c <= a
    OBVIOUS
  <2> QED BY <2>1, PieceFacts
<1> HIDE DEF p
<1>2. /\ 1 \in 1..(a - c) /\ 2 \in 1..(a - c) /\ 1 \in 1..(Len(p) - 1)
      /\ p[1] = w[c + 1] /\ p[2] = w[c + 2]
  BY <1>1
<1> DEFINE i == IndexOf(p, "r", "n")
<1>3. ASSUME i = 1 PROVE p[1] = "r" /\ p[2] = "n"
  <2>1. p[i] = "r" /\ p[i + 1] = "n"
    BY <1>1, <1>3, IndexFacts
  <2> QED BY <1>3, <2>1
<1>4. ASSUME p[1] = "r", p[2] = "n" PROVE i = 1
  <2> DEFINE z == 1
  <2>1. z \in 1..(Len(p) - 1) /\ p[z] = "r" /\ p[z + 1] = "n"
    BY <1>2, <1>4
  <2>2. NoneBefore(p, "r", "n", z)
    BY DEF NoneBefore
  <2> HIDE DEF z
  <2>3. IndexOf(p, "r", "n") = z
    BY <1>1, <2>1, <2>2, IndexIs
  <2> QED BY <2>3 DEF z
<1> QED BY <1>2, <1>3, <1>4 DEF p

(* The turn that checks the CRLF after it.                                 *)
LEMMA CrlfTurnMoves ==
  ASSUME NEW resp, Chunked(resp), NEW rd, NEW k, NEW c, NEW a,
         Decodes(rd, resp, k, c, a), AtCrlf(rd, resp, k, c), ~rd.bad
  PROVE  /\ Moves(rd, CrlfTurn(rd), resp, a)
         /\ CrlfTurn(rd) = rd => a < Off(resp, k)
<1> DEFINE w == Wire(resp)
           N == Len(resp.writes)
           p == rd.pending
           h == k - 1
           n == Len(resp.writes[k])
           x == CrlfTurn(rd)
           o == Off(resp, k)
           i == IndexOf(p, "r", "n")
<1>1. /\ rd \in Readers(Byte) /\ Framed(rd) /\ Taken(rd, resp, k)
      /\ k \in 0..N /\ c \in Nat /\ a \in Nat
      /\ c <= a /\ a <= Len(w) /\ p = Piece(w, c, a)
      /\ rd.complete = (rd.state = "done") /\ rd.state = "crlf"
      /\ k > 0 /\ c + 2 = o
  BY DEF Decodes, AtCrlf
<1>2. w \in Seq(Byte) /\ N \in Nat /\ k \in Nat /\ h \in Nat /\ h < N /\ h + 1 = k
  BY <1>1, WireParts, RespTypes
<1>3. /\ o <= Len(w) /\ w[c + 1] = Crlf(resp, k)[1] /\ w[c + 2] = Crlf(resp, k)[2]
  <2> DEFINE m == h + 1
             d == DataAt(resp, h)
             l == Len(resp.writes[m])
  <2>1. /\ d \in Nat /\ l \in Nat /\ Off(resp, m) = d + l + 2 /\ Off(resp, m) <= Len(w)
        /\ \A j \in 1..2 : w[d + l + j] = Crlf(resp, m)[j]
    <3>1. HoldsChunk(resp, h)
      BY <1>2, ChunkAt
    <3> QED BY <3>1 DEF HoldsChunk
  <2>2. m = k
    BY <1>2
  <2> HIDE DEF m, d, l, w
  <2>3. c = d + l
    BY <1>1, <2>1, <2>2
  <2>4. 1 \in 1..2 /\ 2 \in 1..2
    OBVIOUS
  <2> QED BY <2>1, <2>2, <2>3, <2>4
<1>4. x \in Readers(Byte) /\ SameText(rd, x)
  BY <1>1, OtherTurnTypes
<1>5. Framed(x) /\ Taken(x, resp, k)
  BY <1>1, <1>4, SameFraming DEF Taken, SameText
<1>6. rd.complete = FALSE /\ rd.bad = FALSE
  BY <1>1 DEF Readers
<1>f. /\ c \in Nat /\ a \in Nat /\ c <= a /\ a <= Len(w) /\ w \in Seq(Byte)
      /\ p = Piece(w, c, a)
  BY <1>1, <1>2
<1>7. Len(p) = a - c
  <2> HIDE DEF w, p
  <2>1. Len(Piece(w, c, a)) = a - c
    BY <1>f, PieceFacts
  <2> QED BY <1>f, <2>1
<1>8. CASE a < o
  <2>1. Len(p) < 2
    BY <1>1, <1>7, <1>8
  <2>2. x = rd
    BY <2>1 DEF CrlfTurn
  <2> QED BY <1>1, <1>2, <1>8, <2>2 DEF Moves
<1>9. CASE a >= o /\ ~(resp.broken /\ k = N)
  <2>1. w[c + 1] = "r" /\ w[c + 2] = "n"
    BY <1>3, <1>9, Literals DEF Crlf
  <2>2. i = 1
    <3>1. c + 2 <= a
      BY <1>1, <1>9
    <3> HIDE DEF w, p
    <3>2. IndexOf(Piece(w, c, a), "r", "n") = 1
      BY <1>1, <1>2, <2>1, <3>1, TwoAt
    <3> QED BY <1>1, <3>2
  <2> DEFINE rest == After(p, 2)
  <2>3. ~(Len(p) < 2)
    BY <1>1, <1>7, <1>9
  <2>4. x = [rd EXCEPT !.pending = rest, !.state = "size"]
    BY <2>2, <2>3 DEF CrlfTurn
  <2>5. rest = Piece(w, o, a) /\ Len(rest) < Len(p)
    <3> DEFINE j == 2
    <3>1. j \in Nat /\ j > 0 /\ c + j <= a /\ c + j = o
      BY <1>1, <1>9
    <3> HIDE DEF j, w, p, o
    <3>2. /\ After(Piece(w, c, a), j) = Piece(w, c + j, a)
          /\ Len(Piece(w, c + j, a)) < Len(Piece(w, c, a))
      BY <1>1, <1>2, <3>1, PieceShrinks
    <3> QED BY <1>1, <3>1, <3>2 DEF j
  <2> HIDE DEF rest, x, i
  <2>6. /\ x.pending = rest /\ x.state = "size" /\ x.bad = rd.bad /\ x.complete = rd.complete
    BY <1>1, <2>4 DEF Readers
  <2>7. o \in Nat /\ o <= a
    BY <1>1, <1>9
  <2>8. AtSize(x, resp, k, o)
    <3>1. k = N => ~resp.broken
      BY <1>9
    <3> QED BY <1>6, <2>6, <3>1 DEF AtSize
  <2>9. Decodes(x, resp, k, o, a)
    BY <1>1, <1>4, <1>5, <1>6, <2>5, <2>6, <2>7, <2>8 DEF Decodes, Place
  <2>10. x # rd
    BY <1>1, <2>6
  <2> QED BY <1>2, <2>5, <2>6, <2>7, <2>9, <2>10 DEF Moves, x
<1>10. CASE a >= o /\ resp.broken /\ k = N
  <2>1. w[c + 1] = "x" /\ w[c + 2] = "x"
    BY <1>3, <1>10 DEF Crlf
  <2>2. i # 1
    <3>1. c + 2 <= a
      BY <1>1, <1>10
    <3> HIDE DEF w, p
    <3>2. IndexOf(Piece(w, c, a), "r", "n") # 1
      BY <1>1, <1>2, <2>1, <3>1, TwoAt
    <3> QED BY <1>1, <3>2
  <2>3. ~(Len(p) < 2)
    BY <1>1, <1>7, <1>10
  <2>4. x = [rd EXCEPT !.bad = TRUE]
    BY <2>2, <2>3 DEF CrlfTurn
  <2> HIDE DEF x, i
  <2>5. /\ x.pending = p /\ x.state = "crlf" /\ x.bad /\ x.complete = rd.complete
    BY <1>1, <2>4 DEF Readers
  <2>6. AtCrlf(x, resp, k, c)
    BY <1>1, <1>10, <2>5 DEF AtCrlf
  <2>7. Decodes(x, resp, k, c, a)
    BY <1>1, <1>4, <1>5, <1>6, <2>5, <2>6 DEF Decodes, Place
  <2>8. x # rd
    BY <1>6, <2>5
  <2> QED BY <1>1, <1>2, <2>5, <2>7, <2>8 DEF Moves, x
<1>11. a < o \/ a >= o
  BY <1>1
<1> QED BY <1>8, <1>9, <1>10, <1>11

(* The turn that skips a line of the trailer or sees its end.              *)
LEMMA TrailerTurnMoves ==
  ASSUME NEW resp, Chunked(resp), NEW rd, NEW k, NEW c, NEW a,
         Decodes(rd, resp, k, c, a), AtTrailer(rd, resp, k, c)
  PROVE  /\ Moves(rd, TrailerTurn(rd), resp, a)
         /\ TrailerTurn(rd) = rd => a < Len(Wire(resp))
<1> DEFINE w == Wire(resp)
           N == Len(resp.writes)
           p == rd.pending
           z == LinesFrom(resp)
           x == TrailerTurn(rd)
           i == IndexOf(p, "r", "n")
<1>1. /\ rd \in Readers(Byte) /\ Framed(rd) /\ Taken(rd, resp, k)
      /\ k \in 0..N /\ c \in Nat /\ a \in Nat
      /\ c <= a /\ a <= Len(w) /\ p = Piece(w, c, a)
      /\ rd.complete = (rd.state = "done") /\ rd.state = "trailer" /\ ~rd.bad
      /\ k = N /\ EndsWell(resp) /\ LineStart(w, z, c)
  BY DEF Decodes, AtTrailer
<1>2. w \in Seq(Byte) /\ N \in Nat /\ k \in Nat
  BY <1>1, WireParts, RespTypes
<1>3. OneBlank(w, z) /\ z \in Nat
  <2>1. /\ OneBlank(w, z) /\ LineAt(w, Off(resp, N), 0)
        /\ z = Off(resp, N) + Len(SizeLine[0]) + 2
    BY <1>1, TailFacts DEF EndsWell
  <2> DEFINE o == Off(resp, N)
             l == Len(SizeLine[0])
  <2>2. o \in Nat /\ l \in Nat
    BY <1>2, RespTypes, SizeLineFacts, SizeLineAssumption
  <2>3. z = o + l + 2
    BY <2>1
  <2> HIDE DEF o, l, z
  <2> QED BY <2>1, <2>2, <2>3
<1>4. x \in Readers(Byte) /\ SameText(rd, x)
  BY <1>1, OtherTurnTypes
<1>5. Framed(x) /\ Taken(x, resp, k)
  BY <1>1, <1>4, SameFraming DEF Taken, SameText
<1>6. rd.complete = FALSE /\ rd.bad = FALSE
  BY <1>1 DEF Readers
<1>t. /\ i = 0 => x = rd
      /\ i = 1 => x = [rd EXCEPT !.pending = After(p, 2), !.complete = TRUE, !.state = "done"]
      /\ i # 0 /\ i # 1 => x = [rd EXCEPT !.pending = After(p, i + 1)]
  BY DEF TrailerTurn
<1> HIDE DEF w, p, i, z
<1>7. /\ i = 0 => a < Len(w)
      /\ i = 1 => c + 2 = Len(w) /\ a = Len(w)
      /\ i > 1 => c + i + 1 <= a /\ LineStart(w, z, c + i + 1)
      /\ i \in Nat
  BY <1>1, <1>2, <1>3, LineTurns DEF i
<1>8. CASE i = 0
  BY <1>1, <1>2, <1>7, <1>8, <1>t DEF Moves, w
<1>9. CASE i = 1
  <2> DEFINE rest == After(p, 2)
             j == 2
             d == c + j
  <2>1. x = [rd EXCEPT !.pending = rest, !.complete = TRUE, !.state = "done"]
    BY <1>9, <1>t
  <2>2. j \in Nat /\ j > 0 /\ d <= a /\ d = Len(w) /\ a = d /\ d \in Nat
    BY <1>1, <1>7, <1>9
  <2>3. rest = Piece(w, d, a) /\ Len(rest) < Len(p)
    <3> HIDE DEF j
    <3>1. /\ After(Piece(w, c, a), j) = Piece(w, c + j, a)
          /\ Len(Piece(w, c + j, a)) < Len(Piece(w, c, a))
      BY <1>1, <1>2, <2>2, PieceShrinks
    <3> QED BY <1>1, <3>1 DEF j
  <2> HIDE DEF rest, x, d, j
  <2>4. x.pending = rest /\ x.state = "done" /\ x.bad = rd.bad /\ x.complete = TRUE
    BY <1>1, <2>1 DEF Readers
  <2>5. AtDone(x, resp, k, d)
    BY <1>1, <2>2, <2>4 DEF AtDone, w
  <2>6. Decodes(x, resp, k, d, a)
    <3>1. x.complete = (x.state = "done")
      BY <2>4
    <3> QED BY <1>1, <1>4, <1>5, <2>2, <2>3, <2>4, <2>5, <3>1 DEF Decodes, Place, w
  <2>7. x # rd
    BY <1>6, <2>4
  <2> QED BY <1>2, <2>2, <2>3, <2>4, <2>6, <2>7 DEF Moves, x, p
<1>10. CASE i > 1
  <2> DEFINE j == i + 1
             rest == After(p, j)
             d == c + j
  <2>1. x = [rd EXCEPT !.pending = rest]
    BY <1>7, <1>10, <1>t
  <2>2. j \in Nat /\ j > 0 /\ d <= a /\ d = c + i + 1 /\ d \in Nat
    BY <1>1, <1>7, <1>10
  <2>3. LineStart(w, z, d)
    BY <1>7, <1>10, <2>2
  <2>4. rest = Piece(w, d, a) /\ Len(rest) < Len(p)
    <3> HIDE DEF j
    <3>1. /\ After(Piece(w, c, a), j) = Piece(w, c + j, a)
          /\ Len(Piece(w, c + j, a)) < Len(Piece(w, c, a))
      BY <1>1, <1>2, <2>2, PieceShrinks
    <3> QED BY <1>1, <3>1
  <2> HIDE DEF rest, x, d, j
  <2>5. x.pending = rest /\ x.state = "trailer" /\ x.bad = rd.bad /\ x.complete = rd.complete
    BY <1>1, <2>1 DEF Readers
  <2>6. AtTrailer(x, resp, k, d)
    BY <1>1, <2>3, <2>5 DEF AtTrailer, w, z
  <2>7. Decodes(x, resp, k, d, a)
    BY <1>1, <1>4, <1>5, <1>6, <2>2, <2>4, <2>5, <2>6 DEF Decodes, Place, w
  <2>8. x # rd
    <3>1. x.pending # p
      BY <2>4, <2>5
    <3> QED BY <3>1 DEF p
  <2> QED BY <1>2, <2>2, <2>4, <2>5, <2>7, <2>8 DEF Moves, x, p
<1>11. i = 0 \/ i = 1 \/ i > 1
  BY <1>7
<1> QED BY <1>8, <1>9, <1>10, <1>11

(* A chunk begins and ends within the wire.                                *)
LEMMA ChunkSpan ==
  ASSUME NEW resp, Chunked(resp), NEW k \in Nat, k < Len(resp.writes)
  PROVE  /\ Off(resp, k) \in Nat /\ DataAt(resp, k) \in Nat /\ Off(resp, k + 1) \in Nat
         /\ Off(resp, k) <= DataAt(resp, k) /\ DataAt(resp, k) + 2 < Off(resp, k + 1)
         /\ Off(resp, k + 1) <= Len(Wire(resp))
<1> DEFINE m == k + 1
           n == Len(resp.writes[m])
           o == Off(resp, k)
           q == Off(resp, m)
           d == DataAt(resp, k)
<1>1. /\ n \in Nat \ {0} /\ o \in Nat /\ d \in Nat /\ q \in Nat /\ o <= d
      /\ q = d + n + 2 /\ q <= Len(Wire(resp))
  <2>1. HoldsChunk(resp, k)
    BY ChunkAt
  <2> QED BY <2>1 DEF HoldsChunk
<1> HIDE DEF n, o, q, d
<1>2. d + 2 < q
  BY <1>1
<1> QED BY <1>1, <1>2 DEF o, q, d

LEMMA OffInWire ==
  ASSUME NEW resp, Chunked(resp), NEW k \in 0..Len(resp.writes)
  PROVE  Off(resp, k) \in Nat /\ Off(resp, k) <= Len(Wire(resp))
<1> DEFINE N == Len(resp.writes)
<1>1. N \in Nat /\ Off(resp, k) \in Nat /\ Len(resp.tail) \in Nat
  BY RespTypes
<1>2. CASE k = N
  <2>1. Len(Wire(resp)) = Off(resp, N) + Len(resp.tail)
    BY WireParts
  <2> HIDE DEF N
  <2> QED BY <1>1, <1>2, <2>1
<1>3. CASE k < N
  <2>1. /\ Off(resp, k) <= DataAt(resp, k) /\ DataAt(resp, k) + 2 < Off(resp, k + 1)
        /\ Off(resp, k + 1) <= Len(Wire(resp)) /\ DataAt(resp, k) \in Nat
        /\ Off(resp, k + 1) \in Nat
    BY <1>1, <1>3, ChunkSpan
  <2>2. Len(Wire(resp)) \in Nat
    BY WireParts, LenProperties
  <2> DEFINE o == Off(resp, k)
             d == DataAt(resp, k)
             q == Off(resp, k + 1)
             W == Len(Wire(resp))
  <2>3. o \in Nat /\ d \in Nat /\ q \in Nat /\ W \in Nat /\ o <= d /\ d + 2 < q /\ q <= W
    BY <1>1, <2>1, <2>2
  <2> HIDE DEF o, d, q, W
  <2>4. o <= W
    BY <2>3
  <2> QED BY <1>1, <2>4 DEF o, W
<1> QED BY <1>1, <1>2, <1>3

(* Each turn goes from one place of the decoder to another.                *)
LEMMA TurnMoves ==
  ASSUME NEW resp, Chunked(resp), NEW rd, NEW k, NEW c, NEW a,
         Decodes(rd, resp, k, c, a)
  PROVE  Moves(rd, Turn(rd), resp, a)
<1>1. rd \in Readers(Byte) /\ Place(rd, resp, k, c) /\ c \in Nat /\ k \in Nat
  <2>1. k \in 0..Len(resp.writes) /\ rd \in Readers(Byte) /\ Place(rd, resp, k, c) /\ c \in Nat
    BY DEF Decodes
  <2> QED BY <2>1, RespTypes
<1>2. CASE Turn(rd) = rd
  BY <1>1, <1>2 DEF Moves
<1>3. CASE ~rd.bad /\ AtSize(rd, resp, k, c)
  <2>1. Turn(rd) = SizeTurn(rd)
    BY <1>1, <1>3, TurnCases DEF AtSize
  <2> QED BY <1>3, <2>1, SizeTurnMoves
<1>4. CASE AtData(rd, resp, k, c)
  <2>1. Turn(rd) = DataTurn(rd)
    BY <1>1, <1>4, TurnCases DEF AtData
  <2> QED BY <1>4, <2>1, DataTurnMoves
<1>5. CASE ~rd.bad /\ AtCrlf(rd, resp, k, c)
  <2>1. Turn(rd) = CrlfTurn(rd)
    BY <1>1, <1>5, TurnCases DEF AtCrlf
  <2> QED BY <1>5, <2>1, CrlfTurnMoves
<1>6. CASE AtTrailer(rd, resp, k, c)
  <2>1. Turn(rd) = TrailerTurn(rd)
    BY <1>1, <1>6, TurnCases DEF AtTrailer
  <2> QED BY <1>6, <2>1, TrailerTurnMoves
<1>7. CASE rd.bad
  BY <1>1, <1>2, <1>7, TurnCases
<1>8. CASE AtDone(rd, resp, k, c)
  <2>1. Turn(rd) = rd
    BY <1>1, <1>8, TurnCases DEF AtDone
  <2> QED BY <1>2, <2>1
<1> QED BY <1>1, <1>3, <1>4, <1>5, <1>6, <1>7, <1>8 DEF Place

(* Where the loop has come to its end: the writes that have arrived.       *)
Stuck(rd, resp, k, a) ==
  /\ Off(resp, k) <= a + 2 \/ k = 0
  /\ k < Len(resp.writes) => a + 2 < Off(resp, k + 1)
  /\ rd.complete <=> a = Len(Wire(resp)) /\ EndsWell(resp)

(* A decoder that stands still has taken all that has come.                *)
LEMMA StuckFacts ==
  ASSUME NEW resp, Chunked(resp), NEW rd, NEW k, NEW c, NEW a,
         Decodes(rd, resp, k, c, a), Turn(rd) = rd
  PROVE  Stuck(rd, resp, k, a)
<1> DEFINE N == Len(resp.writes)
           W == Len(Wire(resp))
           o == Off(resp, k)
           d == DataAt(resp, k)
           q == Off(resp, k + 1)
<1>1. /\ rd \in Readers(Byte) /\ Place(rd, resp, k, c) /\ k \in 0..N
      /\ c \in Nat /\ a \in Nat /\ c <= a /\ a <= W
      /\ rd.complete = (rd.state = "done") /\ rd.bad \in BOOLEAN
  BY ReaderFields DEF Decodes
<1>2. N \in Nat /\ k \in Nat /\ W \in Nat /\ o \in Nat /\ o <= W
  <2>1. N \in Nat /\ k \in 0..N
    BY <1>1, RespTypes
  <2>2. W \in Nat
    BY WireParts, LenProperties
  <2> QED BY <2>1, <2>2, OffInWire
<1>3. k < N => d \in Nat /\ q \in Nat /\ o <= d /\ d + 2 < q /\ q <= W
  BY <1>2, ChunkSpan
<1>4. SUFFICES /\ o <= a + 2
               /\ k < N => a + 2 < q
               /\ rd.complete <=> a = W /\ EndsWell(resp)
  BY DEF Stuck
<1>5. k < N \/ k = N
  BY <1>1, <1>2
<1> HIDE DEF N, W, o, d, q
<1>n. /\ c \in Nat /\ a \in Nat /\ c <= a /\ a <= W
      /\ N \in Nat /\ k \in Nat /\ W \in Nat /\ o \in Nat /\ o <= W
  BY <1>1, <1>2
<1>s. /\ k < N /\ a < d => a + 2 < q /\ a # W
      /\ k < N /\ a + 2 < q => a # W
      /\ a < o => a # W
      /\ k < N /\ a < o => a + 2 < q
  BY <1>n, <1>3
<1>p. /\ c = o => o <= a + 2
      /\ c + 2 = o => o <= a + 2
      /\ k < N /\ c = d => o <= a + 2
      /\ k = N => ~(k < N)
      /\ a < W => a # W
  BY <1>n, <1>3
<1>6. CASE ~rd.bad /\ AtSize(rd, resp, k, c)
  <2>1. Turn(rd) = SizeTurn(rd) /\ rd.state = "size" /\ c = o
    BY <1>1, <1>6, TurnCases DEF AtSize, o
  <2>2. /\ k < N => a < d
        /\ k = N /\ EndsWell(resp) => a < LinesFrom(resp)
    <3>1. IF k < N THEN a < d ELSE IsPrefix(LastSize, resp.tail) => a < LinesFrom(resp)
      BY <1>6, <2>1, SizeTurnMoves DEF N, d
    <3>2. ~(k < N /\ k = N)
      BY <1>2
    <3> QED BY <3>1, <3>2 DEF EndsWell
  <2>3. CASE k < N
    <3>1. a + 2 < q /\ a # W /\ o <= a + 2
      BY <1>s, <1>p, <2>1, <2>2, <2>3
    <3> QED BY <1>1, <2>1, <3>1
  <2>4. CASE k = N
    <3>1. ~(k < N) /\ o <= a + 2
      BY <1>p, <2>1, <2>4
    <3>2. EndsWell(resp) => a # W
      <4>1. SUFFICES ASSUME EndsWell(resp) PROVE a # W
        OBVIOUS
      <4> DEFINE z == LinesFrom(resp)
                 l == Len(SizeLine[0])
                 f == Off(resp, N)
      <4>2. z = f + l + 2 /\ z + 2 <= W /\ l \in Nat /\ f \in Nat
        BY <1>2, <4>1, TailFacts, SizeLineFacts, SizeLineAssumption, RespTypes DEF EndsWell, W, N
      <4>3. a < z
        BY <2>2, <2>4, <4>1
      <4> HIDE DEF z, l, f
      <4> QED BY <1>n, <4>2, <4>3
    <3> QED BY <1>1, <2>1, <3>1, <3>2
  <2> QED BY <1>5, <2>3, <2>4
<1>7. CASE rd.bad /\ AtSize(rd, resp, k, c)
  <2>1. rd.state = "size" /\ c = o /\ k = N /\ ~EndsWell(resp)
    BY <1>7 DEF AtSize, o, N, EndsWell
  <2>2. ~(k < N) /\ o <= a + 2
    BY <1>p, <2>1
  <2> QED BY <1>1, <2>1, <2>2
<1>8. CASE AtData(rd, resp, k, c)
  <2>1. Turn(rd) = DataTurn(rd) /\ rd.state = "data" /\ k < N /\ c = d
    BY <1>1, <1>8, TurnCases DEF AtData, N, d
  <2>2. a + 2 < q
    BY <1>8, <2>1, DataTurnMoves DEF q
  <2>3. a # W /\ o <= a + 2
    BY <1>s, <1>p, <2>1, <2>2
  <2> QED BY <1>1, <2>1, <2>2, <2>3
<1>9. CASE ~rd.bad /\ AtCrlf(rd, resp, k, c)
  <2>1. Turn(rd) = CrlfTurn(rd) /\ rd.state = "crlf" /\ c + 2 = o
    BY <1>1, <1>9, TurnCases DEF AtCrlf, o
  <2>2. a < o
    BY <1>9, <2>1, CrlfTurnMoves DEF o
  <2>3. a # W /\ o <= a + 2
    BY <1>s, <1>p, <2>1, <2>2
  <2>4. k < N => a + 2 < q
    BY <1>s, <2>2
  <2> QED BY <1>1, <2>1, <2>3, <2>4
<1>10. CASE rd.bad /\ AtCrlf(rd, resp, k, c)
  <2>1. rd.state = "crlf" /\ c + 2 = o /\ k = N /\ ~EndsWell(resp)
    BY <1>10 DEF AtCrlf, o, N, EndsWell
  <2>2. ~(k < N) /\ o <= a + 2
    BY <1>p, <2>1
  <2> QED BY <1>1, <2>1, <2>2
<1>11. CASE AtTrailer(rd, resp, k, c)
  <2> DEFINE z == LinesFrom(resp)
             l == Len(SizeLine[0])
  <2>1. /\ Turn(rd) = TrailerTurn(rd) /\ rd.state = "trailer" /\ k = N
        /\ EndsWell(resp) /\ z <= c
    BY <1>1, <1>11, TurnCases DEF AtTrailer, N, LineStart
  <2>2. a < W
    BY <1>11, <2>1, TrailerTurnMoves DEF W
  <2>3. z = o + l + 2 /\ l \in Nat
    BY <2>1, TailFacts, SizeLineFacts, SizeLineAssumption DEF EndsWell, o, N
  <2> HIDE DEF z, l
  <2>4. z <= c /\ k = N
    BY <2>1
  <2>5. o <= a + 2 /\ a # W /\ ~(k < N)
    BY <1>n, <1>p, <2>2, <2>3, <2>4
  <2> QED BY <1>1, <2>1, <2>5
<1>12. CASE AtDone(rd, resp, k, c)
  <2>1. rd.state = "done" /\ k = N /\ EndsWell(resp) /\ c = W
    BY <1>12 DEF AtDone, N, W
  <2>2. a = W /\ o <= a + 2 /\ ~(k < N)
    BY <1>1, <1>2, <2>1
  <2> QED BY <1>1, <2>1, <2>2
<1> QED BY <1>1, <1>6, <1>7, <1>8, <1>9, <1>10, <1>11, <1>12 DEF Place

(* The readers that have decoded the wire as far as it has come.           *)
DecodersAt(resp, a) == {rd \in Readers(Byte) : \E k, c \in Nat : Decodes(rd, resp, k, c, a)}

(* The loop, a push() and a new reader decode.                             *)
LEMMA LoopDecodes ==
  ASSUME NEW resp, Chunked(resp), NEW a, NEW rd \in DecodersAt(resp, a)
  PROVE  Loop(rd) \in DecodersAt(resp, a) /\ Turn(Loop(rd)) = Loop(rd)
<1> DEFINE D == DecodersAt(resp, a)
<1>1. D \subseteq Readers(Byte)
  BY DEF DecodersAt
<1>2. ASSUME NEW y \in D PROVE Moves(y, Turn(y), resp, a)
  <2>1. PICK k \in Nat, c \in Nat : Decodes(y, resp, k, c, a)
    BY DEF DecodersAt
  <2> QED BY <2>1, TurnMoves
<1>3. Closed(D)
  <2>1. SUFFICES ASSUME NEW y \in D PROVE Turn(y) \in D
    BY DEF Closed
  <2>2. PICK k \in Nat, c \in Nat : Decodes(Turn(y), resp, k, c, a)
    BY <1>2 DEF Moves
  <2> QED BY <2>2 DEF DecodersAt, Decodes
<1>4. Ends(D)
  BY <1>2 DEF Ends, Moves
<1> HIDE DEF D
<1>5. Loop(rd) \in D /\ Turn(Loop(rd)) = Loop(rd)
  <2>1. rd \in D
    BY DEF D
  <2> QED BY <1>1, <1>3, <1>4, <2>1, LoopStays, LoopEnds
<1> QED BY <1>5 DEF D

LEMMA PushDecodes ==
  ASSUME NEW resp, Chunked(resp), NEW a \in Nat, NEW b \in Nat, a <= b, b <= Len(Wire(resp)),
         NEW rd \in DecodersAt(resp, a)
  PROVE  /\ Push(rd, Piece(Wire(resp), a, b)) \in DecodersAt(resp, b)
         /\ Turn(Push(rd, Piece(Wire(resp), a, b))) = Push(rd, Piece(Wire(resp), a, b))
<1> DEFINE w == Wire(resp)
           bytes == Piece(w, a, b)
           more == rd.pending \o bytes
           x == [rd EXCEPT !.pending = more]
<1>1. PICK k \in Nat, c \in Nat : Decodes(rd, resp, k, c, a)
  BY DEF DecodersAt
<1>2. /\ rd \in Readers(Byte) /\ Framed(rd) /\ Taken(rd, resp, k)
      /\ k \in 0..Len(resp.writes) /\ c <= a
      /\ rd.pending = Piece(w, c, a) /\ rd.complete = (rd.state = "done")
      /\ Place(rd, resp, k, c)
  BY <1>1 DEF Decodes
<1>3. w \in Seq(Byte)
  BY WireParts
<1>4. rd.state # "identity"
  BY <1>2 DEF Place, AtSize, AtData, AtCrlf, AtTrailer, AtDone
<1>5. Push(rd, bytes) = Loop(x)
  BY <1>4 DEF Push
<1>6. more = Piece(w, c, b) /\ c <= b /\ b <= Len(w)
  <2>1. c <= b /\ b <= Len(w)
    BY <1>2
  <2> HIDE DEF w
  <2>2. Piece(w, c, a) \o Piece(w, a, b) = Piece(w, c, b)
    BY <1>2, <1>3, <2>1, PieceConcat
  <2> QED BY <1>2, <2>1, <2>2
<1>7. more \in Seq(Byte)
  <2> HIDE DEF w
  <2>1. Piece(w, c, b) \in Seq(Byte)
    BY <1>3, <1>6, PieceFacts
  <2> QED BY <1>6, <2>1
<1> HIDE DEF more
<1>8. /\ x \in Readers(Byte) /\ SameText(rd, x) /\ x.pending = more /\ x.state = rd.state
      /\ x.need = rd.need /\ x.bad = rd.bad /\ x.complete = rd.complete
  BY <1>2, <1>7 DEF Readers, SameText
<1> HIDE DEF x
<1>9. Framed(x) /\ Taken(x, resp, k)
  BY <1>2, <1>8, SameFraming DEF Taken, SameText
<1>10. Place(x, resp, k, c)
  BY <1>2, <1>8 DEF Place, AtSize, AtData, AtCrlf, AtTrailer, AtDone
<1>11. Decodes(x, resp, k, c, b)
  BY <1>2, <1>6, <1>8, <1>9, <1>10 DEF Decodes
<1>12. x \in DecodersAt(resp, b)
  BY <1>8, <1>11 DEF DecodersAt
<1> QED BY <1>5, <1>12, LoopDecodes

LEMMA NewReaderDecodes ==
  ASSUME NEW resp, Chunked(resp)
  PROVE  /\ NewReader(TRUE) \in DecodersAt(resp, Len(resp.head))
         /\ Len(resp.head) \in Nat /\ Len(resp.head) <= Len(Wire(resp))
<1> DEFINE w == Wire(resp)
           h == Len(resp.head)
           rd == NewReader(TRUE)
           k == 0
<1>1. h \in Nat /\ w \in Seq(Byte) /\ Len(resp.writes) \in Nat
  BY RespTypes, WireParts
<1>2. Off(resp, k) = h
  <2>1. [j \in 1..0 |-> Encoded(resp.writes[j], Crlf(resp, j))] = <<>>
    OBVIOUS
  <2>2. Chunks(resp, k) = <<>>
    BY <2>1, FlattenEmpty DEF Chunks
  <2>3. Off(resp, k) = h + 0
    BY <2>2 DEF Off
  <2> QED BY <1>1, <2>3
<1>3. k \in 0..Len(resp.writes) /\ k \in Nat
  BY <1>1
<1>4. h <= Len(w)
  <2> HIDE DEF k
  <2> QED BY <1>2, <1>3, OffInWire
<1>5. rd \in Readers(Byte) /\ Framed(rd)
  BY NewReaderType DEF FramedReaders
<1>6. /\ rd.state = "size" /\ rd.pending = <<>> /\ rd.frames = <<>> /\ rd.carry = <<>>
      /\ rd.chunkSizes = <<>> /\ rd.complete = FALSE /\ rd.bad = FALSE
  BY DEF NewReader
<1> HIDE DEF rd
<1>7. Taken(rd, resp, k)
  <2>1. [j \in 1..0 |-> resp.writes[j]] = <<>> /\ [j \in 1..0 |-> Len(resp.writes[j])] = <<>>
    OBVIOUS
  <2>2. Text(rd) = <<>>
    BY <1>6, FlattenEmpty DEF Text
  <2> QED BY <1>6, <2>1, <2>2, FlattenEmpty DEF Taken
<1>8. Piece(w, h, h) = <<>>
  <2> HIDE DEF w, h
  <2>1. Piece(w, h, h) \in Seq(Byte) /\ Len(Piece(w, h, h)) = h - h
    BY <1>1, <1>4, PieceFacts
  <2>2. h - h = 0
    BY <1>1
  <2> QED BY <2>1, <2>2, EmptySeq
<1>9. AtSize(rd, resp, k, h)
  <2>1. k = Len(resp.writes) => ~resp.broken
    <3>1. Len(resp.writes) = 0 => resp.writes = <<>>
      BY RespTypes, EmptySeq
    <3> QED BY <3>1, ResponseAssumption DEF Chunked
  <2> QED BY <1>2, <1>6, <2>1 DEF AtSize
<1>10. Decodes(rd, resp, k, h, h)
  <2>1. rd.complete = (rd.state = "done")
    BY <1>6
  <2> QED BY <1>1, <1>3, <1>4, <1>5, <1>6, <1>7, <1>8, <1>9, <2>1 DEF Decodes, Place
<1> QED BY <1>1, <1>3, <1>4, <1>5, <1>10 DEF DecodersAt, rd

(* The end of a head, byte by byte.                                        *)
LEMMA HeadEndIs ==
  ASSUME NEW s \in Seq(Byte), NEW i \in Nat
  PROVE  i \in HeadEnds(s) <=> /\ i \in 1..(Len(s) - 3) /\ s[i] = "r" /\ s[i + 1] = "n"
                               /\ s[i + 2] = "r" /\ s[i + 3] = "n"
<1> SUFFICES ASSUME i \in 1..(Len(s) - 3)
             PROVE  SubSeq(s, i, i + 3) = CRLF \o CRLF
                      <=> s[i] = "r" /\ s[i + 1] = "n" /\ s[i + 2] = "r" /\ s[i + 3] = "n"
  BY DEF HeadEnds
<1> DEFINE j == i + 3
           str == SubSeq(s, i, j)
           blank == CRLF \o CRLF
<1>1. /\ blank \in Seq(Byte) /\ Len(blank) = 4
      /\ blank[1] = "r" /\ blank[2] = "n" /\ blank[3] = "r" /\ blank[4] = "n"
  <2>1. blank \in Seq(Byte) /\ IsJoin(blank, CRLF, CRLF)
    BY Literals, Joined
  <2> HIDE DEF blank
  <2>2. blank[1] = CRLF[1] /\ blank[2] = CRLF[2] /\ blank[2 + 1] = CRLF[1] /\ blank[2 + 2] = CRLF[2]
    BY <2>1, Literals DEF IsJoin
  <2>3. 2 + 1 = 3 /\ 2 + 2 = 4
    OBVIOUS
  <2> QED BY <2>1, <2>2, <2>3, Literals DEF IsJoin
<1>2. \A x \in i..j : s[x] \in Byte
  OBVIOUS
<1>3. /\ str \in Seq(Byte)
      /\ Len(str) = IF i <= j THEN j - i + 1 ELSE 0
      /\ \A x \in 1..(j - i + 1) : str[x] = s[i + x - 1]
  <2>1. i \in Nat /\ j \in Nat
    OBVIOUS
  <2> HIDE DEF j
  <2> QED BY <1>2, <2>1, SubSeqProperties
<1> HIDE DEF str, blank
<1>4. Len(str) = 4 /\ str[1] = s[i] /\ str[2] = s[i + 1] /\ str[3] = s[i + 2] /\ str[4] = s[i + 3]
  <2>1. /\ j - i + 1 = 4 /\ i <= j /\ 1 \in 1..4 /\ 2 \in 1..4 /\ 3 \in 1..4 /\ 4 \in 1..4
        /\ i + 1 - 1 = i /\ i + 2 - 1 = i + 1 /\ i + 3 - 1 = i + 2 /\ i + 4 - 1 = i + 3
    OBVIOUS
  <2> HIDE DEF j
  <2> QED BY <1>3, <2>1
<1>5. str = blank <=> str[1] = "r" /\ str[2] = "n" /\ str[3] = "r" /\ str[4] = "n"
  <2>1. ASSUME str[1] = "r", str[2] = "n", str[3] = "r", str[4] = "n" PROVE str = blank
    <3>1. \A x \in 1..4 : x = 1 \/ x = 2 \/ x = 3 \/ x = 4
      OBVIOUS
    <3>2. \A x \in 1..Len(str) : str[x] = blank[x]
      BY <1>1, <1>4, <2>1, <3>1
    <3> QED BY <1>1, <1>3, <1>4, <3>2, SeqEqual
  <2> QED BY <1>1, <2>1
<1> QED BY <1>4, <1>5 DEF str, blank

(* The head ends where it ends, however much has come after it.            *)
LEMMA HeadFound ==
  ASSUME NEW resp, Chunked(resp), NEW a \in Nat, a <= Len(Wire(resp)),
         NEW all, all = Piece(Wire(resp), 0, a), HeadEnds(all) # {}
  PROVE  /\ Len(resp.head) <= a
         /\ After(all, Least(HeadEnds(all)) + 3) = Piece(Wire(resp), Len(resp.head), a)
<1> DEFINE w == Wire(resp)
           hd == resp.head
           h == Len(hd)
           e == Least(HeadEnds(all))
           z == 0
<1>1. /\ w \in Seq(Byte) /\ hd \in Seq(Byte) /\ h \in Nat
      /\ \A i \in 1..h : w[i] = hd[i]
  BY RespTypes, WireParts
<1>2. h <= Len(w)
  BY NewReaderDecodes
<1>3. all \in Seq(Byte) /\ Len(all) = a /\ \A i \in 1..a : all[i] = w[i]
  <2> HIDE DEF w
  <2>1. z \in Nat /\ z <= a /\ a - z = a /\ \A i \in 1..a : z + i = i
    OBVIOUS
  <2>2. all = Piece(w, z, a) /\ a <= Len(w)
    BY DEF w
  <2> HIDE DEF z
  <2>3. /\ Piece(w, z, a) \in Seq(Byte) /\ Len(Piece(w, z, a)) = a - z
        /\ \A i \in 1..(a - z) : Piece(w, z, a)[i] = w[z + i]
    <3>1. w \in Seq(Byte) /\ z \in Nat /\ a \in Nat /\ z <= a /\ a <= Len(w)
      BY <1>1, <2>1, <2>2
    <3> QED BY <3>1, PieceFacts
  <2> QED BY <2>1, <2>2, <2>3
<1>4. HeadEnds(hd) = {h - 3}
  BY ResponseAssumption DEF Chunked
<1>5. h - 3 \in 1..(h - 3) /\ h >= 4
  <2>1. h - 3 \in HeadEnds(hd)
    BY <1>4
  <2>2. h - 3 \in 1..(h - 3)
    BY <2>1 DEF HeadEnds
  <2> QED BY <1>1, <2>2
<1>6. HeadEnds(all) \subseteq Nat \ {0}
  BY DEF HeadEnds
<1>7. e \in HeadEnds(all) /\ (\A j \in HeadEnds(all) : e <= j) /\ e \in Nat
  BY <1>6, LeastFacts
<1> HIDE DEF w, hd, h, e
<1>8. e \in 1..(a - 3) /\ all[e] = "r" /\ all[e + 1] = "n" /\ all[e + 2] = "r" /\ all[e + 3] = "n"
  BY <1>3, <1>7, HeadEndIs
<1>9. e >= h - 3
  <2>1. SUFFICES ASSUME e < h - 3 PROVE FALSE
    BY <1>1, <1>7
  <2>2. /\ e \in 1..h /\ e + 1 \in 1..h /\ e + 2 \in 1..h /\ e + 3 \in 1..h
        /\ e \in 1..a /\ e + 1 \in 1..a /\ e + 2 \in 1..a /\ e + 3 \in 1..a
        /\ e \in 1..(h - 3)
    BY <1>1, <1>7, <1>8, <2>1
  <2>3. hd[e] = "r" /\ hd[e + 1] = "n" /\ hd[e + 2] = "r" /\ hd[e + 3] = "n"
    BY <1>1, <1>3, <1>8, <2>2
  <2>4. e \in HeadEnds(hd)
    BY <1>1, <1>7, <2>2, <2>3, HeadEndIs DEF h
  <2> QED BY <1>1, <1>4, <1>7, <2>1, <2>4
<1>10. h <= a
  BY <1>1, <1>7, <1>8, <1>9
<1>11. e = h - 3
  <2> DEFINE f == h - 3
  <2>1. /\ f \in Nat /\ f \in 1..(a - 3) /\ f \in 1..a /\ f + 1 \in 1..a /\ f + 2 \in 1..a
        /\ f + 3 \in 1..a /\ f \in 1..h /\ f + 1 \in 1..h /\ f + 2 \in 1..h /\ f + 3 \in 1..h
    BY <1>1, <1>5, <1>10
  <2>2. f \in HeadEnds(hd)
    BY <1>4
  <2> HIDE DEF f
  <2>3. hd[f] = "r" /\ hd[f + 1] = "n" /\ hd[f + 2] = "r" /\ hd[f + 3] = "n"
    BY <1>1, <2>1, <2>2, HeadEndIs
  <2>4. all[f] = "r" /\ all[f + 1] = "n" /\ all[f + 2] = "r" /\ all[f + 3] = "n"
    BY <1>1, <1>3, <2>1, <2>3
  <2>5. f \in HeadEnds(all)
    BY <1>3, <2>1, <2>4, HeadEndIs
  <2>6. e <= f
    BY <1>7, <2>5
  <2> QED BY <1>1, <1>7, <1>9, <2>1, <2>6 DEF f
<1>12. After(all, e + 3) = Piece(w, h, a)
  <2>1. e + 3 = h /\ z \in Nat /\ z <= a /\ h \in 0..(a - z) /\ z + h = h
    BY <1>1, <1>10, <1>11
  <2>2. all = Piece(w, z, a) /\ a <= Len(w)
    BY DEF w
  <2> HIDE DEF z
  <2>3. w \in Seq(Byte) /\ z \in Nat /\ z <= a /\ a <= Len(w) /\ h \in 0..(a - z)
    BY <1>1, <2>1, <2>2
  <2>4. After(Piece(w, z, a), h) = Piece(w, z + h, a)
    BY <2>3, PieceAfter
  <2> QED BY <2>1, <2>2, <2>4
<1> QED BY <1>10, <1>12 DEF w, h, hd, e

-----------------------------------------------------------------------------
(* What has arrived, and what has been made of it.                         *)
Outcomes ==
  [op : {"frame", "body"}, index : Nat, how : {"ok", "error", "timeout"}]

StreamType ==
  /\ response \in Responses /\ at \in Nat /\ at <= Len(Wire(response))
  /\ sock \in {"connecting", "open", "ended", "destroyed", "closed"}
  /\ opening \in {"pending", "resolved", "rejected"}
  /\ buf \in Seq(Byte) /\ head \in BOOLEAN /\ reader \in FramedReaders(Byte)
  /\ failure \in BOOLEAN /\ waiter \subseteq 0..MaxFrame /\ bodyWaiter \in BOOLEAN
  /\ outcome \subseteq Outcomes

(* Before the head is known, nobody waits and its bytes are kept.          *)
HeadFirst ==
  ~head => /\ buf = Piece(Wire(response), 0, at)
           /\ waiter = {} /\ opening # "resolved"

(* A promise waits for a frame that has not come.                          *)
WaitingForMore ==
  ~reader.bad => \A i \in waiter : ~(Len(reader.frames) > i)

(* A decoder has come as far as the wire lets it.                          *)
DecodedSoFar ==
  head /\ response.framing = "chunked" =>
    reader \in DecodersAt(response, at) /\ Turn(reader) = reader

StreamInv ==
  /\ StreamType /\ HeadFirst /\ WaitingForMore /\ DecodedSoFar /\ FrameInHandIsGiven

(* The types of the wire and of what is cut from it.                       *)
LEMMA WireType ==
  ASSUME NEW resp \in Responses
  PROVE  Wire(resp) \in Seq(Byte) /\ Len(Wire(resp)) \in Nat
<1> DEFINE body == IF resp.framing = "chunked" THEN Chunks(resp, Len(resp.writes))
                   ELSE FlattenSeq(resp.writes)
           hd == resp.head
           tl == resp.tail
<1>1. hd \in Seq(Byte) /\ resp.writes \in Seq(Seq(Byte)) /\ tl \in Seq(Byte)
  BY ResponseAssumption
<1>2. body \in Seq(Byte)
  <2>1. CASE resp.framing = "chunked"
    <3>1. Chunked(resp) /\ Len(resp.writes) \in 0..Len(resp.writes)
      BY <1>1, <2>1, LenProperties DEF Chunked
    <3> QED BY <2>1, <3>1, EncodedWritesType
  <2>2. CASE resp.framing # "chunked"
    BY <1>1, <2>2, FlattenType
  <2> QED BY <2>1, <2>2
<1>3. Wire(resp) = hd \o body \o tl
  BY DEF Wire
<1> HIDE DEF body, hd, tl
<1>4. Wire(resp) \in Seq(Byte)
  <2>1. hd \o body \in Seq(Byte)
    BY <1>1, <1>2, ConcatProperties
  <2> DEFINE hb == hd \o body
  <2> HIDE DEF hb
  <2>2. hb \o tl \in Seq(Byte)
    BY <1>1, <2>1, ConcatProperties DEF hb
  <2> QED BY <1>3, <2>2 DEF hb
<1> QED BY <1>4, LenProperties

LEMMA WirePieces ==
  ASSUME NEW resp \in Responses, NEW a \in Nat, NEW b \in Nat, a <= b, b <= Len(Wire(resp))
  PROVE  /\ Piece(Wire(resp), a, b) \in Seq(Byte)
         /\ Piece(Wire(resp), 0, a) \o Piece(Wire(resp), a, b) = Piece(Wire(resp), 0, b)
         /\ Piece(Wire(resp), 0, b) \in Seq(Byte)
<1> DEFINE w == Wire(resp)
           z == 0
<1>1. w \in Seq(Byte) /\ z \in Nat /\ z <= a /\ z <= b /\ b <= Len(w)
  BY WireType
<1> HIDE DEF w, z
<1>2. Piece(w, a, b) \in Seq(Byte) /\ Piece(w, z, b) \in Seq(Byte)
  BY <1>1, PieceFacts
<1>3. Piece(w, z, a) \o Piece(w, a, b) = Piece(w, z, b)
  BY <1>1, PieceConcat
<1> QED BY <1>2, <1>3 DEF w, z

LEMMA AfterType ==
  ASSUME NEW s \in Seq(Byte), NEW i \in Nat
  PROVE  After(s, i) \in Seq(Byte)
<1> DEFINE j == i + 1
           n == Len(s)
<1>1. n \in Nat /\ j \in Nat
  OBVIOUS
<1>2. \A x \in j..n : s[x] \in Byte
  OBVIOUS
<1> HIDE DEF j, n
<1>3. SubSeq(s, j, n) \in Seq(Byte)
  BY <1>1, <1>2, SubSeqProperties DEF n, j
<1> QED BY <1>3 DEF After, j, n

LEMMA OutcomeTypes ==
  ASSUME waiter \subseteq 0..MaxFrame
  PROVE  /\ \A how \in {"ok", "error", "timeout"} :
              /\ FrameOutcome(how) \subseteq Outcomes /\ BodyOutcome(how) \subseteq Outcomes
              /\ \A o \in BodyOutcome(how) : o.op = "body"
              /\ \A o \in FrameOutcome(how) : o.op = "frame" /\ o.index \in waiter
         /\ \A op \in {"frame", "body"}, i \in Nat, how \in {"ok", "error", "timeout"} :
              /\ Settled(op, i, how) \in Outcomes
              /\ Settled(op, i, how).op = op /\ Settled(op, i, how).index = i
              /\ Settled(op, i, how).how = how
<1>1. waiter \subseteq Nat
  BY SizeLineAssumption
<1> QED BY <1>1 DEF FrameOutcome, BodyOutcome, Settled, Outcomes

(* drain(), of a reader that is now the connection's.                      *)
LEMMA Drained ==
  ASSUME waiter \subseteq 0..MaxFrame, bodyWaiter \in BOOLEAN, NEW rd \in Readers(Byte), Drain(rd)
  PROVE  /\ waiter' \subseteq waiter /\ bodyWaiter' \in BOOLEAN /\ outcome' \subseteq Outcomes
         /\ \A i \in waiter' : ~(Len(rd.frames) > i)
         /\ \A o \in outcome' : o.op = "frame" => o.how = "ok"
<1> DEFINE ready == {i \in waiter : Len(rd.frames) > i}
           whole == bodyWaiter /\ BodyComplete(rd, sock)
<1>1. /\ waiter' = waiter \ ready /\ bodyWaiter' = (bodyWaiter /\ ~whole)
      /\ outcome' = {Settled("frame", i, "ok") : i \in ready}
                      \cup (IF whole THEN BodyOutcome("ok") ELSE {})
  BY DEF Drain
<1>2. ready \subseteq Nat
  <2>1. waiter \subseteq Nat
    BY SizeLineAssumption
  <2> QED BY <2>1
<1>3. \A i \in waiter' : ~(Len(rd.frames) > i)
  BY <1>1
<1>4. \A o \in outcome' : o \in Outcomes /\ (o.op = "frame" => o.how = "ok")
  <2> TAKE o \in outcome'
  <2>1. CASE o \in {Settled("frame", i, "ok") : i \in ready}
    <3>1. PICK i \in ready : o = Settled("frame", i, "ok")
      BY <2>1
    <3> QED BY <1>2, <3>1, OutcomeTypes
  <2>2. CASE o \in BodyOutcome("ok")
    BY <2>2, OutcomeTypes
  <2> QED BY <1>1, <2>1, <2>2
<1> QED BY <1>1, <1>3, <1>4

LEMMA Rejected ==
  ASSUME waiter \subseteq 0..MaxFrame, RejectWaiters
  PROVE  /\ waiter' = {} /\ bodyWaiter' \in BOOLEAN /\ outcome' \subseteq Outcomes
         /\ \A o \in outcome' : o.op = "frame" => o.index \in waiter
<1>1. /\ waiter' = {} /\ bodyWaiter' = FALSE
      /\ outcome' = FrameOutcome("error") \cup BodyOutcome("error")
  BY DEF RejectWaiters
<1> QED BY <1>1, OutcomeTypes

(* The invariant at the start, and step by step.                           *)
LEMMA StreamStarts ==
  ASSUME StreamInit
  PROVE  StreamInv
<1>1. response \in Responses /\ at = 0 /\ sock = "connecting" /\ opening = "pending"
      /\ buf = <<>> /\ head = FALSE /\ reader = NewReader(FALSE) /\ failure = FALSE
      /\ waiter = {} /\ bodyWaiter = FALSE /\ outcome = {}
  BY DEF StreamInit
<1>2. NewReader(FALSE) \in FramedReaders(Byte)
  BY NewReaderType
<1>3. Len(Wire(response)) \in Nat
  BY <1>1, WireType
<1>4. StreamType
  <2>1. <<>> \in Seq(Byte) /\ 0 <= Len(Wire(response))
    BY <1>3
  <2> QED BY <1>1, <1>2, <2>1 DEF StreamType
<1>5. Piece(Wire(response), 0, 0) = <<>>
  <2> DEFINE w == Wire(response)
             z == 0
  <2>1. w \in Seq(Byte) /\ z \in Nat /\ z <= z /\ z <= Len(w) /\ z - z = 0
    BY <1>1, <1>3, WireType
  <2> HIDE DEF w, z
  <2>2. Piece(w, z, z) \in Seq(Byte) /\ Len(Piece(w, z, z)) = z - z
    BY <2>1, PieceFacts
  <2>3. Piece(w, z, z) = <<>>
    BY <2>1, <2>2, EmptySeq
  <2> QED BY <2>3 DEF w, z
<1>6. HeadFirst
  BY <1>1, <1>5 DEF HeadFirst
<1> QED BY <1>1, <1>4, <1>6
    DEF StreamInv, WaitingForMore, DecodedSoFar, FrameInHandIsGiven

(* What has been decoded stays decoded while nothing arrives.              *)
LEMMA StillDecoded ==
  ASSUME DecodedSoFar, UNCHANGED <<response, at, head, reader>>
  PROVE  DecodedSoFar'
BY DEF DecodedSoFar

LEMMA StillWaiting ==
  ASSUME WaitingForMore, reader' = reader, waiter' \subseteq waiter
  PROVE  WaitingForMore'
BY DEF WaitingForMore

LEMMA FramesCount ==
  ASSUME NEW rd \in FramedReaders(Byte)
  PROVE  rd \in Readers(Byte) /\ Len(rd.frames) \in Nat /\ rd.bad \in BOOLEAN
<1>1. rd \in Readers(Byte)
  BY DEF FramedReaders
<1>2. rd.frames \in Seq(Seq(Byte)) /\ rd.bad \in BOOLEAN
  BY <1>1, ReaderFields
<1> QED BY <1>1, <1>2, LenProperties

(* Whoever is turned away had waited for a frame that has not come.        *)
LEMMA TurnedAway ==
  ASSUME StreamType, WaitingForMore, reader' = reader,
         \A o \in outcome' : o.op = "frame" => o.index \in waiter
  PROVE  FrameInHandIsGiven'
<1>1. Len(reader.frames) \in Nat
  BY FramesCount DEF StreamType
<1>2. waiter \subseteq Nat
  BY SizeLineAssumption DEF StreamType
<1>3. SUFFICES ASSUME ~reader.bad, NEW o \in outcome', o.op = "frame"
               PROVE  Len(reader.frames) <= o.index
  BY DEF FrameInHandIsGiven
<1>4. o.index \in waiter /\ ~(Len(reader.frames) > o.index)
  BY <1>3 DEF WaitingForMore
<1> DEFINE n == Len(reader.frames)
           i == o.index
<1>5. n \in Nat /\ i \in Nat /\ ~(n > i)
  BY <1>1, <1>2, <1>4
<1> HIDE DEF n, i
<1>6. n <= i
  BY <1>5
<1> QED BY <1>6 DEF n, i

LEMMA SocketStep ==
  ASSUME StreamInv, Connect \/ End \/ Error \/ Close \/ OpenTimeout
  PROVE  StreamInv'
<1>1. StreamType /\ HeadFirst /\ WaitingForMore /\ DecodedSoFar
  BY DEF StreamInv
<1>2. UNCHANGED <<response, at, buf, head, reader>>
  BY DEF Connect, End, Error, Close, OpenTimeout
<1>3. DecodedSoFar'
  BY <1>1, <1>2, StillDecoded
<1>4. /\ sock' \in {"connecting", "open", "ended", "destroyed", "closed"}
      /\ opening' \in {"pending", "rejected"} \cup {opening} /\ failure' \in BOOLEAN
  BY <1>1 DEF Connect, End, Error, Close, OpenTimeout, Done, StreamType
<1>5. /\ waiter' \subseteq waiter /\ bodyWaiter' \in BOOLEAN /\ outcome' \subseteq Outcomes
      /\ \A o \in outcome' : o.op = "frame" => o.index \in waiter
  <2>1. waiter \subseteq 0..MaxFrame /\ bodyWaiter \in BOOLEAN
    BY <1>1 DEF StreamType
  <2>2. CASE RejectWaiters
    BY <2>1, <2>2, Rejected
  <2>3. CASE UNCHANGED <<waiter, bodyWaiter>> /\ outcome' = {}
    BY <2>1, <2>3
  <2> QED BY <2>2, <2>3 DEF Connect, End, Error, Close, OpenTimeout
<1>6. StreamType'
  BY <1>1, <1>2, <1>4, <1>5 DEF StreamType
<1>7. HeadFirst'
  BY <1>1, <1>2, <1>4, <1>5 DEF HeadFirst
<1>8. WaitingForMore'
  BY <1>1, <1>2, <1>5, StillWaiting
<1>9. FrameInHandIsGiven'
  BY <1>1, <1>2, <1>5, TurnedAway
<1> QED BY <1>3, <1>6, <1>7, <1>8, <1>9 DEF StreamInv

LEMMA CallerStep ==
  ASSUME StreamInv, Caller
  PROVE  StreamInv'
<1>1. StreamType /\ HeadFirst /\ WaitingForMore /\ DecodedSoFar
  BY DEF StreamInv
<1>2. waiter \subseteq 0..MaxFrame /\ bodyWaiter \in BOOLEAN /\ waiter \subseteq Nat
  BY <1>1, SizeLineAssumption DEF StreamType
<1>3. Len(reader.frames) \in Nat
  BY <1>1, FramesCount DEF StreamType
<1>4. UNCHANGED <<response, at, opening, buf, head, reader, failure>>
  BY DEF Caller, NextFrame, FrameTimeout, ReadBody, BodyTimeout, CallerClose
<1>5. DecodedSoFar'
  BY <1>1, <1>4, StillDecoded
<1>6. sock' \in {"connecting", "open", "ended", "destroyed", "closed"}
  BY <1>1 DEF StreamType, Caller, NextFrame, FrameTimeout, ReadBody, BodyTimeout, CallerClose
<1>7. SUFFICES /\ waiter' \subseteq 0..MaxFrame /\ bodyWaiter' \in BOOLEAN
               /\ outcome' \subseteq Outcomes
               /\ waiter' \subseteq waiter \/ (waiter' # {} /\ opening = "resolved")
               /\ WaitingForMore' /\ FrameInHandIsGiven'
  <2>1. StreamType'
    BY <1>1, <1>4, <1>6, <1>7 DEF StreamType
  <2>2. HeadFirst'
    BY <1>1, <1>4, <1>7 DEF HeadFirst
  <2> QED BY <1>5, <1>7, <2>1, <2>2 DEF StreamInv
<1>8. ASSUME NEW i \in 0..MaxFrame, NextFrame(i)
      PROVE  /\ waiter' \subseteq 0..MaxFrame /\ bodyWaiter' \in BOOLEAN
             /\ outcome' \subseteq Outcomes
             /\ waiter' \subseteq waiter \/ (waiter' # {} /\ opening = "resolved")
             /\ WaitingForMore' /\ FrameInHandIsGiven'
  <2>1. i \in Nat /\ opening = "resolved" /\ reader' = reader
    BY <1>8, SizeLineAssumption DEF NextFrame
  <2>2. CASE Len(reader.frames) > i /\ Answer("frame", i, "ok")
    <3>1. waiter' = waiter /\ bodyWaiter' = bodyWaiter /\ outcome' = {Settled("frame", i, "ok")}
      BY <2>2 DEF Answer
    <3>2. Settled("frame", i, "ok") \in Outcomes /\ Settled("frame", i, "ok").how = "ok"
      BY <1>2, <2>1, OutcomeTypes
    <3>3. FrameInHandIsGiven'
      BY <3>1, <3>2 DEF FrameInHandIsGiven
    <3> QED BY <1>1, <1>2, <2>1, <3>1, <3>2, <3>3, StillWaiting
  <2>3. CASE Len(reader.frames) <= i /\ Answer("frame", i, "error")
    <3>1. waiter' = waiter /\ bodyWaiter' = bodyWaiter /\ outcome' = {Settled("frame", i, "error")}
      BY <2>3 DEF Answer
    <3>2. Settled("frame", i, "error") \in Outcomes /\ Settled("frame", i, "error").index = i
      BY <1>2, <2>1, OutcomeTypes
    <3>3. FrameInHandIsGiven'
      BY <2>1, <2>3, <3>1, <3>2 DEF FrameInHandIsGiven
    <3> QED BY <1>1, <1>2, <2>1, <3>1, <3>2, <3>3, StillWaiting
  <2>4. CASE ~(Len(reader.frames) > i) /\ Wait(i)
    <3> DEFINE whole == bodyWaiter /\ BodyComplete(reader, sock)
    <3>1. /\ waiter' = {i} /\ bodyWaiter' = (bodyWaiter /\ ~whole)
          /\ outcome' = IF whole THEN BodyOutcome("ok") ELSE {}
      BY <2>4 DEF Wait
    <3>2. outcome' \subseteq Outcomes /\ \A o \in outcome' : o.op = "body"
      <4>1. outcome' = BodyOutcome("ok") \/ outcome' = {}
        BY <3>1
      <4> QED BY <1>2, <4>1, OutcomeTypes
    <3>3. WaitingForMore'
      BY <2>1, <2>4, <3>1 DEF WaitingForMore
    <3>4. FrameInHandIsGiven'
      BY <3>2 DEF FrameInHandIsGiven
    <3>5. bodyWaiter' \in BOOLEAN
      BY <3>1
    <3> QED BY <1>8, <2>1, <3>1, <3>2, <3>3, <3>4, <3>5
  <2>5. \/ Len(reader.frames) > i /\ Answer("frame", i, "ok")
        \/ Len(reader.frames) <= i /\ Answer("frame", i, "error")
        \/ ~(Len(reader.frames) > i) /\ Wait(i)
    <3>1. Len(reader.frames) > i \/ Len(reader.frames) <= i
      BY <1>3, <2>1
    <3>2. ~(Len(reader.frames) > i /\ Len(reader.frames) <= i)
      BY <1>3, <2>1
    <3> QED BY <1>8, <3>1, <3>2 DEF NextFrame
  <2> QED BY <2>2, <2>3, <2>4, <2>5
<1>9. ASSUME FrameTimeout
      PROVE  /\ waiter' \subseteq 0..MaxFrame /\ bodyWaiter' \in BOOLEAN
             /\ outcome' \subseteq Outcomes
             /\ waiter' \subseteq waiter \/ (waiter' # {} /\ opening = "resolved")
             /\ WaitingForMore' /\ FrameInHandIsGiven'
  <2>1. waiter' = {} /\ bodyWaiter' = bodyWaiter /\ outcome' = FrameOutcome("timeout")
        /\ reader' = reader
    BY <1>9 DEF FrameTimeout
  <2>2. outcome' \subseteq Outcomes /\ \A o \in outcome' : o.op = "frame" => o.index \in waiter
    BY <1>2, <2>1, OutcomeTypes
  <2>3. FrameInHandIsGiven'
    BY <1>1, <2>1, <2>2, TurnedAway
  <2>4. WaitingForMore'
    BY <1>1, <2>1, StillWaiting
  <2> QED BY <1>2, <2>1, <2>2, <2>3, <2>4
<1>10. ASSUME ReadBody \/ BodyTimeout \/ CallerClose
       PROVE  /\ waiter' \subseteq 0..MaxFrame /\ bodyWaiter' \in BOOLEAN
              /\ outcome' \subseteq Outcomes
              /\ waiter' \subseteq waiter \/ (waiter' # {} /\ opening = "resolved")
              /\ WaitingForMore' /\ FrameInHandIsGiven'
  <2>1. waiter' = waiter /\ reader' = reader
    BY <1>10 DEF ReadBody, BodyTimeout, CallerClose, Answer
  <2>2. bodyWaiter' \in BOOLEAN
    BY <1>2, <1>10 DEF ReadBody, BodyTimeout, CallerClose, Answer
  <2>3. \/ outcome' = {} \/ outcome' = BodyOutcome("timeout")
        \/ outcome' = {Settled("body", 0, "ok")} \/ outcome' = {Settled("body", 0, "error")}
    BY <1>10 DEF ReadBody, BodyTimeout, CallerClose, Answer
  <2>4. outcome' \subseteq Outcomes /\ \A o \in outcome' : o.op = "body"
    <3> DEFINE z == 0
    <3>1. z \in Nat
      OBVIOUS
    <3>2. \/ outcome' = {} \/ outcome' = BodyOutcome("timeout")
          \/ outcome' = {Settled("body", z, "ok")} \/ outcome' = {Settled("body", z, "error")}
      BY <2>3
    <3> HIDE DEF z
    <3>3. \A how \in {"ok", "error"} :
            Settled("body", z, how) \in Outcomes /\ Settled("body", z, how).op = "body"
      BY <1>2, <3>1, OutcomeTypes
    <3> QED BY <1>2, <3>2, <3>3, OutcomeTypes
  <2>5. FrameInHandIsGiven'
    BY <2>4 DEF FrameInHandIsGiven
  <2>6. WaitingForMore'
    BY <1>1, <2>1, StillWaiting
  <2> QED BY <1>2, <2>1, <2>2, <2>4, <2>5, <2>6
<1> QED BY <1>8, <1>9, <1>10 DEF Caller

(* The bytes of a `data' event are the next piece of the answer.           *)
LEMMA NextPiece ==
  ASSUME StreamType, NEW k \in 1..Len(Wire(response)), Data(k)
  PROVE  /\ at' = at + k /\ at' \in Nat /\ at <= at' /\ at' <= Len(Wire(response))
         /\ response' = response /\ sock = "open"
         /\ IF head THEN BodyData(Piece(Wire(response), at, at'))
            ELSE HeadData(Piece(Wire(response), at, at'))
<1>1. at \in Nat /\ k \in Nat
  BY DEF StreamType
<1>2. at' = at + k /\ at + k <= Len(Wire(response)) /\ response' = response /\ sock = "open"
  BY DEF Data
<1>3. IF head THEN BodyData(Piece(Wire(response), at, at'))
      ELSE HeadData(Piece(Wire(response), at, at'))
  BY <1>2 DEF Data, Piece
<1> QED BY <1>1, <1>2, <1>3

(* A decoder that is handed over, and a drain() or a rejection with it.    *)
LEMMA HandedOver ==
  ASSUME StreamInv, reader' \in FramedReaders(Byte),
         \/ ~reader'.bad /\ Drain(reader')
         \/ reader'.bad /\ RejectWaiters
         \/ reader'.bad /\ outcome' = {} /\ UNCHANGED <<waiter, bodyWaiter>>
  PROVE  /\ waiter' \subseteq waiter /\ bodyWaiter' \in BOOLEAN /\ outcome' \subseteq Outcomes
         /\ WaitingForMore' /\ FrameInHandIsGiven'
<1>1. waiter \subseteq 0..MaxFrame /\ bodyWaiter \in BOOLEAN
  BY DEF StreamInv, StreamType
<1>2. CASE ~reader'.bad /\ Drain(reader')
  <2> DEFINE rd == reader'
  <2>1. rd \in Readers(Byte) /\ Drain(rd)
    BY <1>2, FramesCount
  <2> HIDE DEF rd
  <2>2. /\ waiter' \subseteq waiter /\ bodyWaiter' \in BOOLEAN /\ outcome' \subseteq Outcomes
        /\ \A i \in waiter' : ~(Len(rd.frames) > i)
        /\ \A o \in outcome' : o.op = "frame" => o.how = "ok"
    BY <1>1, <2>1, Drained
  <2> QED BY <2>2 DEF WaitingForMore, FrameInHandIsGiven, rd
<1>3. CASE reader'.bad
  <2>1. waiter' \subseteq waiter /\ bodyWaiter' \in BOOLEAN /\ outcome' \subseteq Outcomes
    <3>1. CASE RejectWaiters
      BY <1>1, <3>1, Rejected
    <3>2. CASE outcome' = {} /\ UNCHANGED <<waiter, bodyWaiter>>
      BY <1>1, <3>2
    <3> QED BY <1>3, <3>1, <3>2
  <2> QED BY <1>3, <2>1 DEF WaitingForMore, FrameInHandIsGiven
<1> QED BY <1>2, <1>3

(* More of the body: it is decoded as far as it has come.                  *)
LEMMA BodyStep ==
  ASSUME StreamInv, head, NEW k \in 1..Len(Wire(response)), Data(k)
  PROVE  StreamInv'
<1> DEFINE bytes == Piece(Wire(response), at, at')
           rd == Push(reader, bytes)
<1>1. StreamType /\ DecodedSoFar
  BY DEF StreamInv
<1>2. /\ at \in Nat /\ at' \in Nat /\ at <= at' /\ at' <= Len(Wire(response))
      /\ response' = response /\ sock = "open" /\ BodyData(bytes) /\ response \in Responses
  BY <1>1, NextPiece DEF StreamType
<1>3. /\ reader' = rd /\ UNCHANGED <<opening, buf, head>>
      /\ IF rd.bad THEN failure' = TRUE /\ RejectWaiters /\ sock' = "destroyed"
         ELSE Drain(rd) /\ UNCHANGED <<failure, sock>>
  BY <1>2 DEF BodyData
<1>4. bytes \in Seq(Byte)
  <2> DEFINE b == at'
  <2>1. b \in Nat /\ at <= b /\ b <= Len(Wire(response))
    BY <1>2
  <2> HIDE DEF b
  <2>2. Piece(Wire(response), at, b) \in Seq(Byte)
    BY <1>2, <2>1, WirePieces
  <2> QED BY <2>2 DEF b
<1>5. DecodedSoFar'
  <2>1. SUFFICES ASSUME response.framing = "chunked"
                 PROVE  reader' \in DecodersAt(response, at') /\ Turn(reader') = reader'
    BY <1>2, <1>3 DEF DecodedSoFar
  <2> DEFINE b == at'
  <2>2. /\ Chunked(response) /\ reader \in DecodersAt(response, at)
        /\ b \in Nat /\ at <= b /\ b <= Len(Wire(response))
    BY <1>1, <1>2, <2>1 DEF DecodedSoFar, Chunked
  <2> HIDE DEF b
  <2>3. /\ Push(reader, Piece(Wire(response), at, b)) \in DecodersAt(response, b)
        /\ Turn(Push(reader, Piece(Wire(response), at, b)))
             = Push(reader, Piece(Wire(response), at, b))
    BY <1>2, <2>2, PushDecodes
  <2> QED BY <1>3, <2>3 DEF b
<1> HIDE DEF bytes
<1>6. rd \in FramedReaders(Byte)
  BY <1>1, <1>4, PushType DEF StreamType
<1>7. \/ ~rd.bad /\ Drain(rd) /\ UNCHANGED <<failure, sock>>
      \/ rd.bad /\ failure' = TRUE /\ RejectWaiters /\ sock' = "destroyed"
  <2>1. rd.bad \in BOOLEAN
    BY <1>6, FramesCount
  <2> QED BY <1>3, <2>1
<1> HIDE DEF rd
<1>8. /\ waiter' \subseteq waiter /\ bodyWaiter' \in BOOLEAN /\ outcome' \subseteq Outcomes
      /\ WaitingForMore' /\ FrameInHandIsGiven'
  <2>1. \/ ~reader'.bad /\ Drain(reader')
        \/ reader'.bad /\ RejectWaiters
    BY <1>3, <1>7
  <2> QED BY <1>3, <1>6, <2>1, HandedOver
<1>9. StreamType'
  <2>1. failure' \in BOOLEAN /\ sock' \in {"connecting", "open", "ended", "destroyed", "closed"}
    BY <1>1, <1>7 DEF StreamType
  <2> QED BY <1>1, <1>2, <1>3, <1>6, <1>8, <2>1 DEF StreamType
<1>10. HeadFirst'
  BY <1>3 DEF HeadFirst
<1> QED BY <1>5, <1>8, <1>9, <1>10 DEF StreamInv

(* The head may end in what has come: its body is decoded from there on.   *)
LEMMA HeadStep ==
  ASSUME StreamInv, ~head, NEW k \in 1..Len(Wire(response)), Data(k)
  PROVE  StreamInv'
<1> DEFINE bytes == Piece(Wire(response), at, at')
           all == buf \o bytes
           ends == HeadEnds(all)
           end == Least(ends)
           chunked == (response.framing = "chunked")
           rest == After(all, end + 3)
           rd == Push(NewReader(chunked), rest)
           garbled == IF ends = {} THEN Len(all) > HeadLimit
                      ELSE \E i \in 1..(end - 1) : all[i] # "h"
<1>1. StreamType /\ HeadFirst /\ WaitingForMore
  BY DEF StreamInv
<1>2. /\ at \in Nat /\ at' \in Nat /\ at <= at' /\ at' <= Len(Wire(response))
      /\ response' = response /\ HeadData(bytes) /\ response \in Responses
  BY <1>1, NextPiece DEF StreamType
<1>3. all = Piece(Wire(response), 0, at') /\ all \in Seq(Byte)
  <2> DEFINE b == at'
  <2>1. b \in Nat /\ at <= b /\ b <= Len(Wire(response))
    BY <1>2
  <2>2. buf = Piece(Wire(response), 0, at)
    BY <1>1 DEF HeadFirst
  <2> HIDE DEF b
  <2>3. /\ Piece(Wire(response), 0, at) \o Piece(Wire(response), at, b)
             = Piece(Wire(response), 0, b)
        /\ Piece(Wire(response), 0, b) \in Seq(Byte)
    BY <1>2, <2>1, WirePieces
  <2> QED BY <2>2, <2>3 DEF b
<1>4. /\ buf' = all
      /\ \/ /\ Done /\ sock' = "destroyed" /\ outcome' = {}
            /\ UNCHANGED <<head, reader, waiter, bodyWaiter>>
         \/ /\ outcome' = {}
            /\ UNCHANGED <<sock, opening, head, reader, failure, waiter, bodyWaiter>>
         \/ /\ ends # {} /\ rd.bad /\ head' = TRUE /\ reader' = rd
            /\ Done /\ sock' = "destroyed" /\ outcome' = {}
            /\ UNCHANGED <<waiter, bodyWaiter>>
         \/ /\ ends # {} /\ ~rd.bad /\ head' = TRUE /\ reader' = rd /\ opening' = "resolved"
            /\ Drain(rd) /\ UNCHANGED <<sock, failure>>
  <2> DEFINE more == all
  <2>1. HeadData(bytes)
    BY <1>2
  <2> QED BY <2>1 DEF HeadData
<1>5. end + 3 \in Nat
  <2>1. ends \subseteq Nat \ {0}
    BY DEF HeadEnds
  <2> HIDE DEF ends
  <2>2. end \in Nat
    BY <2>1, LeastFacts
  <2> QED BY <2>2
<1>6. rd \in FramedReaders(Byte)
  <2>1. rest \in Seq(Byte)
    <3> HIDE DEF all, end
    <3> QED BY <1>3, <1>5, AfterType
  <2> HIDE DEF rest, chunked
  <2>2. NewReader(chunked) \in FramedReaders(Byte)
    <3>1. chunked \in BOOLEAN
      BY DEF chunked
    <3> QED BY <3>1, NewReaderType
  <2> DEFINE new == NewReader(chunked)
  <2> HIDE DEF new
  <2>3. Push(new, rest) \in FramedReaders(Byte)
    BY <2>1, <2>2, PushType DEF new
  <2> QED BY <2>3 DEF new
<1>7. ASSUME ends # {}, chunked
      PROVE  rd \in DecodersAt(response, at') /\ Turn(rd) = rd
  <2> DEFINE a == Len(response.head)
             b == at'
             resp == response
  <2>1. b \in Nat /\ b <= Len(Wire(resp)) /\ Chunked(resp) /\ all = Piece(Wire(resp), 0, b)
        /\ ends # {}
    BY <1>2, <1>3, <1>7 DEF Chunked
  <2>2. NewReader(TRUE) \in DecodersAt(resp, a) /\ a \in Nat
    BY <2>1, NewReaderDecodes
  <2> HIDE DEF b, all
  <2>3. /\ Len(resp.head) <= b
        /\ After(all, Least(HeadEnds(all)) + 3) = Piece(Wire(resp), Len(resp.head), b)
    BY <2>1, HeadFound
  <2>4. rd = Push(NewReader(TRUE), Piece(Wire(resp), a, b)) /\ a <= b
    BY <1>7, <2>3
  <2> DEFINE new == NewReader(TRUE)
  <2>5. new \in DecodersAt(resp, a)
    BY <2>2
  <2> HIDE DEF a, rd, new, resp
  <2>6. /\ Push(new, Piece(Wire(resp), a, b)) \in DecodersAt(resp, b)
        /\ Turn(Push(new, Piece(Wire(resp), a, b))) = Push(new, Piece(Wire(resp), a, b))
    BY <2>1, <2>2, <2>4, <2>5, PushDecodes
  <2> QED BY <2>4, <2>6 DEF b, new, resp
<1> HIDE DEF bytes, all, ends, end, rest, rd, chunked
<1>8. CASE /\ head' = head /\ reader' = reader /\ outcome' = {}
           /\ UNCHANGED <<waiter, bodyWaiter>>
           /\ \/ Done /\ sock' = "destroyed"
              \/ UNCHANGED <<sock, opening, failure>>
  <2>1. opening' \in {"pending", "rejected"} /\ failure' \in BOOLEAN
        /\ sock' \in {"connecting", "open", "ended", "destroyed", "closed"}
    BY <1>1, <1>8 DEF StreamType, HeadFirst, Done
  <2>2. StreamType'
    BY <1>1, <1>2, <1>3, <1>4, <1>8, <2>1 DEF StreamType
  <2>3. HeadFirst'
    BY <1>1, <1>2, <1>3, <1>4, <1>8, <2>1 DEF HeadFirst
  <2>4. WaitingForMore' /\ DecodedSoFar' /\ FrameInHandIsGiven'
    BY <1>1, <1>8 DEF WaitingForMore, DecodedSoFar, FrameInHandIsGiven
  <2> QED BY <2>2, <2>3, <2>4 DEF StreamInv
<1>9. CASE /\ ends # {} /\ head' = TRUE /\ reader' = rd
           /\ \/ /\ rd.bad /\ Done /\ sock' = "destroyed" /\ outcome' = {}
                 /\ UNCHANGED <<waiter, bodyWaiter>>
              \/ /\ ~rd.bad /\ opening' = "resolved" /\ Drain(rd) /\ UNCHANGED <<sock, failure>>
  <2>1. opening' \in {"pending", "rejected", "resolved"} /\ failure' \in BOOLEAN
        /\ sock' \in {"connecting", "open", "ended", "destroyed", "closed"}
    BY <1>1, <1>9 DEF StreamType, HeadFirst, Done
  <2>2. /\ waiter' \subseteq waiter /\ bodyWaiter' \in BOOLEAN /\ outcome' \subseteq Outcomes
        /\ WaitingForMore' /\ FrameInHandIsGiven'
    <3>1. reader' \in FramedReaders(Byte)
      BY <1>6, <1>9
    <3>2. \/ ~reader'.bad /\ Drain(reader')
          \/ reader'.bad /\ outcome' = {} /\ UNCHANGED <<waiter, bodyWaiter>>
      BY <1>9
    <3> QED BY <3>1, <3>2, HandedOver
  <2>3. StreamType'
    BY <1>1, <1>2, <1>3, <1>4, <1>6, <1>9, <2>1, <2>2 DEF StreamType
  <2>4. DecodedSoFar'
    BY <1>2, <1>7, <1>9 DEF DecodedSoFar, chunked
  <2>5. HeadFirst'
    BY <1>9 DEF HeadFirst
  <2> QED BY <2>2, <2>3, <2>4, <2>5 DEF StreamInv
<1> QED BY <1>4, <1>8, <1>9

(* The inductive step of the invariant.                                    *)
LEMMA StreamStep ==
  ASSUME StreamInv, [StreamNext]_streamVars
  PROVE  StreamInv'
<1>1. CASE Connect \/ End \/ Error \/ Close \/ OpenTimeout
  BY <1>1, SocketStep
<1>2. CASE \E k \in 1..Len(Wire(response)) : Data(k)
  <2>1. PICK k \in 1..Len(Wire(response)) : Data(k)
    BY <1>2
  <2>2. head \in BOOLEAN
    BY DEF StreamInv, StreamType
  <2> QED BY <2>1, <2>2, BodyStep, HeadStep
<1>3. CASE Caller
  BY <1>3, CallerStep
<1>4. CASE UNCHANGED streamVars
  BY <1>4 DEF streamVars, StreamInv, StreamType, HeadFirst, WaitingForMore, DecodedSoFar,
              FrameInHandIsGiven, Done
<1> QED BY <1>1, <1>2, <1>3, <1>4 DEF StreamNext, Socket

(* The invariant of the client: its types; nobody waits before the head is *)
(* known, whose bytes are all kept; a frame is waited for only as long as  *)
(* it has not come; and the decoder of a chunked body has gone, however    *)
(* the bytes were cut into segments, as far as the bytes that arrived let  *)
(* it (createBodyReader(), connect()).                                     *)
THEOREM StreamInductive == StreamSpec => []StreamInv
<1>1. StreamInit => StreamInv
  BY StreamStarts
<1>2. StreamInv /\ [StreamNext]_streamVars => StreamInv'
  BY StreamStep
<1> QED BY <1>1, <1>2, PTL DEF StreamSpec

(* nextFrame() and drain(): a frame that has arrived is never answered     *)
(* with an error or a timeout, unless decoding failed.                     *)
THEOREM FrameGiven == StreamSpec => []FrameInHandIsGiven
<1>1. StreamInv => FrameInHandIsGiven
  BY DEF StreamInv
<1> QED BY <1>1, StreamInductive, PTL

-----------------------------------------------------------------------------
(* What the invariant says of the decoded bytes.                           *)

(* The chunks begin one after the other.                                   *)
LEMMA OffMono ==
  ASSUME NEW resp, Chunked(resp), NEW m \in 0..Len(resp.writes), NEW n \in m..Len(resp.writes)
  PROVE  Off(resp, m) \in Nat /\ Off(resp, n) \in Nat /\ Off(resp, m) <= Off(resp, n)
<1> DEFINE N == Len(resp.writes)
           h == Len(resp.head)
           x == Chunks(resp, m)
           y == Chunks(resp, n)
<1>1. N \in Nat /\ h \in Nat
  BY RespTypes
<1>2. n \in 0..N
  <2> HIDE DEF N
  <2>1. m \in 0..N /\ n \in m..N
    BY DEF N
  <2> QED BY <1>1, <2>1
<1>3. Len(x) \in Nat /\ Len(y) \in Nat
  BY <1>2, EncodedWritesType
<1>4. Len(x) <= Len(y)
  BY ChunksStart DEF Starts
<1>5. Off(resp, m) = h + Len(x) /\ Off(resp, n) = h + Len(y)
  BY DEF Off
<1> DEFINE i == Len(x)
           j == Len(y)
<1>6. i \in Nat /\ j \in Nat /\ i <= j /\ Off(resp, m) = h + i /\ Off(resp, n) = h + j
  BY <1>3, <1>4, <1>5
<1> HIDE DEF i, j, h
<1> QED BY <1>1, <1>6

(* As many writes have arrived as the decoder has taken.                   *)
LEMMA ArrivedIs ==
  ASSUME Chunked(response), at \in Nat, NEW rd, NEW k \in 0..Len(response.writes),
         Stuck(rd, response, k, at)
  PROVE  Arrived = k
<1> DEFINE N == Len(response.writes)
           O(n) == Off(response, n)
           whole == {n \in DOMAIN response.writes :
                       at >= Len(response.head) + Len(Chunks(response, n)) - 2}
<1>1. N \in Nat /\ DOMAIN response.writes = 1..N
  BY RespTypes DEF Chunked
<1>2. whole = {n \in 1..N : at >= O(n) - 2}
  BY <1>1 DEF Off
<1>3. k \in 0..N /\ k \in Nat /\ (O(k) <= at + 2 \/ k = 0) /\ (k < N => at + 2 < O(k + 1))
  BY <1>1 DEF Stuck
<1>4. ASSUME NEW n \in 1..N, n <= k PROVE O(n) \in Nat /\ O(n) - 2 <= at
  <2>1. n \in 0..N /\ k \in n..N /\ k # 0
    BY <1>1, <1>3, <1>4
  <2>2. O(n) \in Nat /\ O(k) \in Nat /\ O(n) <= O(k)
    BY <2>1, OffMono
  <2>3. O(k) <= at + 2
    BY <1>3, <2>1
  <2> HIDE DEF O
  <2> QED BY <2>2, <2>3
<1>5. ASSUME NEW n \in 1..N, ~(n <= k) PROVE ~(at >= O(n) - 2)
  <2> DEFINE m == k + 1
  <2>1. m \in 0..N /\ n \in m..N /\ k < N
    BY <1>1, <1>3, <1>5
  <2>2. at + 2 < O(m)
    BY <1>3, <2>1
  <2> HIDE DEF m
  <2>3. O(m) \in Nat /\ O(n) \in Nat /\ O(m) <= O(n)
    BY <2>1, OffMono
  <2> HIDE DEF O
  <2> QED BY <2>2, <2>3
<1> HIDE DEF O, N
<1>6. whole = 1..k
  <2>1. \A n : n \in 1..N /\ at >= O(n) - 2 <=> n \in 1..k
    <3>1. ASSUME NEW n \in 1..N PROVE at >= O(n) - 2 <=> n <= k
      <4>1. CASE n <= k
        <5>1. O(n) \in Nat /\ O(n) - 2 <= at
          BY <1>4, <4>1
        <5> DEFINE q == O(n)
        <5> HIDE DEF q
        <5>2. at >= q - 2
          BY <5>1 DEF q
        <5> QED BY <4>1, <5>2 DEF q
      <4>2. CASE ~(n <= k)
        BY <1>5, <4>2
      <4> QED BY <4>1, <4>2
    <3>2. \A n : n \in 1..k <=> n \in 1..N /\ n <= k
      BY <1>1, <1>3
    <3> QED BY <3>1, <3>2
  <2> QED BY <1>2, <2>1
<1>7. Cardinality(1..k) = k
  <2>1. 1 \in Int /\ k \in Int /\ (IF 1 > k THEN 0 ELSE k - 1 + 1) = k
    BY <1>3
  <2> DEFINE o == 1
  <2> HIDE DEF o
  <2>2. Cardinality(o..k) = IF o > k THEN 0 ELSE k - o + 1
    BY <1>3, <2>1, FS_Interval DEF o
  <2> QED BY <2>1, <2>2 DEF o
<1> QED BY <1>6, <1>7 DEF Arrived

(* The invariant says what the decoded bytes are.                          *)
LEMMA WrittenIsDecoded ==
  ASSUME StreamInv
  PROVE  DecodedIsWritten
<1>1. SUFFICES ASSUME head, response.framing = "chunked"
      PROVE LET got == [k \in 1..Arrived |-> response.writes[k]] IN
            /\ reader.chunkSizes = [k \in DOMAIN got |-> Len(got[k])]
            /\ FlattenSeq(reader.frames) \o reader.carry = FlattenSeq(got)
            /\ \A k \in DOMAIN reader.frames :
                 IndexOf(reader.frames[k], "n", "n") = Len(reader.frames[k]) - 1
            /\ IndexOf(reader.carry, "n", "n") = 0
            /\ reader.complete <=> at = Len(Wire(response)) /\ Terminated
  BY DEF DecodedIsWritten
<1>2. /\ Chunked(response) /\ at \in Nat /\ reader \in DecodersAt(response, at)
      /\ Turn(reader) = reader
  BY <1>1 DEF StreamInv, StreamType, DecodedSoFar, Chunked
<1>3. PICK n \in Nat, c \in Nat : Decodes(reader, response, n, c, at)
  BY <1>2 DEF DecodersAt
<1>4. Stuck(reader, response, n, at)
  BY <1>2, <1>3, StuckFacts
<1>5. n \in 0..Len(response.writes) /\ Taken(reader, response, n) /\ Framed(reader)
  BY <1>3 DEF Decodes
<1>6. Arrived = n
  BY <1>2, <1>4, <1>5, ArrivedIs
<1> DEFINE got == [k \in 1..n |-> response.writes[k]]
<1>7. reader.chunkSizes = [k \in DOMAIN got |-> Len(got[k])]
  BY <1>5 DEF Taken
<1>8. FlattenSeq(reader.frames) \o reader.carry = FlattenSeq(got)
  BY <1>5 DEF Taken, Text
<1>9. /\ \A k \in DOMAIN reader.frames :
            IndexOf(reader.frames[k], "n", "n") = Len(reader.frames[k]) - 1
      /\ IndexOf(reader.carry, "n", "n") = 0
  BY <1>5 DEF Framed, FramesEnd
<1>10. reader.complete <=> at = Len(Wire(response)) /\ Terminated
  BY <1>4 DEF Stuck, EndsWell, Terminated
<1> QED BY <1>6, <1>7, <1>8, <1>9, <1>10

(* createBodyReader() decodes what the server wrote: whatever the segments *)
(* a chunked answer arrives in, the chunks taken are those that have       *)
(* arrived in full, their bytes are the frames and the rest, each frame    *)
(* ends at the first blank line in it, and the end of the body is seen     *)
(* exactly when it has come and is well formed.                            *)
THEOREM Decoded == StreamSpec => []DecodedIsWritten
<1>1. StreamInv => DecodedIsWritten
  BY WrittenIsDecoded
<1> QED BY <1>1, StreamInductive, PTL
=============================================================================
