------------------------------ MODULE Replica -------------------------------
(***************************************************************************)
(* One replica from its boot to its exit: the gate in front of the routes  *)
(* that Lifecycle models.  A POST /api/events and a probe reach their      *)
(* handlers through the gate, in a later turn of the event loop; the       *)
(* interval that collects the gate's old buckets is one of those that the  *)
(* shutdown clears.                                                        *)
(***************************************************************************)
EXTENDS Gate, Lifecycle

CONSTANT MaxPosts  \* bounds the ingests on their way

VARIABLE posts     \* ingests that passed the gate and are not handled yet

vars == <<gateVars, lifeVars, posts>>

Init == GateInit /\ LifeInit /\ posts = 0

\* Requests are served once register has returned.
Serves == Runs /\ toStart = <<>>

IsIngest(r) == r.route = "events" /\ r.method = "POST"
IsProbe(r)  == r.route = "readyz" /\ r.method = "GET"

PassIngest(r) ==
  /\ Serves
  /\ IsIngest(r) /\ posts < MaxPosts
  /\ Admit(r)
  /\ posts' = posts + 1
  /\ UNCHANGED lifeVars

ServeIngest ==
  /\ posts > 0
  /\ posts' = posts - 1
  /\ Rearm
  /\ UNCHANGED gateVars

\* The gate neither counts nor refuses a probe.
ServeProbe(r, p) ==
  /\ IsProbe(r)
  /\ Admit(r)
  /\ ProbeBegins(p)
  /\ UNCHANGED posts

ServeOther(r) ==
  /\ Serves
  /\ ~IsIngest(r) /\ ~IsProbe(r)
  /\ Admit(r)
  /\ UNCHANGED <<lifeVars, posts>>

TurnAway(r) == Serves /\ Refuse(r) /\ UNCHANGED <<lifeVars, posts>>

CollectBuckets ==
  Runs /\ timers["limiterGc"] > 0 /\ Gc /\ UNCHANGED <<lifeVars, posts>>

ClockTicks == ~exited /\ Tick /\ UNCHANGED <<lifeVars, posts>>

\* What concerns the gate in nothing.
Alone ==
  /\ \/ Boot \/ GraceEnds \/ Exit
     \/ \E p \in Prober, a \in Answer : ProbeEnds(p, a)
     \/ \E s \in Signals : Signal(s)
     \/ \E h \in Hook, outcome \in {"ended", "failed"} : HookSettles(h, outcome)
  /\ UNCHANGED <<gateVars, posts>>

Next ==
  \/ \E r \in Request :
       \/ PassIngest(r) \/ ServeOther(r) \/ TurnAway(r)
       \/ \E p \in Prober : ServeProbe(r, p)
  \/ ServeIngest \/ CollectBuckets \/ ClockTicks \/ Alone

Spec == Init /\ [][Next]_vars

\* The deadline is a timer, and exit follows from settled promises.
FairSpec == Spec /\ WF_vars(GraceEnds /\ UNCHANGED <<gateVars, posts>>)
                 /\ WF_vars(Exit /\ UNCHANGED <<gateVars, posts>>)

TypeOK == GateTypeOK /\ LifeTypeOK /\ posts \in Nat
=============================================================================
