------------------------------ MODULE Teardown ------------------------------
(***************************************************************************)
(* One run of a container harness (scripts/verify-image.mjs or             *)
(* scripts/verify-sse-stream.mjs), the docker daemon it talks to, and the  *)
(* synchronous teardown every way out of the process goes through.         *)
(*                                                                         *)
(* The daemon is another process: a `docker run' whose client was killed   *)
(* may still create its container, any time later, and nobody then starts  *)
(* it.  Only the label sweeps of the teardown can see such an object.      *)
(*                                                                         *)
(* Time is counted from the moment the teardown starts, in sleeps of the   *)
(* sweep's poll; a request that hangs takes as long as it is allowed to.   *)
(***************************************************************************)
EXTENDS Naturals, Sequences, FiniteSets

CONSTANTS
  Plan,                   \* what each harness creates, in the order of its main()
  SWEEP_QUIET,            \* polls without a sighting that end a sweep
  SWEEP_BUDGET,           \* polls a sweep may take in all
  SWEEP_MAX_LIST_ERRORS   \* consecutive failed listings that end a sweep

ASSUME SweepAssumption ==
  /\ SWEEP_QUIET \in Nat \ {0}
  /\ SWEEP_MAX_LIST_ERRORS \in Nat \ {0}
  /\ SWEEP_BUDGET \in Nat /\ SWEEP_BUDGET >= SWEEP_QUIET

(* The steps of a plan: probe containers, extractions (which share one     *)
(* name), the network, containers that stay up, the migration and, in the  *)
(* stream harness, an open stream.                                         *)
Step == {"probe", "extract", "net", "pg", "migrate", "app", "stream"}

ASSUME PlanAssumption ==
  /\ DOMAIN Plan = {"image", "sse"}
  /\ \A h \in DOMAIN Plan : Plan[h] \in Seq(Step)
  /\ \A i \in DOMAIN Plan["sse"] : Plan["sse"][i] # "net"

(* The objects a run may own at the daemon.                                *)
Network == {"net"}
Container == {"probe", "extract", "pg", "app"}
Object == Container \cup Network
Kind(o) == IF o \in Network THEN "network" ELSE "container"

VARIABLES
  script,         \* which harness runs
  keep,           \* --keep
  step,           \* position in the plan
  pc,             \* what the process is doing
  exit,           \* its exit code, or "killed"
  containers,     \* registry: names of containers
  networks,       \* registry: names of networks
  tempDirs,       \* registry: scratch directories
  liveChildren,   \* registry: clients and children
  sockets,        \* registry: open streams
  alive,          \* the processes, sockets and directories that really exist
  everRegistered, \* verify-sse-stream's everRegisteredContainer
  obj,            \* the daemon's view of each object
  late,           \* objects that came into being when the teardown was out of reach
  kind,           \* what the teardown is removing
  named,          \* what it is to remove by name
  now,            \* time since the teardown began
  sweepStart, lastSighting, listErrors,
  seen,           \* the last successful listing
  loud,           \* what the teardown reported
  prunePc,        \* another process that runs --prune
  trusted         \* that prune began after the run died, with nothing in flight,
                  \* and no call of it failed

mainVars == <<script, keep, step, exit, everRegistered>>
registries == <<containers, networks, tempDirs, liveChildren, sockets>>
clock == <<now, sweepStart, lastSighting, listErrors>>
sweepVars == <<kind, named, clock, seen, loud>>
daemonVars == <<obj, late>>
pruneVars == <<prunePc, trusted>>
teardownVars == <<mainVars, pc, registries, alive, daemonVars, sweepVars, pruneVars>>

Running == {"run", "call", "refused", "extract_rm"}           \* pc inside main()
Over == {"exited", "dead"}

TeardownInit ==
  /\ script \in DOMAIN Plan /\ keep \in BOOLEAN
  /\ step = 1 /\ pc = "run" /\ exit = "none"
  /\ containers = {} /\ networks = {} /\ tempDirs = {} /\ liveChildren = {} /\ sockets = {}
  /\ alive = {} /\ everRegistered = FALSE
  /\ obj = [o \in Object |-> "absent"] /\ late = {}
  /\ now = 0 /\ sweepStart = 0 /\ lastSighting = 0 /\ listErrors = 0
  /\ seen = {} /\ loud = {} /\ kind = "container" /\ named = {}
  /\ prunePc = "idle" /\ trusted = FALSE

-----------------------------------------------------------------------------
(* The daemon.                                                             *)

(* How long after its start the teardown still sees a late container: one  *)
(* quiet window, and for the image harness the one spent on networks too.  *)
SweepReach == IF script = "image" THEN 2 * SWEEP_QUIET ELSE SWEEP_QUIET

Present(k) == {o \in Object : Kind(o) = k /\ obj[o] \in {"created", "running"}}

(* A create that was received takes effect, whether or not anyone waits.   *)
Land(o) ==
  /\ obj[o] = "requested"
  /\ obj' = [obj EXCEPT ![o] = "created"]
  /\ late' = IF now >= SweepReach THEN late \cup {o} ELSE late \ {o}
  /\ UNCHANGED <<mainVars, pc, registries, alive, sweepVars, pruneVars>>

(* ... or the daemon gives it up, its client being gone.                   *)
Drop(o) ==
  /\ obj[o] = "requested" /\ "docker" \notin alive
  /\ obj' = [obj EXCEPT ![o] = "absent"]
  /\ UNCHANGED <<mainVars, pc, registries, alive, late, sweepVars, pruneVars>>

Removed(os) == [o \in Object |-> IF o \in os /\ obj[o] # "requested" THEN "absent" ELSE obj[o]]

(* A network is removed only when nothing that runs is attached to it.     *)
Removable(os) ==
  {o \in os : o \in Network => \A c \in {"pg", "app"} : obj[c] # "running"}

-----------------------------------------------------------------------------
(* main(): one docker call after another.                                  *)

Current == Plan[script][step]
At(what) == pc = "run" /\ step <= Len(Plan[script]) /\ Current = what

(* The name is registered, and only then is the client spawned; it is in   *)
(* liveChildren from that moment.  A name that is still taken by an        *)
(* earlier call that timed out makes the daemon refuse this one.           *)
Call(o) ==
  /\ At(o)
  /\ pc' = IF obj[o] = "absent" THEN "call" ELSE "refused"
  /\ containers' = containers \cup ({o} \cap Container)
  /\ networks' = networks \cup ({o} \cap Network)
  /\ tempDirs' = tempDirs \cup ({o} \cap {"extract"})
  /\ everRegistered' = (everRegistered \/ o \in Container)
  /\ liveChildren' = liveChildren \cup {"docker"}
  /\ alive' = alive \cup {"docker"} \cup (IF o = "extract" THEN {"dir"} ELSE {})
  /\ obj' = [obj EXCEPT ![o] = IF @ = "absent" THEN "requested" ELSE @]
  /\ UNCHANGED <<script, keep, step, exit, sockets, late, sweepVars, pruneVars>>

RunProbe == Call("probe")
ImageContainer == Call("extract")
CreateNetwork == Call("net")
StartPostgres == Call("pg")
StartApp == Call("app")

(* db:migrate is npm with drizzle-kit below it, in a process group of its  *)
(* own; the other kind of step opens an event stream.                      *)
Migrate ==
  /\ At("migrate")
  /\ pc' = "call"
  /\ liveChildren' = liveChildren \cup {"npm"}
  /\ alive' = alive \cup {"npm", "drizzle"}
  /\ UNCHANGED <<mainVars, containers, networks, tempDirs, sockets, daemonVars, sweepVars, pruneVars>>

OpenStream ==
  /\ At("stream")
  /\ step' = step + 1
  /\ sockets' = sockets \cup {"socket"} /\ alive' = alive \cup {"socket"}
  /\ UNCHANGED <<script, keep, exit, pc, everRegistered, containers, networks,
                 tempDirs, liveChildren, daemonVars, sweepVars, pruneVars>>

(* `docker run' is a create and then a start, which the client asks for.   *)
ClientStarts ==
  /\ "docker" \in alive /\ pc \in {"call", "dead"}
  /\ Current \in {"probe", "pg", "app"}
  /\ obj[Current] = "created"
  /\ obj' = [obj EXCEPT ![Current] = "running"]
  /\ UNCHANGED <<mainVars, pc, registries, alive, late, sweepVars, pruneVars>>

Succeeded ==
  CASE Current \in {"extract", "net"} -> obj[Current] = "created"
    [] Current = "migrate" -> TRUE
    [] OTHER -> obj[Current] = "running"

(* The call returns.  A probe's container is gone by then (--rm) and its   *)
(* name is struck; an extraction goes on to its `finally'.                 *)
CallOk ==
  /\ pc = "call" /\ Succeeded
  /\ liveChildren' = liveChildren \ {"docker", "npm"}
  /\ alive' = alive \ {"docker", "npm", "drizzle"}
  /\ containers' = containers \ {"probe"}
  /\ obj' = IF Current = "probe" THEN [obj EXCEPT !["probe"] = "absent"] ELSE obj
  /\ IF Current = "extract" THEN pc' = "extract_rm" /\ UNCHANGED step
     ELSE pc' = "run" /\ step' = step + 1
  /\ UNCHANGED <<script, keep, exit, everRegistered, networks, tempDirs, sockets,
                 late, sweepVars, pruneVars>>

(* The call fails or its own timer kills it: what it asked for may still   *)
(* come.  Probes and extractions record the error and main() goes on; any  *)
(* other failure is thrown out of main().                                  *)
CallFails ==
  /\ pc \in {"call", "refused"}
  /\ liveChildren' = liveChildren \ {"docker", "npm"}
  /\ alive' = alive \ {"docker", "npm", "drizzle"}
  /\ containers' = containers \ {"probe"}
  /\ \/ Current = "probe" /\ pc' = "run" /\ step' = step + 1 /\ exit' = exit
     \/ Current = "extract" /\ pc' = "extract_rm" /\ UNCHANGED <<step, exit>>
     \/ Current \notin {"probe", "extract"} /\ pc' = "cleanup" /\ exit' = "1" /\ step' = step
  /\ UNCHANGED <<script, keep, everRegistered, networks, tempDirs, sockets,
                 daemonVars, sweepVars, pruneVars>>

(* rmSync of a scratch directory.  It may fail: what is left of the        *)
(* directory is in no registry by then.                                    *)
Deleted(there) ==
  IF "dir" \in there
  THEN {there \ {"dir"}, (there \ {"dir"}) \cup {"remains"}}
  ELSE {there}

(* withImageContainer's `finally': rm by name (which may fail), then the   *)
(* name and the directory are struck and the directory is deleted.  If     *)
(* that fails, the extraction has.                                         *)
ExtractRemove ==
  /\ pc = "extract_rm"
  /\ \E gone \in {{}, {"extract"}} : obj' = Removed(gone)
  /\ containers' = containers \ {"extract"}
  /\ tempDirs' = {} /\ alive' \in Deleted(alive)
  /\ pc' = "run" /\ step' = step + 1
  /\ UNCHANGED <<script, keep, exit, everRegistered, networks, liveChildren, sockets,
                 late, sweepVars, pruneVars>>

(* main() resolves, or a check throws.                                     *)
Finish ==
  /\ pc = "run"
  /\ \/ step > Len(Plan[script]) /\ exit' \in {"0", "1"}
     \/ step <= Len(Plan[script]) /\ exit' = "1"
  /\ pc' = "cleanup"
  /\ UNCHANGED <<script, keep, step, everRegistered, registries, alive, daemonVars, sweepVars, pruneVars>>

(* SIGINT, SIGTERM or the watchdog, between any two steps of main().       *)
Interrupt ==
  /\ pc \in Running
  /\ pc' = "cleanup" /\ exit' = "1"
  /\ UNCHANGED <<script, keep, step, everRegistered, registries, alive, daemonVars, sweepVars, pruneVars>>

(* SIGKILL: no handler runs, the process's memory is gone, and what it had *)
(* started goes on.                                                        *)
Killed ==
  /\ pc \notin Over
  /\ pc' = "dead" /\ exit' = "killed"
  /\ alive' = alive \ {"socket"}
  /\ containers' = {} /\ networks' = {} /\ tempDirs' = {} /\ liveChildren' = {} /\ sockets' = {}
  /\ kind' = "container" /\ named' = {} /\ seen' = {} /\ loud' = {}
  /\ now' = 0 /\ sweepStart' = 0 /\ lastSighting' = 0 /\ listErrors' = 0
  /\ UNCHANGED <<script, keep, step, everRegistered, daemonVars, pruneVars>>

-----------------------------------------------------------------------------
(* cleanupSync(): nothing else of the process runs until it has exited.    *)

(* (Only the leader of a group is killed.)                                 *)
KilledAlone(children) == children

(* killLiveChildren: a group leader's whole group, other children alone.   *)
KilledWith(children) == children \cup (IF "npm" \in children THEN {"drizzle"} ELSE {})

(* First what is on this host; --keep is about containers and networks, a  *)
(* stream harness that registered no container has nothing to sweep.       *)
Cleanup ==
  /\ pc = "cleanup"
  /\ \E rest \in IF tempDirs = {} THEN {alive} ELSE Deleted(alive) :
       alive' = rest \ (KilledWith(liveChildren) \cup sockets)
  /\ liveChildren' = {} /\ sockets' = {} /\ tempDirs' = {}
  /\ IF keep \/ (script = "sse" /\ ~everRegistered)
     THEN pc' = "exited" /\ UNCHANGED <<containers, networks, named>>
     ELSE /\ pc' = "names" /\ containers' = {} /\ networks' = {}
          /\ named' = containers \cup networks
  /\ UNCHANGED <<mainVars, daemonVars, kind, clock, seen, loud, pruneVars>>

OfKind(os) == {o \in os : Kind(o) = kind}

DaemonRemoves(os) == \E gone \in SUBSET Removable(os) : obj' = Removed(gone)

(* What was registered is removed by name, container by container, then    *)
(* the sweep of the kind follows.                                          *)
RemoveByName ==
  /\ pc = "names"
  /\ \/ \E o \in OfKind(named) :
          /\ named' = named \ {o} /\ DaemonRemoves({o})
          /\ UNCHANGED <<pc, clock>>
     \/ /\ OfKind(named) = {}
        /\ pc' = "sweep"
        /\ sweepStart' = now /\ lastSighting' = now /\ listErrors' = 0
        /\ UNCHANGED <<named, obj, now>>
  /\ UNCHANGED <<mainVars, registries, alive, late, kind, seen, loud, pruneVars>>

(* (The deadline forgotten.)                                               *)
WatchingForever ==
  /\ now - lastSighting < SWEEP_QUIET
  /\ listErrors < SWEEP_MAX_LIST_ERRORS

(* sweepByLabelSync(kind): the condition of its loop.                      *)
Watching ==
  /\ now - lastSighting < SWEEP_QUIET
  /\ now - sweepStart <= SWEEP_BUDGET
  /\ listErrors < SWEEP_MAX_LIST_ERRORS

SweepList ==
  /\ pc = "sweep" /\ Watching
  /\ listErrors' = 0
  /\ seen' = Present(kind)
  /\ IF seen' # {} THEN pc' = "remove" /\ lastSighting' = now
     ELSE pc' = "sleep" /\ UNCHANGED lastSighting
  /\ UNCHANGED <<mainVars, registries, alive, daemonVars, kind, named, now, sweepStart,
                 loud, pruneVars>>

(* The daemon does not answer, which is no evidence of quiet.              *)
SweepListFails ==
  /\ pc = "sweep" /\ Watching
  /\ listErrors' = listErrors + 1 /\ lastSighting' = now
  /\ pc' = "sleep"
  /\ UNCHANGED <<mainVars, registries, alive, daemonVars, kind, named, now, sweepStart,
                 seen, loud, pruneVars>>

(* `docker rm -f' of what was listed; each removal may fail.               *)
SweepRemove ==
  /\ pc = "remove"
  /\ DaemonRemoves(seen) /\ seen' = {}
  /\ pc' = "sleep"
  /\ UNCHANGED <<mainVars, registries, alive, late, kind, named, clock, loud, pruneVars>>

SleepSync ==
  /\ pc = "sleep"
  /\ now' = now + 1
  /\ pc' = "sweep"
  /\ UNCHANGED <<mainVars, registries, alive, daemonVars, kind, named, sweepStart,
                 lastSighting, listErrors, seen, loud, pruneVars>>

(* What follows the sweep of a kind: the image harness removes its         *)
(* networks by name and sweeps them, then looks for containers once more.  *)
Proceed ==
  /\ pc' = IF script = "sse" THEN "exited"
           ELSE IF kind = "container" THEN "names" ELSE "recheck"
  /\ kind' = IF script = "sse" THEN kind ELSE "network"

(* (A daemon that never answered taken for one that has nothing left.)     *)
SweepEndsQuietly ==
  /\ pc = "sweep" /\ ~Watching
  /\ \/ Proceed /\ UNCHANGED <<seen, loud>>
     \/ /\ listErrors < SWEEP_MAX_LIST_ERRORS /\ Present(kind) # {}
        /\ seen' = Present(kind) /\ pc' = "final"
        /\ UNCHANGED <<kind, loud>>
  /\ UNCHANGED <<mainVars, registries, alive, daemonVars, named, clock, pruneVars>>

(* The loop is over.  Too many failed listings end the sweep with a        *)
(* report; otherwise one more listing and one more removal follow.         *)
SweepEnds ==
  /\ pc = "sweep" /\ ~Watching
  /\ \/ Proceed /\ loud' = loud \cup {kind} /\ UNCHANGED seen
     \/ /\ listErrors < SWEEP_MAX_LIST_ERRORS /\ Present(kind) = {}
        /\ Proceed /\ UNCHANGED <<seen, loud>>
     \/ /\ listErrors < SWEEP_MAX_LIST_ERRORS /\ Present(kind) # {}
        /\ seen' = Present(kind) /\ pc' = "final"
        /\ UNCHANGED <<kind, loud>>
  /\ UNCHANGED <<mainVars, registries, alive, daemonVars, named, clock, pruneVars>>

FinalRemove ==
  /\ pc = "final"
  /\ DaemonRemoves(seen) /\ seen' = {}
  /\ now' = now + 1 /\ pc' = "confirm"
  /\ UNCHANGED <<mainVars, registries, alive, late, kind, named, sweepStart,
                 lastSighting, listErrors, loud, pruneVars>>

(* The confirming listing: its failure and a survivor are both reported.   *)
FinalConfirm ==
  /\ pc = "confirm"
  /\ \/ loud' = loud \cup {kind}
     \/ Present(kind) = {} /\ UNCHANGED loud
  /\ Proceed
  /\ UNCHANGED <<mainVars, registries, alive, daemonVars, named, clock, seen, pruneVars>>

(* recheckContainersSync, when the networks are gone.  A failed listing    *)
(* and a late container are reported; its own confirmation may fail        *)
(* without a word.                                                         *)
Recheck ==
  /\ pc = "recheck"
  /\ \/ loud' = loud \cup {"container"} /\ pc' = "exited" /\ UNCHANGED seen
     \/ Present("container") = {} /\ pc' = "exited" /\ UNCHANGED <<seen, loud>>
     \/ /\ Present("container") # {} /\ seen' = Present("container")
        /\ loud' = loud \cup {"late"} /\ pc' = "recheck_rm"
  /\ UNCHANGED <<mainVars, registries, alive, daemonVars, kind, named, clock, pruneVars>>

RecheckRemove ==
  /\ pc = "recheck_rm"
  /\ DaemonRemoves(seen) /\ seen' = {}
  /\ now' = now + 1 /\ pc' = "recheck_confirm"
  /\ UNCHANGED <<mainVars, registries, alive, late, kind, named, sweepStart,
                 lastSighting, listErrors, loud, pruneVars>>

RecheckConfirm ==
  /\ pc = "recheck_confirm"
  /\ \/ UNCHANGED loud
     \/ Present("container") # {} /\ loud' = loud \cup {"container"}
  /\ pc' = "exited"
  /\ UNCHANGED <<mainVars, registries, alive, daemonVars, kind, named, clock, seen, pruneVars>>

-----------------------------------------------------------------------------
(* `--prune', from another process: every object with the harness's label  *)
(* that is not its own, whether its run still lives or not.  A listing     *)
(* that fails reads as empty, and a removal that fails is passed over.     *)

InFlight == "docker" \in alive \/ \E o \in Object : obj[o] = "requested"

PruneBegins ==
  /\ prunePc = "idle"
  /\ prunePc' = "containers"
  /\ trusted' = (pc \in Over /\ ~InFlight)
  /\ UNCHANGED <<mainVars, pc, registries, alive, daemonVars, sweepVars>>

(* (Networks first: one still in use stays.)                               *)
PruneNetworksFirst(k) ==
  /\ prunePc = (IF k = "network" THEN "containers" ELSE "networks")
  /\ prunePc' = (IF k = "network" THEN "networks" ELSE "done")
  /\ \E gone \in SUBSET Removable(Present(k)) :
       /\ obj' = Removed(gone)
       /\ trusted' = (trusted /\ gone = Removable(Present(k)))
  /\ UNCHANGED <<mainVars, pc, registries, alive, late, sweepVars>>

(* Containers first, then networks, each listed and removed one by one:    *)
(* whatever was not listed, or whose removal failed, stays.                *)
PruneRemoves(k) ==
  /\ prunePc = (IF k = "container" THEN "containers" ELSE "networks")
  /\ prunePc' = (IF k = "container" THEN "networks" ELSE "done")
  /\ \E gone \in SUBSET Removable(Present(k)) :
       /\ obj' = Removed(gone)
       /\ trusted' = (trusted /\ gone = Removable(Present(k)))
  /\ UNCHANGED <<mainVars, pc, registries, alive, late, sweepVars>>

-----------------------------------------------------------------------------
Daemon == \E o \in Object : Land(o) \/ Drop(o)

Main == \/ RunProbe \/ ImageContainer \/ CreateNetwork \/ StartPostgres
        \/ StartApp \/ Migrate \/ OpenStream
        \/ CallOk \/ CallFails \/ ExtractRemove \/ Finish

Sweep == \/ Cleanup \/ RemoveByName
         \/ SweepList \/ SweepListFails \/ SweepRemove \/ SleepSync \/ SweepEnds
         \/ FinalRemove \/ FinalConfirm
         \/ Recheck \/ RecheckRemove \/ RecheckConfirm

Prune == PruneBegins \/ \E k \in {"container", "network"} : PruneRemoves(k)

TeardownNext == Daemon \/ ClientStarts \/ Main \/ Interrupt \/ Killed \/ Sweep \/ Prune

TeardownSpec == TeardownInit /\ [][TeardownNext]_teardownVars

-----------------------------------------------------------------------------
(* An exit whose teardown reported nothing left nothing behind, except     *)
(* what the daemon created later than the teardown watches.                *)
SilentTeardownIsClean ==
  pc = "exited" /\ ~keep /\ loud = {} =>
    \A o \in Object : obj[o] \in {"created", "running"} => o \in late

(* A daemon that keeps failing, or keeps producing objects, cannot make    *)
(* the teardown hang: each sweep stays within its budget.                  *)
TeardownIsBounded == now <= 2 * (SWEEP_BUDGET + 2) + 1

(* No way out that a handler sees leaves a client, the migration's         *)
(* grandchild, an open stream or a scratch directory behind, except one    *)
(* that could not be deleted when the harness tried to.                    *)
NothingOutlivesTheProcess == pc = "exited" => alive \subseteq {"remains"}

(* What a killed run left is gone after a prune that began with nothing in *)
(* flight and met no failure.                                              *)
PruneRecovers ==
  prunePc = "done" /\ trusted =>
    \A o \in Object : obj[o] \notin {"created", "running"}
=============================================================================
