----------------------- MODULE TargetSourceController -----------------------
(***************************************************************************)
(* The TargetSource controller for one TargetSource: the reconcile worker, *)
(* the registry of discovery runtimes and the goroutines it starts.        *)
(*                                                                         *)
(* One key is never reconciled twice at the same time, so there is one     *)
(* worker; it is interleaved step by step with the goroutines of the       *)
(* runtimes, with the watch and with the users of the API. The API server  *)
(* and the informer cache are external. Every write carries the resource   *)
(* version that was read and is refused when the object has moved on; of   *)
(* the versions only that is kept, whether the copy in the cache and the   *)
(* copy in the worker's hands still are the latest one.                    *)
(* A runtime behaves as RuntimeLifecycle says.                             *)
(***************************************************************************)
EXTENDS Naturals, FiniteSets

CONSTANTS
  Slots,          \* runtimes that may be alive at the same time
  NoSlot,         \* registry entry of a key that is not registered
  MaxGen,         \* bound on metadata.generation
  MaxUID,         \* bound on the times the object is created
  MaxStatus,      \* bound on status updates by message processors
  MaxFailures,    \* bound on calls that fail for other reasons than conflicts
  MaxRestarts,    \* bound on restarts of the operator
  MayFail         \* whether a processor may give up on a message

ASSUME SlotAssumption == NoSlot \notin Slots /\ IsFiniteSet(Slots)
ASSUME BoundAssumption ==
  /\ MaxGen \in Nat \ {0}       \* the API server counts from one
  /\ MaxUID \in Nat /\ MaxStatus \in Nat
  /\ MaxFailures \in Nat /\ MaxRestarts \in Nat /\ MayFail \in BOOLEAN

VARIABLES
  obj,            \* the TargetSource at the API server
  cache,          \* the TargetSource in the informer cache
  cacheFresh,     \* the cache has the latest resource version
  dirty,          \* the key waits in the work queue
  pc,             \* where Reconcile is
  held,           \* targetSource: the object Reconcile works on
  heldFresh,      \* held has the latest resource version
  registry,       \* DiscoveryRegistry entry of the key
  runtime,        \* the runtimes that were started and have not ended
  statusWrites, failures, restarts   \* counters for the bounds

vars == <<obj, cache, cacheFresh, dirty, pc, held, heldFresh, registry,
          runtime, statusWrites, failures, restarts>>
objVars == <<obj, cacheFresh, heldFresh, statusWrites, failures>>
workerVars == <<dirty, pc, held>>

Object ==
  [exists : BOOLEAN, deleting : BOOLEAN, fin : BOOLEAN, uid : 0..MaxUID,
   gen : 0..MaxGen, obs : 0..MaxGen]
Runtime ==
  [proc : {"none", "running", "ended", "done"},
   loader : {"none", "new", "running", "ended"},
   ctxDone : BOOLEAN, uid : 0..MaxUID, gen : 0..MaxGen]

Absent(uid) ==
  [exists |-> FALSE, deleting |-> FALSE, fin |-> FALSE, uid |-> uid,
   gen |-> 0, obs |-> 0]
NoRuntime ==
  [proc |-> "none", loader |-> "none", ctxDone |-> FALSE, uid |-> 0, gen |-> 0]

PCs == {"idle", "fetch", "ensureFinalizer", "check", "start", "observe",
        "stop", "unregister", "removeFinalizer"}

TypeOK ==
  /\ obj \in Object /\ cache \in Object /\ held \in Object
  /\ dirty \in BOOLEAN /\ cacheFresh \in BOOLEAN /\ heldFresh \in BOOLEAN
  /\ pc \in PCs
  /\ registry \in Slots \cup {NoSlot}
  /\ runtime \in [Slots -> Runtime]
  /\ statusWrites \in 0..MaxStatus
  /\ failures \in 0..MaxFailures
  /\ restarts \in 0..MaxRestarts

Init ==
  /\ obj = Absent(0)
  /\ cache = obj /\ cacheFresh = TRUE
  /\ held = Absent(0) /\ heldFresh = FALSE
  /\ dirty = FALSE
  /\ pc = "idle"
  /\ registry = NoSlot
  /\ runtime = [s \in Slots |-> NoRuntime]
  /\ statusWrites = 0 /\ failures = 0 /\ restarts = 0

(***************************************************************************)
(* Users of the API.                                                       *)
(***************************************************************************)
\* A change of the object by anybody but the worker: all copies are outdated.
Changed(new) ==
  /\ obj' = new
  /\ cacheFresh' = FALSE
  /\ heldFresh' = FALSE

Create ==
  /\ ~obj.exists
  /\ obj.uid < MaxUID
  /\ Changed([Absent(obj.uid + 1) EXCEPT !.exists = TRUE, !.gen = 1])
  /\ UNCHANGED <<cache, workerVars, registry, runtime, statusWrites, failures,
                 restarts>>

EditSpec ==
  /\ obj.exists
  /\ obj.gen < MaxGen
  /\ Changed([obj EXCEPT !.gen = @ + 1])
  /\ UNCHANGED <<cache, workerVars, registry, runtime, statusWrites, failures,
                 restarts>>

\* An object with a finalizer is only marked, which counts as a generation.
Delete ==
  /\ obj.exists
  /\ ~obj.deleting
  /\ \/ /\ obj.fin
        /\ obj.gen < MaxGen
        /\ Changed([obj EXCEPT !.deleting = TRUE, !.gen = @ + 1])
     \/ /\ ~obj.fin
        /\ Changed(Absent(obj.uid))
  /\ UNCHANGED <<cache, workerVars, registry, runtime, statusWrites, failures,
                 restarts>>

(***************************************************************************)
(* The watch. GenerationChangedPredicate lets creations, deletions and     *)
(* changes of the generation through, and nothing else.                    *)
(***************************************************************************)
GenerationChanged(old, new) ==
  old.exists # new.exists \/ old.uid # new.uid \/ old.gen # new.gen

CacheSync ==
  /\ ~cacheFresh
  /\ cache' = obj
  /\ cacheFresh' = TRUE
  /\ dirty' = (dirty \/ GenerationChanged(cache, obj))
  /\ UNCHANGED <<obj, heldFresh, statusWrites, failures, pc, held, registry,
                 runtime, restarts>>

(***************************************************************************)
(* Reconcile.                                                              *)
(***************************************************************************)
\* A write of the held object: the API server takes it when the version is
\* current and answers with the new version.
Write(new) ==
  /\ obj.exists
  /\ heldFresh
  /\ obj' = new
  /\ cacheFresh' = FALSE
  /\ UNCHANGED <<statusWrites, failures>>

\* The locals of Reconcile are gone when it returns.
Returns ==
  /\ pc' = "idle"
  /\ held' = Absent(0)
  /\ heldFresh' = FALSE

Continues(next) == pc' = next /\ UNCHANGED <<held, heldFresh>>

\* Faulty variant of WriteFails: the error is dropped, nothing is requeued.
WriteFailsSilently ==
  /\ \/ ~heldFresh /\ UNCHANGED failures
     \/ failures < MaxFailures /\ failures' = failures + 1
  /\ Returns
  /\ UNCHANGED <<dirty, obj, cacheFresh, statusWrites>>

\* A failed write ends Reconcile with an error: the key is requeued.
WriteFails ==
  /\ \/ ~heldFresh /\ UNCHANGED failures
     \/ failures < MaxFailures /\ failures' = failures + 1
  /\ Returns
  /\ dirty' = TRUE
  /\ UNCHANGED <<obj, cacheFresh, statusWrites>>

serverVars == <<obj, cache, cacheFresh, statusWrites, failures, restarts>>

Reconcile ==
  /\ pc = "idle"
  /\ dirty
  /\ dirty' = FALSE
  /\ Continues("fetch")
  /\ UNCHANGED <<serverVars, registry, runtime>>

\* Not found and marked for deletion both lead to the end of the runtime.
fetchTargetSource ==
  /\ pc = "fetch"
  /\ held' = cache
  /\ heldFresh' = cacheFresh
  /\ pc' = IF ~cache.exists \/ cache.deleting THEN "stop" ELSE "ensureFinalizer"
  /\ UNCHANGED <<serverVars, dirty, registry, runtime>>

\* A read that fails for another reason than NotFound requeues the key.
FetchFails ==
  /\ pc = "fetch"
  /\ failures < MaxFailures
  /\ failures' = failures + 1
  /\ dirty' = TRUE
  /\ Returns
  /\ UNCHANGED <<obj, cache, cacheFresh, statusWrites, registry, runtime,
                 restarts>>

\* Faulty variant of ensureFinalizer: the finalizer is never added.
ensureFinalizerSkipped ==
  /\ pc = "ensureFinalizer"
  /\ Continues("check")
  /\ UNCHANGED <<serverVars, dirty, registry, runtime>>

ensureFinalizer ==
  /\ pc = "ensureFinalizer"
  /\ \/ /\ held.fin
        /\ Continues("check")
        /\ UNCHANGED <<obj, cacheFresh, statusWrites, failures, dirty>>
     \/ /\ ~held.fin
        /\ Write([held EXCEPT !.fin = TRUE])
        /\ held' = obj'
        /\ pc' = "check"
        /\ UNCHANGED <<heldFresh, dirty>>
     \/ ~held.fin /\ WriteFails
  /\ UNCHANGED <<cache, registry, runtime, restarts>>

\* Faulty variant of CheckRegistry: a registered runtime is always kept.
CheckRegistryOnly ==
  /\ pc = "check"
  /\ \/ registry = NoSlot /\ Continues("start")
     \/ registry # NoSlot /\ Returns
  /\ UNCHANGED <<serverVars, dirty, registry, runtime>>

\* Exists, and the comparison of the generation with the observed one.
CheckRegistry ==
  /\ pc = "check"
  /\ \/ registry = NoSlot /\ Continues("start")
     \/ registry # NoSlot /\ held.gen # held.obs /\ Continues("stop")
     \/ registry # NoSlot /\ held.gen = held.obs /\ Returns
  /\ UNCHANGED <<serverVars, dirty, registry, runtime>>

\* Only the worker registers, so Register meets no entry.
startDiscovery(s) ==
  /\ pc = "start"
  /\ runtime[s] = NoRuntime
  /\ registry' = s
  /\ runtime' = [runtime EXCEPT ![s] =
       [proc |-> "running", loader |-> "new", ctxDone |-> FALSE,
        uid |-> held.uid, gen |-> held.gen]]
  /\ Continues("observe")
  /\ UNCHANGED <<serverVars, dirty>>

\* NewLoader refuses the spec: the key is cleaned up and requeued.
StartFails ==
  /\ pc = "start"
  /\ failures < MaxFailures
  /\ failures' = failures + 1
  /\ registry' = NoSlot
  /\ dirty' = TRUE
  /\ Returns
  /\ UNCHANGED <<obj, cache, cacheFresh, statusWrites, runtime, restarts>>

\* Faulty variant of Observed: one generation ahead.
ObservedAhead(o) == [o EXCEPT !.obs = o.gen + 1]

Observed(o) == [o EXCEPT !.obs = o.gen]

UpdateObservedGeneration ==
  /\ pc = "observe"
  /\ \/ Write(Observed(held)) /\ Returns /\ UNCHANGED dirty
     \/ WriteFails
  /\ UNCHANGED <<cache, registry, runtime, restarts>>

\* The runtime is off the registry: the finalizer is next, if the object was
\* there to be read.
AfterStop ==
  \/ held.exists /\ Continues("removeFinalizer")
  \/ ~held.exists /\ Returns

\* Get and Stop of the registered runtime.
StopRuntime ==
  /\ pc = "stop"
  /\ \/ /\ registry # NoSlot
        /\ runtime' = [runtime EXCEPT ![registry].ctxDone = TRUE]
        /\ Continues("unregister")
     \/ /\ registry = NoSlot
        /\ AfterStop
        /\ UNCHANGED runtime
  /\ UNCHANGED <<serverVars, dirty, registry>>

\* Faulty variant of UnregisterRuntime: the entry stays.
UnregisterRuntimeForgotten ==
  /\ pc = "unregister"
  /\ AfterStop
  /\ UNCHANGED <<serverVars, dirty, registry, runtime>>

UnregisterRuntime ==
  /\ pc = "unregister"
  /\ registry' = NoSlot
  /\ AfterStop
  /\ UNCHANGED <<serverVars, dirty, runtime>>

\* Without its last finalizer an object marked for deletion is gone.
RemoveFinalizer ==
  /\ pc = "removeFinalizer"
  /\ \/ /\ ~held.fin
        /\ Returns
        /\ UNCHANGED <<obj, cacheFresh, statusWrites, failures, dirty>>
     \/ /\ held.fin
        /\ Write(IF held.deleting THEN Absent(held.uid)
                 ELSE [held EXCEPT !.fin = FALSE])
        /\ Returns
        /\ UNCHANGED dirty
     \/ held.fin /\ WriteFails
  /\ UNCHANGED <<cache, registry, runtime, restarts>>

Worker ==
  \/ Reconcile \/ fetchTargetSource \/ FetchFails
  \/ ensureFinalizer \/ CheckRegistry
  \/ \E s \in Slots : startDiscovery(s)
  \/ StartFails \/ UpdateObservedGeneration
  \/ StopRuntime \/ UnregisterRuntime \/ RemoveFinalizer

(***************************************************************************)
(* The goroutines of a runtime. A runtime both of whose goroutines are     *)
(* over leaves its slot.                                                   *)
(***************************************************************************)
Settled(r) == IF r.proc = "done" /\ r.loader = "ended" THEN NoRuntime ELSE r

\* Run of the message processor returns, because it is cancelled or because
\* a message failed, and its goroutine begins the cleanup: the context is
\* cancelled, then the key is unregistered, whoever holds it by now.
ProcessorEnds(s) ==
  /\ runtime[s].proc = "running"
  /\ runtime[s].ctxDone \/ MayFail
  /\ runtime' = [runtime EXCEPT ![s].proc = "ended", ![s].ctxDone = TRUE]
  /\ UNCHANGED <<objVars, cache, workerVars, registry, restarts>>

CleanupUnregisters(s) ==
  /\ runtime[s].proc = "ended"
  /\ runtime' = [runtime EXCEPT ![s] = Settled([@ EXCEPT !.proc = "done"])]
  /\ registry' = NoSlot
  /\ UNCHANGED <<objVars, cache, workerVars, restarts>>

LoaderStarts(s) ==
  /\ runtime[s].loader = "new"
  /\ runtime' = [runtime EXCEPT ![s].loader = "running"]
  /\ UNCHANGED <<objVars, cache, workerVars, registry, restarts>>

\* Run of the loader returns; nothing else follows.
LoaderEnds(s) ==
  /\ \/ runtime[s].loader = "new"
     \/ runtime[s].loader = "running" /\ runtime[s].ctxDone
  /\ runtime' = [runtime EXCEPT ![s] = Settled([@ EXCEPT !.loader = "ended"])]
  /\ UNCHANGED <<objVars, cache, workerVars, registry, restarts>>

\* updateTargetSourceStatus: a fresh read and a status write, repeated on
\* conflicts until the cache has caught up.
ProcessorUpdatesStatus(s) ==
  /\ runtime[s].proc = "running"
  /\ ~runtime[s].ctxDone
  /\ obj.exists
  /\ cacheFresh
  /\ statusWrites < MaxStatus
  /\ statusWrites' = statusWrites + 1
  /\ Changed(obj)
  /\ UNCHANGED <<cache, workerVars, registry, runtime, failures, restarts>>

\* The operator process dies between any two steps and comes back: registry
\* and runtimes are lost, the cache is filled, the object is enqueued.
OperatorRestart ==
  /\ restarts < MaxRestarts
  /\ restarts' = restarts + 1
  /\ registry' = NoSlot
  /\ runtime' = [s \in Slots |-> NoRuntime]
  /\ pc' = "idle"
  /\ cache' = obj
  /\ cacheFresh' = TRUE
  /\ held' = Absent(0)
  /\ heldFresh' = FALSE
  /\ dirty' = obj.exists
  /\ UNCHANGED <<obj, statusWrites, failures>>

RuntimeStep(s) ==
  \/ CleanupUnregisters(s) \/ LoaderStarts(s) \/ LoaderEnds(s)

Next ==
  \/ Create \/ EditSpec \/ Delete \/ CacheSync \/ Worker
  \/ \E s \in Slots : \/ ProcessorEnds(s) \/ RuntimeStep(s)
                      \/ ProcessorUpdatesStatus(s)
  \/ OperatorRestart

Spec == Init /\ [][Next]_vars

\* The worker and the watch make progress and a goroutine that is done with
\* its work goes on; a processor ends for sure only once it is cancelled.
Fairness ==
  /\ WF_vars(Worker)
  /\ WF_vars(CacheSync)
  /\ \A s \in Slots :
       /\ WF_vars(RuntimeStep(s))
       /\ WF_vars(runtime[s].ctxDone /\ ProcessorEnds(s))

FairSpec == Spec /\ Fairness

-----------------------------------------------------------------------------
Alive(s) == runtime[s].proc = "running" /\ ~runtime[s].ctxDone

\* Nothing the controller still has to react to.
Quiet == pc = "idle" /\ ~dirty /\ cacheFresh

\* A runtime that stays registered runs the current spec of the current
\* object, and the status says so: whatever edits, conflicts, deletions,
\* recreations and restarts came in between, an outdated runtime never
\* survives in the registry once the controller has settled.
RegisteredRuntimeIsCurrent ==
  Quiet /\ registry # NoSlot =>
    /\ obj.exists /\ ~obj.deleting
    /\ obj.obs = obj.gen
    /\ runtime[registry].uid = obj.uid /\ runtime[registry].gen = obj.gen

\* While a runtime is registered and the controller has settled, the object
\* carries the finalizer: it cannot disappear without the controller being
\* asked to stop the runtime first.
RegisteredHoldsFinalizer == Quiet /\ registry # NoSlot => obj.fin

\* A registered runtime whose context is cancelled is about to be
\* unregistered, by the worker or by its own cleanup: Exists never keeps
\* reporting a runtime that is gone.
NoZombieRegistration ==
  registry # NoSlot /\ ~Alive(registry) =>
    pc = "unregister" \/ runtime[registry].proc = "ended"

\* An object marked for deletion goes away: the finalizer is removed in the
\* end, however conflicts, restarts and late cleanups interleave.
DeletionCompletes ==
  \A u \in 1..MaxUID :
    (obj.uid = u /\ obj.deleting) ~> ~(obj.uid = u /\ obj.exists)

\* "Ensure at most one discovery runtime per TargetSource": no two runtimes
\* that nobody has told to stop.
AtMostOneRuntime ==
  \A s, t \in Slots : Alive(s) /\ Alive(t) => s = t

-----------------------------------------------------------------------------
(***************************************************************************)
(* Why the registered runtime is the current one: the inductive invariant. *)
(***************************************************************************)
SameGeneration(c, o) == ~GenerationChanged(c, o)

\* c is a version of the object that o was, or still is.
Older(c, o) ==
  \/ c.uid < o.uid
  \/ /\ c.uid = o.uid
     /\ o.exists =>
          /\ c.exists
          /\ c.gen <= o.gen
          /\ c.gen = o.gen => c.deleting = o.deleting /\ c.obs <= o.obs

\* The status says that the spec of this version was taken over.
IsObserved(o) == o.exists /\ o.obs = o.gen

\* Past the read the worker holds a version of the object.
Working == pc \notin {"idle", "fetch"}

\* The copies: a fresh one is the object itself, the others are older, and
\* the worker has missed a new generation only if the key is queued again.
VersionsInv ==
  /\ obj.obs <= obj.gen
  /\ Older(cache, obj)
  /\ cacheFresh => cache = obj
  /\ heldFresh => Working /\ held = obj /\ SameGeneration(cache, obj)
  /\ Working => Older(held, obj)
  /\ Working /\ ~dirty => SameGeneration(held, cache)

\* What the worker has found out about the version it holds.
WorkerInv ==
  /\ pc \in {"ensureFinalizer", "check", "start", "observe"} =>
       held.exists /\ ~held.deleting
  /\ pc \in {"check", "start", "observe"} => held.fin
  /\ pc \in {"stop", "unregister", "removeFinalizer"} =>
       held.deleting \/ ~IsObserved(held)
  /\ pc \in {"start", "removeFinalizer"} => registry = NoSlot

\* The registered runtime, whose cleanup has not unregistered it, was started
\* from the version the worker is about to mark as observed.
RuntimeInv ==
  registry # NoSlot =>
    /\ runtime[registry].proc \in {"running", "ended"}
    /\ pc = "observe" => /\ runtime[registry].uid = held.uid
                         /\ runtime[registry].gen = held.gen

\* An observed version carries the finalizer, is no news to the watch nor to
\* the worker, and is what the registered runtime was started from.
ObservedInv ==
  /\ IsObserved(obj) => obj.fin /\ SameGeneration(cache, obj)
  /\ \A c \in {obj, cache} : Working /\ IsObserved(c) => SameGeneration(held, c)
  /\ \A c \in {obj, cache} \cup (IF Working THEN {held} ELSE {}) :
       registry # NoSlot /\ IsObserved(c) =>
         runtime[registry].uid = c.uid /\ runtime[registry].gen = c.gen

\* A worker that is done and leaves a runtime registered has observed it, or
\* the watch is about to report a newer generation.
DoneInv ==
  pc = "idle" /\ ~dirty /\ registry # NoSlot =>
    \/ GenerationChanged(cache, obj)
    \/ IsObserved(obj) /\ ~obj.deleting

RegistrationInv ==
  /\ TypeOK /\ VersionsInv /\ WorkerInv /\ RuntimeInv /\ ObservedInv /\ DoneInv
  /\ NoZombieRegistration

=============================================================================
