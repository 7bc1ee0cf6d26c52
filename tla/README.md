# gNMIc operator: TLA+ models, checks and proofs

The gNMIc operator is a Kubernetes operator: it discovers network devices, turns
them into `Target` resources, distributes the targets over the pods of gNMIc
clusters and reports back how the pods collect them. This directory holds TLA+
modules translated from the operator's source, TLC configurations that check
them on small instances, and proofs that TLAPS checks for every value of the
constants. `PROJECT.json` maps every definition to the lines it models.

## 1. Inventory

| Component | State it keeps | Operations | Talks to |
|---|---|---|---|
| HTTP loader (`discovery/loaders/http`, `loaders/utils`) | page being fetched, pages seen, list collected, chunks not sent yet | poll, follow pages, cut the list into chunks, send | external endpoint; discovery channel; context of the runtime |
| Message processor (`discovery/message_processor.go`, `client.go`, `mapper.go`) | message queue, snapshot buffer, deferred events, counter | receive, collect chunk, apply snapshot, apply or defer event | channel; Kubernetes API through a cached client |
| TargetSource controller and registry (`targetsource_controller.go`, `discovery/registry.go`) | registry entry, finalizer, observed generation, goroutines | reconcile, start, stop, clean up | watch and work queue; the two goroutines of every runtime |
| Placement (`gnmic/placement_blrh.go`, `distribute.go`) | none between rounds; reads `status.clusterStates` of the targets | keep, place | plan builder, target status |
| TargetState controller (`targetstate_controller.go`, `gnmic/sse.go`) | one stream goroutine per pod | reconcile, SSE event, poll, clean up, conflict retry | pods; status of the targets, shared by all clusters |
| Plan builder (`gnmic/plan.go`, `target.go`, `output.go`, ...) | relationships of one build | collect, build, assign ports | cluster controller |
| Resolution and watches (`cluster_controller.go`) | work queue; status of the pipelines | map an event to clusters, list and resolve pipelines | informer caches of ten kinds of resources; plan builder |
| Cluster controller (`cluster_controller.go`) | plan cache; StatefulSet, services, certificates, config map, finalizer, status | reconcile, apply to pods, clean up | Kubernetes API, cert-manager, pods |
| Pipeline controller (`pipeline_controller.go`) | status of the pipelines, shared with the cluster controller | reconcile | Kubernetes API |
| Webhooks, policy controller, plan API server, API types, `cmd` | none | validation, serving, wiring | - |

What is hard in this code, and hardly reached by its tests:

* goroutines sharing one channel and one context, shut down at any point: a
  sender blocked on a full channel, a processor ending in the middle of a snapshot;
* late clean-up of a runtime that was replaced under the same registry key;
* reads from a lagging informer cache, conflicts, watches filtered by generation;
* the status of one `Target` written by every cluster that collects it;
* lost, late and out-of-order events repaired by polling;
* capacity, rounding and stickiness of the placement after scaling;
* a reconcile of a dozen dependent writes that may stop between any two of them,
  decided on caches that lag behind its own writes;
* events that are mapped to clusters by what pipelines select at the moment they
  are handled, while a reconcile reads the same resources one by one;
* pods configured one after the other over HTTP, and replaced meanwhile.

The full list, each at its line, is under `hazards` in `PROJECT.json`.

## 2. Modules

| Module | Models | How state and actions correspond |
|---|---|---|
| `DiscoveryChannel` | `core/types.go`, `send.go` | messages, buffered channel (`channel`), cancelled context (`ctxDone`) |
| `HTTPLoader` | `loaders/http/loader.go`, `send.go` | `loaderPC` is the place in `Run`; `FetchPage`, `PaginationLoop`, `FetchFails` are one turn of the page loop, `SendChunk`/`SendAborted` the two cases of the `select` |
| `MessageProcessor` | `message_processor.go`, `client.go`, `mapper.go` | `active` is `activeSnapshot`, `deferred` is `deferredEvents`; one action per outcome of `processSnapshot`, `processEvent` and per API call of `applySnapshot`; `targets` is the API server, `cached` the informer cache |
| `DiscoveryPipeline` | a runtime as `startDiscovery` builds it | composes loader, processor, a push endpoint, stop and clean-up |
| `RuntimeLifecycle` | abstract specification | what a runtime promises to the controller: the life of two goroutines and their context |
| `TargetSourceController` | `targetsource_controller.go`, `registry.go` | `pc` is the place in `Reconcile`; runtimes behave as `RuntimeLifecycle`; resource versions are kept as "is this copy the latest" |
| `Placement` | `placement_blrh.go`, `distribute.go`, the current assignment of `plan.go` | a round is the keep loop and the place loop; `NextRound` is the next reconcile |
| `TargetState` | `targetstate_controller.go`, `sse.go` | `stream` are the goroutines of `runStream`, `writer` the get-modify-update loop each is in, `worker` is `Reconcile` |
| `PlanBuilder` | `plan.go` and the `build...Config` functions | operators only: `datas` is `PlanBuilder.pipelines`; relationships are unions over the pipelines, the order of Go maps is a parameter (`order`, `lists`); `assignPorts` is the probing itself |
| `PipelineResources` | watches, resolution and plan building of `cluster_controller.go`; `pipeline_controller.go` | `res` and `pipe` are the informer caches, `pending` events on their way to the `find...` functions, `queue` the work queue, `worker` a reconcile between two pipelines (`todo` as listed, `data` resolved so far); `plan` and `source` the plan and what it was built from |
| `ClusterController` | `Reconcile`, `applyConfigToPods`, certificates and clean-up of `cluster_controller.go`, `cluster_controller_plan.go` | a reconcile is the list of its remaining steps (`worker.todo`), one action per function that writes; `store` is the API server, `seen` the caches; certificates, pods and the garbage collector are the world around it |
| `LoaderProofs`, `DiscoveryProofs`, `TargetSourceProofs`, `PlacementProofs`, `TargetStateProofs`, `PortProofs`, `PlanProofs`, `ClusterProofs` | theorems | see section 5; `DiscoveryProofs` builds on `LoaderProofs`, `PlanProofs` on `PortProofs` |
| `MCDiscovery`, `MCLoader`, `MCTargetSource`, `MCPlacement`, `MCTargetState`, `MCPlan`, `MCCluster` | small instances | values of the constants |

Operators whose comment starts with "Faulty variant" are not part of any
specification. They are plausible bugs; putting one in the place of the operator
it varies makes the property named for it in `PROJECT.json` fail, which shows
that the property depends on that piece of code.

How the three models of the cluster controller fit together. `PipelineResources`
ends with a plan; `ClusterController` begins with one and takes it as the set of
pipelines it was built from, which is enough to tell an old configuration from the
present one; `Placement` shows what `ClusterController` takes for granted of a
distribution (`Distributions`: the ceiling holds, a target stays unassigned
only when all pods are full, and it may be on two pods, which happens when the copies
of it that two pipelines read reported different pods), and `TargetState` shows how
the status that placement reads comes about. Each leaves the others' steps out, not their interleavings:
pipelines change between any two steps of a reconcile, resources between any two
pipelines.

Abstractions. A resource is its labels, its profile and a revision that stands for
the rest of its spec. A configuration is what it is built from and what it refers
to. A StatefulSet is its replicas, volumes and ready pods; a version of it that the
cache does not show yet is marked `unseen`, since the spec may be back at an
earlier value while the resource version is not. A target is a name and a port (0 if none was discovered), enough to
tell specs apart; what a page contains after JSON decoding and CEL mapping is
data. Log messages, URLs, TLS set-up and authentication are left out, their
failure is a failing start or request. A status entry is a pod and whether the
target is healthy, which is all `computeStatusSummary` looks at. The hash of the
placement is an arbitrary function, so collisions and bad luck are included.
In `TargetState` the contents of an outdated copy are forgotten, since its update is
refused whatever it holds, and so are the events of a cancelled stream, whose update fails
before it is sent.
External parts (API server, caches, pods, users, the inventory) are modelled from
how the code uses them and marked so in the map.

## 3. Runs

Passing runs:

| Run | Shows |
|---|---|
| `discovery` | `SnapshotAssembled`: the buffer never mixes snapshots. `NoCompleteSnapshotPending`: the "apply the old complete snapshot first" branch is dead unless the runtime is ending. `SnapshotConverges`: an undisturbed snapshot (no stale read, no failed call) leaves exactly the fetched list; what happens after a disturbed one is for `ConvergesToSource`. `DeletesJustified`: a Target goes only for a delete event or for a complete snapshot that lists it in none of its chunks |
| `discovery_live` | `ImplementsLifecycle`: refinement of `RuntimeLifecycle` with fairness. `ConvergesToSource`: a source that keeps one answer is reached and kept, with a failed request, a failed API call, a lagging cache and a pushed chunk out of range before. It is claimed for `PlainAnswer` only: one page, not empty, no name twice. The source of the run also answers with the empty list on the way, which is refused |
| `loader` | `ChunksReassemble`, `PaginationTerminates`, `LoaderStopsOnCancel` on three pages with cycles, broken links and empty pages |
| `targetsource` | `RegisteredRuntimeIsCurrent`, `RegisteredHoldsFinalizer`, `NoZombieRegistration` under edits, deletion and recreation, conflicts and failing processors |
| `targetsource_restart` | `DeletionCompletes` and the currency of the runtime with a restart of the operator and a failing call anywhere |
| `placement` | For every report of pods, several for one target included: `CapacityRespected`; `AssignedOnce`: two pods share a target only if both were reported for it; `UnassignedIsOverflow`: as many targets are left out as places are missing, where a target kept on two pods takes two; `MovesOnlyOverflow`, `Reproducible` |
| `targetstate` | `OneStreamPerPod`, `NoLostUpdates`, and `ConvergesToPods`: after lost and late events, conflicts retried and given up, and a Target that has left one pod for the other, polling brings the status to what the pods report |
| `plan` | `SettledIsCurrent`: no trigger is lost, a cluster at rest has a plan made from what its pipelines select now. `PlansAreClosed`: a plan refers to nothing it does not contain, also when its pipelines saw different versions. `PipelinesDelivered`: sharing targets and subscriptions takes no subscription, output or processor from any pipeline (processors as sets, tunnel policies aside). `PortsComplete`: for all hashes, as many names as ports get distinct ports, and in every plan the outputs of one pipeline have distinct ports (those of two pipelines need not, see below) |
| `cluster` | `CertificatesFirst`: no pod is asked for before its certificates were issued, although the mounts are optional. `SettledIsApplied`: at rest, surplus pods gone, the pods run the present plan, the objects are those of the present spec, and the conditions tell so if the last write of them was made. `CleanupComplete`, `DeletionCompletes`: a deleted cluster goes and leaves no workload, headless or Prometheus service or plan (a tunnel service may stay). `Converges`: it comes to rest |

Runs that find the code in disagreement with what the repository says of it
(`findings` quotes the lines):

| Run | Shows |
|---|---|
| `deferred` | events deferred during a snapshot are never applied: the replay defers them again and drops them |
| `one_runtime` | two live runtimes for one TargetSource: a late clean-up unregisters the successor |
| `stop_collecting` | a pod that lost its last target, or whose pipelines were all disabled, is passed over by `applyConfigToPods` and keeps collecting; `ConfigApplied` is true |

`RegisteredRuntimeIsCurrent` holds in spite of `one_runtime`: what is registered
is current, but a current runtime may be missing or run unregistered.
`SettledIsApplied` and `Converges` hold in spite of `stop_collecting` because they
speak of pods that have a share of the targets.

`SettledIsApplied` asks that surplus pods are gone (`ScaledDown`). Without it a longer
history than the run's refutes it, met in the attempt to prove it: a StatefulSet is
scaled from two replicas to one while its pod 0 is lost and pod 1 is not terminated
yet. `ReadyReplicas` is 1, which is what the spec asks for, so the reconcile goes on and,
as there is nothing to send to pod 0, reports the configuration as applied. The operator is
done; that pod 0 comes back is the StatefulSet controller's work, and its report
queues the cluster again. The comparison of `ReadyReplicas` with the replicas
(`cluster_controller.go:503`) cannot tell one pod from the other.

Further disagreements between code and documentation, met while modelling and not
given a run of their own:

* `send.go:56-58` treats an empty answer as an error, so the last device of a source
  keeps its Target; `targetsource.md:233-234`: "When a device is no longer
  discovered: 1. The `Target` resource is deleted".
* `targetsource_controller.go:95-96` stops the runtime on a new generation, removes
  the finalizer and returns; the update is filtered by the generation predicate and
  nothing starts the new runtime. The comment at line 43: "Restart runtime on
  reconcile if spec changed".
* `plan.go:148-163` joins outputs per subscription over all pipelines, so two
  pipelines that share a subscription send to each other's outputs;
  `resource-model.md:183` says that sharing works "while preserving
  pipeline-specific processing and outputs".
* a status update that fails is logged and the reconcile ends without a requeue
  (`cluster_controller.go:655-666`), so the conditions may stay wrong until something
  else queues the cluster; `cluster.md:431`: "The Cluster status shows the current state:".
  This is why `SettledIsApplied` speaks of conditions whose last write was made.
* pipelines read their targets one after the other from a live cache, and
  `plan.go:179-194` lists a target that two of them share under the pod of either copy.
  If its status changed in between, `placement_blrh.go:76-98` keeps it on both pods;
  `distribute_test.go:69`: "each target should appear exactly once",
  `resource-model.md:183`: shared targets are "instantiated only once". It then takes
  two places, so that a target may be left out although no capacity is configured (the
  blog of 2026-04-12, line 230: "Without it, the operator always assigns every target").
* with the automatic capacity, the number of targets sets the ceiling of every pod, so
  removing one may move others; `target-distribution.md:112-113`: "Other targets'
  assignments are unaffected when current assignments are provided."
* `plan.go:215-227` collects the processors of an output or input in a set, so one
  that is listed twice is attached once; `processor.md:176-178`: "You can list the same
  processor multiple times", and the comment at `cluster_controller.go:2578` says the
  same. `PlansAreClosed` and `PipelinesDelivered` therefore count none.
* `plan.go:215-243` takes the order of processors from a map; the comments there:
  "the slice maintains the order from the pipeline". `OutputProcessorOrder` and
  `InputProcessorOrder` are filled and never read.
* a processor that is referenced and missing is logged as skipped
  (`cluster_controller.go:2593`) and then appended without a name (`Nameless`).
* every pipeline starts with an empty port pool (`plan.go:447-458`), so outputs of two
  pipelines may get the same port, as those of `p1` and `p2` do in the `plan` run (`resource-model.md:188`: the operator must "manage scrape
  endpoint port allocation to avoid conflicts"), and an
  explicit port is used for the service (`cluster_controller.go:3296-3300`) while
  the output is made to listen on the assigned one (`plan.go:447-465`).
* the pipeline controller overwrites the status `Active`, `Incomplete` or `Error` of
  the cluster controller with `Ready`, and the documentation (`pipeline.md:337`)
  describes the former.
* the stream subscriptions of a subscription are looked up by plain name in a map
  with keys `namespace/name` (`subscription.go`), and connection settings of a profile are taken
  over only on some paths of `buildTargetConfig` (`target.go`).

Bounds and why they are enough:

* two device names, lists of one and two targets, chunk size 1 and channel
  capacity 1: a snapshot of two chunks does not fit the channel, so a sender
  blocks, snapshots overlap with pushes, and a name appears and disappears. Two
  identifiers suffice because an identifier is only reused once nothing in flight
  carries it; they are symmetric. One pushed batch (an event pair, a first chunk, or a chunk
  out of range) and one failing API call interleave with everything;
* the `loader` run takes chunk size 2 and lists of length 1 to 5, on both sides
  of a multiple;
* `targetsource`: three generations (two edits, or an edit and a deletion), two
  lives of the object and two slots for runtimes. A start waits for a free slot,
  so at most two runtimes overlap; the late clean-up needs exactly two;
* `placement`: three targets, up to three pods, capacities 0 (automatic), 1 and 2,
  three hash functions (favourite pod, spread, all ties), every initial report, where
  a target may be reported by any set of pods;
* `discovery_live`: two one-target answers and the empty one, each replacing any other,
  chunks of one target, one failed request, one failed API call, one pushed chunk out of range;
* `targetstate`: one cluster with two pods, two slots for streams, one failure, and two
  changes, which may both be of pods (the Target leaves one and appears on the other,
  and the delete of the former arrives late) or one of the spec. Two attempts stand for
  `maxConflictRetries` = 5, so that a retry and giving up both happen. A second
  cluster on the same status is beyond the time of a run: the theorems of section 5
  show `TypeOK`, `OneStreamPerPod` and `NoLostUpdates` for any number, while
  `ConvergesToPods` is shown for one;
* `plan`: two clusters (one with a tunnel), two pipelines and eleven resources, so that
  targets, subscriptions and profiles are shared, labels come and go, a referenced
  processor is missing, a pipeline moves to the other cluster or to an unknown one.
  Two changes: one that a reconcile half way through meets, and one that
  crosses its event; a status write of a pipeline that fails counts as one of them. A pool of three ports stands for 1009, a prime as well, which is
  what `PortsComplete` rests on (`PortProofs` proves it for every prime); it tries all hashes for zero to four names, and the outputs of the instance
  collide in start and step;
* `cluster`: two specs that differ in scale, capacity and kinds of certificates, two
  pipelines that share a target; two edits (creation included) and one fault of any
  kind at any point, a lost status write included. Two pods suffice for a round that fails half way and for
  scaling; more targets than capacity for an exhausted cluster. A cluster name is used again
  only after the garbage collector is done with the former one.

Deadlock is not checked where the system may stop: a runtime that has ended, and
controllers that have nothing to do once the bounded changes are used up.
`placement` checks it.

## 4. Fairness

* Goroutines and the reconcile worker keep running: weak fairness of their steps.
  A step they are blocked in (a send on a full channel, an API call) is not
  enabled and nothing is assumed of it.
* Watches deliver: weak fairness of `CacheSync`, and of `Informer` in `ClusterController`.
* In `ClusterController` weak fairness of `Reconcile` (a queued cluster is taken and its
  steps go on), of `Informer` and of `Kubernetes` (cert-manager, kubelet, StatefulSet and
  garbage collector) as a whole each: none of the three can be kept busy for ever
  without the others once users and faults rest.
* Go's `select` chooses at random among ready cases, so a cancelled context next
  to a ready ticker is taken in the end: strong fairness of `LoaderStops`.
  In `TargetState` weak fairness is enough: a stream connects, keeps polling and
  taking events while it is connected, and exits when it is cancelled.
* Nothing is assumed of users, of the inventory, of failures, of a push endpoint,
  of pods changing their mind, or that a processor fails.

## 5. Proofs

Proved with TLAPS, for all values of the constants that satisfy the named
assumptions of the modules. Apart from finite sets, positive sizes and distinct
special values these are: names of different kinds of resources differ, a reference
names a resource of the kind it is for and `spec.profile` is given (the CRD
requires it); hashes are natural numbers (`hash32` returns a `uint32`); the port pool
is a prime (1009 in the code), stated as "no product of two numbers below it is a
multiple of it"; an error is not a port map; the name of a Prometheus service
(`gnmic-<cluster>-prom-...`, `cluster_controller.go:3312`) is neither that of the
headless service nor that of the tunnel service. TLC evaluates each of them for the
constants of its runs.

Every inductive invariant is a definition next to the properties it is for and was
checked by TLC before it was proved.

* `LoaderProofs`: `LoaderTypeCorrect` and `NothingLostInChunks`. `ChunksInv` adds to
  `ChunksReassemble` that the chunks still to be sent are the last ones of one fetched
  list (`Remaining`). What they flatten to is a recursive function; that the parts
  of a list between growing positions flatten to one part of it
  (`FlattenParts`) is shown with the first index at which it would fail.
* `DiscoveryProofs`: `TypeCorrect`, `SnapshotAssembly` and
  `LifecycleImplemented`. `SnapshotAssembled` alone is not inductive: it says
  nothing of chunks still on their way. The inductive invariant `AssemblyInv` adds
  that every chunk in `pending`, in the channel and in the queue is the part of
  the fetched list that its index announces (`Faithful`), and that a snapshot under application is
  complete; that a fresh identifier is carried by nothing in flight (the one thing
  assumed of uuids) is what keeps it. That
  a complete buffer holds every index follows from a cardinality argument on
  `0..total-1`. The safety part of the refinement of `RuntimeLifecycle` uses the
  same invariant.
  `NoCompleteSnapshotMet`, `SnapshotsConverge` and `DeletesAreJustified` follow the
  application of a snapshot with `ApplyInv`: what was assembled so far is the
  beginning of the fetched list; between two snapshots nothing is left of the last one;
  and while entries are applied in order, every Target has the spec of the last
  entry of its name that was applied, or, if it is not listed, is gone or about to be
  deleted.
* `TargetSourceProofs`: `ControllerTypeCorrect`, `CurrentRuntime`, `FinalizerHeld`,
  `NoZombies`, from `RegistrationInv`: how far the cache and the worker's copy may lag
  behind the object, with a queued key as the only excuse for a missed generation
  (`VersionsInv`); what the worker knows at each step (`WorkerInv`); and that an observed
  generation is the one the registered runtime was started from (`ObservedInv`).
  The argument does not use that there is one live runtime, which
  `one_runtime` refutes.
* `PlacementProofs`: `HardCeiling` and `UniqueAssignment`, from `PlacementInv`,
  which adds that during the keep phase a pod holds only targets reporting that
  pod: this is why two pods keep the same target only if both were reported for it, and
  a target that was kept is not placed again. `TargetsStay`, `RepeatsItself`,
  `OverflowIsExact` and `PlacementTypeCorrect` from `StickyInv`, which adds that a pod
  that was looked at has kept all its targets or a full capacity of the best
  (`KeptInv`), that a target is passed over only when all pods are full, and what
  a repeated round starts from.
* `TargetStateProofs`: `StateTypeCorrect` and `UpdatesNotLost`, from `CopiesInv`: a
  copy counted as the latest version equals the status at the API server, in the
  cache and in every writer's hands. This is what makes a get-modify-update of
  one entry safe for the others, and shows that whoever replaces an entry has read
  the entry it replaces. `StreamsFollowPods` from `StreamsInv`: while the worker is
  busy with a cluster no live stream follows its pods, and it is about to start those of the
  replicas wanted now unless the cluster is queued again.
* `PortProofs`: `ProbingIsComplete`. Two probes of one name that meet would make a
  product of two numbers below the pool size a multiple of it, so the probes
  visit the whole pool (`ProbeFindsPort`), and some port is free as long as fewer names
  than ports have one. `assignPorts` is a recursive function: its recursion is
  justified (`LoopExists`) and followed (`AssignedPorts`) by looking at the first
  name at which it would go wrong.
* `PlanProofs`: `PlanTypeCorrect`, `NoTriggerLost`, `ClosedPlans`, `PlansDeliver` from
  `PlanInv`. Its core is `TriggerInv`: a cluster is queued, or an event is on its way
  that will be mapped to it, or nothing is outdated, neither in its plan nor in a
  reconcile half way through its pipelines. `PortsAreComplete` adds the ports of
  every plan to `PortProofs`.
* `ClusterProofs`: `ClusterTypeCorrect`; `CertificatesBeforePods` from
  `CertificatesInv`: issued certificates have their secrets, which nobody deletes, and
  a reconcile that has yet to write the StatefulSet has yet to wait for its certificates or
  has their secrets (`SecretsInv`); `CleanupIsComplete` from `CleanupInv`: what a
  clean-up has deleted already is gone or not in the cache yet, so that its arrival there
  asks for another reconcile.
  `AppliedWhenSettled` from `AppliedInv`. It speaks of the time in which the cluster is
  live and not queued (`Calm`): then the reconcile works on the present cluster and
  pipelines, since any edit would have queued it. Each part of what is to be
  established has a step that is still to come or is established by now: services
  (`ServicesInv`, `PrometheusInv`), certificates (`IssuedInv`), the plan (`PlanInv`), the
  StatefulSet (`SetInv`), the requests (`RoundInv`). "Established" has to allow for
  what the reconcile could not see: a service that is in the cache or at the API
  server but not in both is about to be delivered, and the delivery queues the cluster;
  a StatefulSet with an unseen version likewise, and a pod that was lost or is being
  replaced (`Excused`) will be reported by such a version. During a round the pods served so far are
  configured (`ServedInv`); after it the status, if it was written, tells the truth about all of
  them (`StatusInv`); a round that failed ends in the queue again. At rest no step is left
  and nothing is unseen. That all pods run then follows from their number: as many
  ready pods as replicas, none of them surplus, are all of them (`AllRun`).

Left to TLC: everything under fairness (`ConvergesToSource`, `ConvergesToPods`,
`DeletionCompletes`, `Converges`, the fairness of the lifecycle, `PaginationTerminates`,
`LoaderStopsOnCancel`), since the prover has no rule for liveness here. Every invariant
and every other action property of a passing run is proved.

## 6. Not modelled

* Webhooks check one object without state; the policy controller is a stub;
  `cmd/main.go` wires. The deep-copy code is generated.
* Contents: fields of configurations, certificates and Kubernetes objects, CEL mapping,
  authentication, TLS set-up, URLs. Of a StatefulSet only what its update compares is
  there, so volume mounts, ports and environment, which an update does not take over
  (`cluster_controller.go:1290-1333`), are not.
* Service addresses of outputs (`resolveServiceAddresses`), secrets and trust
  bundles: nothing watches them, so they are as old as the last reconcile.
* A change of a certificate's issuer: the certificate is updated and its old Ready
  condition still counts.
* A container that restarts in place with its pod staying ready: it comes up with
  the config map alone and no event need follow.
* Several namespaces: no key is shared between them.

## 7. Plan

What is left to do: a composition of `ClusterController`, `Placement` and the status
that `TargetState` writes, for stickiness through the whole loop and a target that moves.

## 8. Running

    tlc -config MCDiscovery.cfg MCDiscovery      # and the other pairs of PROJECT.json
    tlapm DiscoveryProofs.tla                    # and the other proof modules
