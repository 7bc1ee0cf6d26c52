-------------------------- MODULE ClusterController -------------------------
(***************************************************************************)
(* The cluster controller, for one cluster: its reconcile brings services, *)
(* certificates, config map and stateful set in line with the spec of the  *)
(* cluster, and the collector pods in line with its pipelines; a finalizer *)
(* holds a deleted cluster until its objects are gone.                     *)
(*                                                                         *)
(* A reconcile is a list of steps, one per call of the reconciler that     *)
(* writes to the API server or to a pod; between two steps anything may    *)
(* happen. It reads from the informer caches (seen), which follow the API  *)
(* server (store) at their own pace: creating what the cache does not show *)
(* yet, updating what changed meanwhile and deleting a stateful set that   *)
(* is gone are errors, and an error puts the cluster back into the queue.  *)
(* The cluster itself is read up to date: its watch follows every change   *)
(* of it. How pipelines resolve to a plan is the subject of                *)
(* PipelineResources; here a plan is the set of pipelines it was built     *)
(* from. How targets are placed is the subject of Placement; here it is    *)
(* any distribution that keeps its promise.                                *)
(***************************************************************************)
EXTENDS Integers, Sequences, FiniteSets

CONSTANTS
  Specs,        \* specs a cluster may have
  Pipes,        \* pipelines that may be enabled for it
  MaxPods,      \* upper bound on replicas
  NoPlan,       \* no plan in the cache, or a pod without configuration
  NoConfig,     \* the config map does not exist
  StartPipes,   \* pipelines that may be enabled when the cluster is created
  MaxEdits,     \* bounds on changes by users,
  MaxFaults     \*   and on failing calls, lost pods and restarts

Pods == 0..(MaxPods - 1)
Modes == {"off", "csi", "certs"}

ASSUME PodsAssumption == MaxPods \in Nat \ {0}
ASSUME PipesAssumption == StartPipes \subseteq SUBSET Pipes
ASSUME SpecsAssumption ==
  /\ Specs # {}
  /\ Specs \subseteq [replicas : 1..MaxPods, capacity : Nat, api : Modes,
                      tunnel : Modes \cup {"plain"}, client : Modes]

VARIABLES
  cluster,   \* the Cluster object: phase, finalizer, spec
  pipes,     \* its enabled pipelines
  store,     \* the objects of the cluster at the API server
  seen,      \* the same objects in the informer caches
  secrets,   \* secrets of issued certificates; nobody deletes them
  pod,       \* the pods of the stateful set
  dirty,     \* the cluster is in the work queue
  worker,    \* the reconcile in progress
  plans,     \* the plan cache behind the plan API
  status,    \* conditions ConfigApplied and CapacityExhausted; written: history,
             \*   the last reconcile that served the pods could write them
  count      \* counters for the bounds

vars == <<cluster, pipes, store, seen, secrets, pod, dirty, worker, plans,
          status, count>>

\* unseen: the informer has not delivered the present version yet.
NoStatefulSet ==
  [exists |-> FALSE, replicas |-> 0, volumes |-> {}, ready |-> 0, unseen |-> FALSE]
Unseen(set) == [set EXCEPT !.unseen = TRUE]
NothingStored ==
  [statefulSet |-> NoStatefulSet, services |-> {}, certificates |-> {},
   issued |-> {}, configMap |-> NoConfig, controllerCA |-> FALSE]

NoCluster == [phase |-> "absent", finalizer |-> FALSE,
              spec |-> CHOOSE spec \in Specs : TRUE]
NoPod == [state |-> "absent", plan |-> NoPlan, targets |-> {}, matches |-> {}]
Idle == [todo |-> <<>>, copy |-> NoPlan, plan |-> NoPlan,
         set |-> NoStatefulSet, share |-> [t \in {} |-> 0], pods |-> {},
         failed |-> FALSE]
NoStatus == [applied |-> FALSE, exhausted |-> FALSE, written |-> FALSE]
Busy == worker.todo # <<>>
Running(p) == pod[p].state \in {"up", "outdated"}

(***************************************************************************)
(* What a spec asks for.                                                   *)
(***************************************************************************)
Ordinals(spec) == 0..(spec.replicas - 1)

apiCertificates(spec) ==
  IF spec.api = "certs" THEN {"api"} \X Ordinals(spec) ELSE {}
tunnelCertificates(spec) ==
  IF spec.tunnel = "certs" THEN {"tunnel"} \X Ordinals(spec) ELSE {}
clientCertificates(spec) ==
  IF spec.client = "certs" THEN {<<"client", 0>>} ELSE {}

\* Only projected volumes have a number of sources: one per replica.
Volume(name, kind, sources) ==
  [name |-> name, kind |-> kind, sources |-> sources]
CertificateVolume(name, mode, replicas) ==
  CASE mode = "csi" -> {Volume(name, "csi", 0)}
    [] mode = "certs" -> {Volume(name, "projected", replicas)}
    [] OTHER -> {}

apiVolumes(spec) ==
  CertificateVolume("tls-certs", spec.api, spec.replicas) \cup
    IF spec.api = "off" THEN {} ELSE {Volume("controller-ca", "configMap", 0)}
tunnelVolumes(spec) ==
  CertificateVolume("tunnel-tls-certs", spec.tunnel, spec.replicas)
clientVolumes(spec) ==
  CASE spec.client = "csi" -> {Volume("client-tls-certs", "csi", 0)}
    [] spec.client = "certs" -> {Volume("client-tls-certs", "secret", 0)}
    [] OTHER -> {}
volumes(spec) == apiVolumes(spec) \cup tunnelVolumes(spec) \cup clientVolumes(spec)

\* Names and the numbers of projected sources are compared, nothing else.
volumesEqual(a, b) ==
  LET compared(vs) ==
        {<<v.name, v.kind = "projected", v.sources>> : v \in vs}
  IN  compared(a) = compared(b)

buildStatefulSet(spec) ==
  [exists |-> TRUE, replicas |-> spec.replicas, volumes |-> volumes(spec),
   ready |-> 0, unseen |-> TRUE]

\* A pipeline with tunnel policies is left out without a tunnel.
planOf(enabled, spec) ==
  {q \in enabled : spec.tunnel # "off" \/ q.policies = {}}
TargetsOf(plan) == UNION {q.targets : q \in plan}
MatchesOf(plan) == UNION {q.policies : q \in plan}
PrometheusOf(plan) == UNION {q.prometheus : q \in plan}

\* A Prometheus service is named gnmic-<cluster>-prom-..., the other two are
\* gnmic-<cluster> and gnmic-<cluster>-grpc-tunnel.
ASSUME ServicesAssumption == PrometheusOf(Pipes) \cap {"headless", "tunnel"} = {}

buildConfigContent(spec, plan) ==
  IF spec.tunnel = "off" THEN {} ELSE MatchesOf(plan)

\* What placement promises: no pod beyond its capacity, and a target is left
\* without a pod only when all pods are full. A target may be kept on several
\* pods when the copies of it that the pipelines read report several.
capacityOf(spec, plan, n) ==
  IF spec.capacity > 0 THEN spec.capacity
  ELSE (Cardinality(TargetsOf(plan)) + n - 1) \div n
Share(d, p) == {t \in DOMAIN d : p \in d[t]}
Load(d, p) == Cardinality(Share(d, p))
LeftOut(d) == {t \in DOMAIN d : d[t] = {}}
\* Faulty variant: pods numbered from one.
DistributionsFromOne(spec, plan, n) ==
  {d \in [TargetsOf(plan) -> SUBSET (1..n)] :
     \A p \in 1..n : Load(d, p) <= capacityOf(spec, plan, n)}
Distributions(spec, plan, n) ==
  LET cap == capacityOf(spec, plan, n)
  IN  {d \in [TargetsOf(plan) -> SUBSET (0..(n - 1))] :
         /\ \A p \in 0..(n - 1) : Load(d, p) <= cap
         /\ LeftOut(d) # {} => \A p \in 0..(n - 1) : Load(d, p) = cap}

(***************************************************************************)
(* The steps of a reconcile, in the order of the code.                     *)
(***************************************************************************)
When(condition, name) == IF condition THEN <<name>> ELSE <<>>

LiveSteps(spec) ==
  <<"headless">>
    \o When(spec.api = "certs", "apiCertificates")
    \o When(spec.api # "off", "controllerCA")
    \o When(spec.tunnel = "certs", "tunnelCertificates")
    \o When(spec.client = "certs", "clientCertificates")
    \o When(spec.tunnel # "off", "tunnelService")
    \o <<"plan", "configMap", "statefulSet", "prometheus", "distribute">>

CleanupSteps(spec) ==
  <<"deleteStatefulSet", "deleteHeadless", "deletePrometheus">>
    \o When(spec.api = "certs", "deleteApiCertificates")
    \o When(spec.api # "off", "deleteControllerCA")
    \o When(spec.tunnel = "certs", "deleteTunnelCertificates")
    \o When(spec.client = "certs", "deleteClientCertificate")
    \o When(spec.tunnel # "off", "deleteTunnelService")
    \o <<"removeFinalizer">>

\* Faulty variant: a cluster that is not found needs no cleanup.
GoneStepsPlanOnly == <<"dropPlan">>
GoneSteps ==
  <<"deleteStatefulSet", "deleteHeadless", "deletePrometheus", "dropPlan">>

\* The pods of a round are served in the order of their ordinals. A pod
\* without targets has no plan of its own and is passed over.
ApplySteps(pods) ==
  IF pods = {} THEN <<"status">> ELSE <<"apply", "matches", "status">>
Serving == CHOOSE p \in worker.pods : \A q \in worker.pods : p <= q

At(name) == Busy /\ Head(worker.todo) = name

\* The step is done, the reconcile goes on; or it ends and is asked for again.
Proceed == worker' = IF Len(worker.todo) = 1 THEN Idle
                     ELSE [worker EXCEPT !.todo = Tail(@)]
ProceedOnly == Proceed /\ UNCHANGED dirty
Retry == worker' = Idle /\ dirty' = TRUE

\* A call that fails.
Fault == /\ count.faults < MaxFaults
         /\ count' = [count EXCEPT !.faults = @ + 1]

\* The reconciler writes the object unless the write is refused.
Write(refused, new) ==
  IF refused THEN Retry /\ UNCHANGED store ELSE ProceedOnly /\ store' = new

ControllerOnly == UNCHANGED <<cluster, pipes, seen, secrets, pod, plans, status, count>>

(***************************************************************************)
(* Reconcile.                                                              *)
(***************************************************************************)
\* The plan of a deleted cluster is dropped first. Without the finalizer the
\* cluster gets it before anything else.
StartReconcile ==
  /\ ~Busy
  /\ dirty
  /\ dirty' = FALSE
  /\ worker' = [Idle EXCEPT !.copy = cluster, !.todo =
       CASE cluster.phase = "absent" -> GoneSteps
         [] cluster.phase = "deleting" -> CleanupSteps(cluster.spec)
         [] cluster.phase = "live" /\ cluster.finalizer -> LiveSteps(cluster.spec)
         [] OTHER -> <<"addFinalizer">>]
  /\ plans' = IF cluster.phase = "deleting" THEN NoPlan ELSE plans
  /\ UNCHANGED <<cluster, pipes, store, seen, secrets, pod, status, count>>

\* An update of a cluster that changed meanwhile is refused.
AddFinalizer ==
  /\ At("addFinalizer")
  /\ cluster' = IF worker.copy = cluster
       THEN [cluster EXCEPT !.finalizer = TRUE] ELSE cluster
  /\ Retry
  /\ UNCHANGED <<pipes, store, seen, secrets, pod, plans, status, count>>

\* Objects that are created and need no update.
ensureService(step, name) ==
  /\ At(step)
  /\ IF name \in seen.services THEN ProceedOnly /\ UNCHANGED store
     ELSE Write(name \in store.services,
                [store EXCEPT !.services = @ \cup {name}])
  /\ ControllerOnly

reconcileHeadlessService == ensureService("headless", "headless")
reconcileTunnelService == ensureService("tunnelService", "tunnel")

reconcileControllerCA ==
  /\ At("controllerCA")
  /\ IF seen.controllerCA THEN ProceedOnly /\ UNCHANGED store
     ELSE Write(store.controllerCA, [store EXCEPT !.controllerCA = TRUE])
  /\ ControllerOnly

\* Faulty variants: not waiting until certificates are issued; and deleting
\* what another step of the same reconcile owns.
ensureCertificatesExisting(step, kind, wanted) ==
  /\ At(step)
  /\ store' = [store EXCEPT !.certificates = @ \cup wanted]
  /\ IF wanted \subseteq seen.certificates THEN ProceedOnly ELSE Retry
  /\ ControllerOnly
ensureCertificatesOnly(step, kind, wanted) ==
  /\ At(step)
  /\ store' = [store EXCEPT !.certificates = wanted, !.issued = @ \cap wanted]
  /\ IF wanted \subseteq seen.issued THEN ProceedOnly ELSE Retry
  /\ ControllerOnly

\* Missing certificates are created one after the other, up to the first
\* call that fails; those beyond the replicas are deleted. The reconcile
\* goes on only when the cache shows all of them ready. Deleting a
\* certificate leaves its secret.
ensureCertificates(step, kind, wanted) ==
  /\ At(step)
  /\ LET missing == wanted \ seen.certificates
         refused == missing \cap store.certificates
         created == {x \in missing : \A y \in refused : x[2] < y[2]}
         beyond == {x \in seen.certificates : x[1] = kind /\ x \notin wanted}
         kept == IF refused = {} THEN store.certificates \ beyond
                 ELSE store.certificates
     IN  /\ store' = [store EXCEPT !.certificates = kept \cup created,
                                   !.issued = @ \cap kept]
         /\ IF wanted \subseteq seen.issued THEN ProceedOnly ELSE Retry
  /\ ControllerOnly

reconcileCertificates ==
  ensureCertificates("apiCertificates", "api", apiCertificates(worker.copy.spec))
reconcileTunnelCertificates ==
  ensureCertificates("tunnelCertificates", "tunnel",
                     tunnelCertificates(worker.copy.spec))
reconcileClientTLSCertificates ==
  ensureCertificates("clientCertificates", "client",
                     clientCertificates(worker.copy.spec))

BuildPlan ==
  /\ At("plan")
  /\ LET plan == planOf(pipes, worker.copy.spec)
     IN  /\ worker' = [worker EXCEPT !.todo = Tail(@), !.plan = plan]
         /\ plans' = plan
  /\ UNCHANGED <<cluster, pipes, store, seen, secrets, pod, dirty, status, count>>

reconcileConfigMap ==
  /\ At("configMap")
  /\ LET desired == buildConfigContent(worker.copy.spec, worker.plan)
     IN  IF seen.configMap = desired THEN ProceedOnly /\ UNCHANGED store
         ELSE Write(seen.configMap # store.configMap,
                    [store EXCEPT !.configMap = desired])
  /\ ControllerOnly

\* A change of the template makes the stateful set replace its pods.
reconcileStatefulSet ==
  /\ At("statefulSet")
  /\ LET old == seen.statefulSet
         new == buildStatefulSet(worker.copy.spec)
         replaced == ~volumesEqual(old.volumes, new.volumes)
         result == IF ~old.exists THEN new
                   ELSE IF old.replicas = new.replicas /\ ~replaced THEN old
                   ELSE Unseen([old EXCEPT !.replicas = new.replicas,
                                  !.volumes = IF replaced THEN new.volumes ELSE @])
     IN  IF result # old /\ old # store.statefulSet
           THEN Retry /\ UNCHANGED <<store, pod>>
         ELSE
           /\ store' = IF result = old THEN store
                       ELSE [store EXCEPT !.statefulSet = result]
           /\ pod' = [p \in Pods |->
                IF pod[p].state = "up" /\ old.exists /\ replaced
                  THEN [pod[p] EXCEPT !.state = "outdated"] ELSE pod[p]]
           /\ worker' = [worker EXCEPT !.todo = Tail(@), !.set = result]
           /\ UNCHANGED dirty
  /\ UNCHANGED <<cluster, pipes, seen, secrets, plans, status, count>>

\* Services are created in any order, up to the first that is refused; those
\* of outputs that are gone are deleted at the end.
PrometheusServices(services) == services \ {"headless", "tunnel"}
reconcilePrometheusService(names) == [store EXCEPT !.services = @ \cup names]
reconcilePrometheusServices ==
  /\ At("prometheus")
  /\ LET desired == PrometheusOf(worker.plan)
         missing == desired \ seen.services
         unused == PrometheusServices(seen.services) \ desired
     IN  IF missing \cap store.services = {}
           THEN /\ store' = [reconcilePrometheusService(missing) EXCEPT
                               !.services = @ \ unused]
                /\ ProceedOnly
           ELSE /\ \E created \in SUBSET (missing \ store.services) :
                     store' = reconcilePrometheusService(created)
                /\ Retry
  /\ ControllerOnly

\* Nothing is sent before all replicas are ready.
Distribute ==
  /\ At("distribute")
  /\ IF worker.set.ready < worker.set.replicas THEN Retry
     ELSE /\ \E d \in Distributions(worker.copy.spec, worker.plan,
                                    worker.set.replicas) :
               LET pods == UNION {d[t] : t \in DOMAIN d}
               IN  worker' = [worker EXCEPT !.share = d, !.pods = pods,
                                            !.todo = ApplySteps(pods)]
          /\ UNCHANGED dirty
  /\ UNCHANGED store /\ ControllerOnly

(***************************************************************************)
(* applyConfigToPods. The first request that fails ends the round.         *)
(***************************************************************************)
GiveUp == worker' = [worker EXCEPT !.todo = <<"status">>, !.failed = TRUE]

NextPod ==
  LET left == worker.pods \ {Serving}
  IN  worker' = [worker EXCEPT !.pods = left, !.todo = ApplySteps(left)]

\* The request replaces the configuration of the pod.
Configure(p) ==
  [pod EXCEPT ![p] = [@ EXCEPT !.plan = worker.plan,
     !.targets = Share(worker.share, p)]]

sendApplyRequest ==
  /\ At("apply")
  /\ IF Running(Serving) THEN pod' = Configure(Serving) /\ Proceed
                         ELSE GiveUp /\ UNCHANGED pod
  /\ UNCHANGED <<cluster, pipes, store, seen, secrets, dirty, plans, status, count>>

\* Stale matches are deleted, then the desired ones are sent.
applyTunnelTargetMatches ==
  /\ At("matches")
  /\ IF Running(Serving)
       THEN /\ pod' = [pod EXCEPT ![Serving].matches = MatchesOf(worker.plan)]
            /\ NextPod
       ELSE GiveUp /\ UNCHANGED pod
  /\ UNCHANGED <<cluster, pipes, store, seen, secrets, dirty, plans, status, count>>

\* Faulty variant: a round that failed is not tried again.
UpdateStatusOnly ==
  /\ At("status")
  /\ status' = IF worker.copy # cluster THEN status
       ELSE [applied |-> ~worker.failed, exhausted |-> FALSE, written |-> TRUE]
  /\ worker' = Idle
  /\ UNCHANGED <<cluster, pipes, store, seen, secrets, pod, dirty, plans, count>>

\* The write of the status is refused when the cluster changed meanwhile, and
\* it may fail like any call, or be left out, because the copy it is compared
\* with lags behind the operator's own last write. An error is logged and
\* forgotten: only the outcome of the round asks for another reconcile.
UpdateStatus ==
  /\ At("status")
  /\ \/ /\ worker.copy = cluster
        /\ status' = [applied |-> ~worker.failed, written |-> TRUE,
                      exhausted |-> ~worker.failed /\ LeftOut(worker.share) # {}]
        /\ UNCHANGED count
     \/ /\ worker.copy # cluster
        /\ status' = [status EXCEPT !.written = FALSE]
        /\ UNCHANGED count
     \/ /\ Fault
        /\ status' = [status EXCEPT !.written = FALSE]
  /\ worker' = Idle
  /\ dirty' = (dirty \/ worker.failed)
  /\ UNCHANGED <<cluster, pipes, store, seen, secrets, pod, plans>>

(***************************************************************************)
(* Cleanup.                                                                *)
(***************************************************************************)
ensureStatefulSetAbsent ==
  /\ At("deleteStatefulSet")
  /\ IF ~seen.statefulSet.exists THEN ProceedOnly /\ UNCHANGED store
     ELSE Write(~store.statefulSet.exists,
                [store EXCEPT !.statefulSet = Unseen(NoStatefulSet)])
  /\ ControllerOnly

ensureServiceAbsent ==
  /\ At("deleteHeadless")
  /\ IF "headless" \notin seen.services THEN ProceedOnly /\ UNCHANGED store
     ELSE Write("headless" \notin store.services,
                [store EXCEPT !.services = @ \ {"headless"}])
  /\ ControllerOnly

\* The remaining deletions take what is gone already as success.
DeleteAll(step, services, certificates) ==
  /\ At(step)
  /\ store' = [store EXCEPT !.services = @ \ services,
                            !.certificates = @ \ certificates,
                            !.issued = @ \ certificates]
  /\ ProceedOnly
  /\ ControllerOnly

cleanupPrometheusServices ==
  DeleteAll("deletePrometheus", PrometheusServices(seen.services), {})
\* Certificates of all kinds carry the label that is listed.
cleanupCertificates == DeleteAll("deleteApiCertificates", {}, seen.certificates)
cleanupTunnelCertificates ==
  DeleteAll("deleteTunnelCertificates", {},
         {x \in seen.certificates : x[1] = "tunnel"})
cleanupClientTLSCertificates ==
  DeleteAll("deleteClientCertificate", {}, {<<"client", 0>>})
cleanupTunnelService == DeleteAll("deleteTunnelService", {"tunnel"}, {})

cleanupControllerCA ==
  /\ At("deleteControllerCA")
  /\ store' = [store EXCEPT !.controllerCA = FALSE]
  /\ ProceedOnly
  /\ ControllerOnly

\* Without its finalizer the cluster is gone.
RemoveFinalizer ==
  /\ At("removeFinalizer")
  /\ IF worker.copy = cluster
       THEN /\ cluster' = NoCluster
            /\ ProceedOnly
       ELSE Retry /\ UNCHANGED cluster
  /\ UNCHANGED <<pipes, store, seen, secrets, pod, plans, status, count>>

cleanupPlan ==
  /\ At("dropPlan")
  /\ plans' = NoPlan
  /\ ProceedOnly
  /\ UNCHANGED <<cluster, pipes, store, seen, secrets, pod, status, count>>

ReconcileStep ==
  \/ AddFinalizer \/ reconcileHeadlessService \/ reconcileTunnelService
  \/ reconcileControllerCA \/ reconcileCertificates
  \/ reconcileTunnelCertificates \/ reconcileClientTLSCertificates
  \/ BuildPlan \/ reconcileConfigMap \/ reconcileStatefulSet
  \/ reconcilePrometheusServices \/ Distribute \/ sendApplyRequest
  \/ applyTunnelTargetMatches \/ UpdateStatus \/ ensureStatefulSetAbsent
  \/ ensureServiceAbsent \/ cleanupPrometheusServices \/ cleanupCertificates
  \/ cleanupTunnelCertificates \/ cleanupClientTLSCertificates
  \/ cleanupTunnelService \/ cleanupControllerCA \/ RemoveFinalizer
  \/ cleanupPlan

(***************************************************************************)
(* Failing calls. A round of requests that fails is tried again after the  *)
(* status is written; the delete of a stale match may fail unnoticed.      *)
(***************************************************************************)
\* Faulty variant: the error is logged and not returned.
CallFailsSilently ==
  /\ Busy
  /\ Fault
  /\ worker' = Idle
  /\ UNCHANGED <<cluster, pipes, store, seen, secrets, pod, dirty, plans, status>>

CallFails ==
  /\ Busy
  /\ Head(worker.todo) \notin {"distribute", "apply", "matches", "status", "dropPlan"}
  /\ Fault
  /\ Retry
  /\ UNCHANGED <<cluster, pipes, store, seen, secrets, pod, plans, status>>

\* Without the secret of the issuer there is no client for the requests.
createHTTPClientFails ==
  /\ At("distribute")
  /\ worker.set.ready >= worker.set.replicas
  /\ Fault
  /\ GiveUp
  /\ UNCHANGED <<cluster, pipes, store, seen, secrets, pod, dirty, plans, status>>

\* A request that failed for the operator may have reached the pod.
RequestFails ==
  /\ At("apply")
  /\ Fault
  /\ GiveUp
  /\ pod' \in {pod} \cup IF Running(Serving) THEN {Configure(Serving)} ELSE {}
  /\ UNCHANGED <<cluster, pipes, store, seen, secrets, dirty, plans, status>>

\* Matches are listed, then stale ones deleted, then desired ones sent, in
\* any order and up to the first request that fails.
MatchRequestFails ==
  /\ At("matches")
  /\ Running(Serving)
  /\ Fault
  /\ GiveUp
  /\ LET desired == MatchesOf(worker.plan)
     IN  pod' \in {pod} \cup
           {[pod EXCEPT ![Serving].matches = (@ \cap desired) \cup sent] :
              sent \in SUBSET desired}
  /\ UNCHANGED <<cluster, pipes, store, seen, secrets, dirty, plans, status>>

DeleteMatchFails ==
  /\ At("matches")
  /\ Running(Serving)
  /\ Fault
  /\ pod' = [pod EXCEPT ![Serving].matches = @ \cup MatchesOf(worker.plan)]
  /\ NextPod
  /\ UNCHANGED <<cluster, pipes, store, seen, secrets, dirty, plans, status>>

\* The operator starts again: the caches are filled from the API server and
\* every object in them that is watched asks for a reconcile.
Restart ==
  /\ Fault
  /\ worker' = Idle
  /\ plans' = NoPlan
  /\ store' = [store EXCEPT !.statefulSet.unseen = FALSE]
  /\ seen' = store'
  /\ dirty' = (\/ cluster.phase # "absent"
               \/ store.statefulSet.exists
               \/ store.services # {} \/ store.certificates # {})
  /\ UNCHANGED <<cluster, pipes, secrets, pod, status>>

(***************************************************************************)
(* The world around the controller.                                        *)
(***************************************************************************)
Edit == /\ count.edits < MaxEdits
        /\ count' = [count EXCEPT !.edits = @ + 1]
        /\ dirty' = TRUE

\* A name is used again only when nothing of its former cluster is left.
CreateCluster ==
  /\ Edit
  /\ cluster.phase = "absent"
  /\ store = NothingStored
  /\ \E spec \in Specs :
       cluster' = [phase |-> "live", finalizer |-> FALSE, spec |-> spec]
  /\ status' = NoStatus
  /\ UNCHANGED <<pipes, store, seen, secrets, pod, worker, plans>>

EditCluster ==
  /\ Edit
  /\ cluster.phase = "live"
  /\ \E spec \in Specs \ {cluster.spec} :
       cluster' = [cluster EXCEPT !.spec = spec]
  /\ UNCHANGED <<pipes, store, seen, secrets, pod, worker, plans, status>>

DeleteCluster ==
  /\ Edit
  /\ cluster.phase = "live"
  /\ cluster' = IF cluster.finalizer
       THEN [cluster EXCEPT !.phase = "deleting"] ELSE NoCluster
  /\ UNCHANGED <<pipes, store, seen, secrets, pod, worker, plans, status>>

EditPipelines ==
  /\ Edit
  /\ pipes' \in (SUBSET Pipes) \ {pipes}
  /\ UNCHANGED <<cluster, store, seen, secrets, pod, worker, plans, status>>

\* Informers. Nothing watches config maps.
Informers == {"statefulSets", "services", "certificates", "configMaps"}
Fields(kind) ==
  CASE kind = "statefulSets" -> {"statefulSet"}
    [] kind = "services" -> {"services"}
    [] kind = "certificates" -> {"certificates", "issued"}
    [] kind = "configMaps" -> {"configMap", "controllerCA"}

Sync(kind) ==
  /\ \E f \in Fields(kind) : seen[f] # store[f]
  /\ store' = IF kind = "statefulSets"
       THEN [store EXCEPT !.statefulSet.unseen = FALSE] ELSE store
  /\ seen' = [f \in DOMAIN seen |-> IF f \in Fields(kind) THEN store'[f] ELSE seen[f]]
  /\ dirty' = (dirty \/ kind # "configMaps")
  /\ UNCHANGED <<cluster, pipes, secrets, pod, worker, plans, status, count>>

\* cert-manager issues a certificate into its secret.
IssueCertificate ==
  /\ \E x \in store.certificates \ store.issued :
       /\ store' = [store EXCEPT !.issued = @ \cup {x}]
       /\ secrets' = secrets \cup {x}
  /\ UNCHANGED <<cluster, pipes, seen, pod, dirty, worker, plans, status, count>>

\* The garbage collector, as far as the controller leaves objects to it.
CollectGarbage ==
  LET left == [store EXCEPT !.services = @ \ {"tunnel"}, !.certificates = {},
                 !.issued = {}, !.configMap = NoConfig, !.controllerCA = FALSE]
  IN  /\ cluster.phase = "absent"
      /\ left # store
      /\ store' = left
      /\ UNCHANGED <<cluster, pipes, seen, secrets, pod, dirty, worker, plans,
                     status, count>>

\* The stateful set controller removes surplus pods, notices lost ones,
\* replaces an outdated one and reports how many are ready.
StatefulSetController ==
  LET surplus(p) == p >= store.statefulSet.replicas
      outdated == {p \in Pods : pod[p].state = "outdated" /\ ~surplus(p)}
      left(replaced) ==
        [p \in Pods |-> IF surplus(p) \/ pod[p].state = "lost" \/ p \in replaced
                          THEN NoPod ELSE pod[p]]
      ready(pods) ==
        IF ~store.statefulSet.exists THEN 0
        ELSE Cardinality({p \in Pods : pods[p].state \in {"up", "outdated"}})
  IN  \E replaced \in IF outdated = {} THEN {{}} ELSE {{p} : p \in outdated} :
        /\ pod' = left(replaced)
        /\ <<pod', ready(pod')>> # <<pod, store.statefulSet.ready>>
        /\ store' = IF ~store.statefulSet.exists THEN store
                    ELSE [store EXCEPT !.statefulSet =
                            Unseen([@ EXCEPT !.ready = ready(pod')])]
        /\ UNCHANGED <<cluster, pipes, seen, secrets, dirty, worker, plans,
                       status, count>>

\* A new pod knows what is in the config map only.
StartPod(p) ==
  /\ p < store.statefulSet.replicas
  /\ pod[p] = NoPod
  /\ store.configMap # NoConfig
  /\ pod' = [pod EXCEPT ![p] = [NoPod EXCEPT !.state = "up",
                                             !.matches = store.configMap]]
  /\ UNCHANGED <<cluster, pipes, store, seen, secrets, dirty, worker, plans,
                 status, count>>

LosePod(p) ==
  /\ Running(p)
  /\ Fault
  /\ pod' = [pod EXCEPT ![p] = [NoPod EXCEPT !.state = "lost"]]
  /\ UNCHANGED <<cluster, pipes, store, seen, secrets, dirty, worker, plans, status>>

Init ==
  /\ cluster = NoCluster
  /\ pipes \in StartPipes
  /\ store = NothingStored
  /\ seen = NothingStored
  /\ secrets = {}
  /\ pod = [p \in Pods |-> NoPod]
  /\ dirty = FALSE
  /\ worker = Idle
  /\ plans = NoPlan
  /\ status = NoStatus
  /\ count = [edits |-> 0, faults |-> 0]

Reconcile == StartReconcile \/ ReconcileStep
Informer == \E kind \in Informers : Sync(kind)
Kubernetes == IssueCertificate \/ CollectGarbage \/ StatefulSetController
                \/ \E p \in Pods : StartPod(p)

Next ==
  \/ Reconcile \/ Informer \/ Kubernetes
  \/ CallFails \/ createHTTPClientFails \/ RequestFails \/ MatchRequestFails
  \/ DeleteMatchFails \/ Restart
  \/ \E p \in Pods : LosePod(p)
  \/ CreateCluster \/ EditCluster \/ DeleteCluster \/ EditPipelines

Spec == Init /\ [][Next]_vars

\* The operator, its watches and Kubernetes keep working, each of the three
\* in an order of its own; users and faults need not act.
FairSpec ==
  Spec /\ WF_vars(Reconcile) /\ WF_vars(Informer) /\ WF_vars(Kubernetes)

-----------------------------------------------------------------------------
Certificates == {"api", "tunnel"} \X Pods \cup {<<"client", 0>>}
VolumeNames ==
  {"tls-certs", "controller-ca", "tunnel-tls-certs", "client-tls-certs"}

StatefulSets ==
  [exists : BOOLEAN, replicas : 0..MaxPods, ready : 0..MaxPods,
   unseen : BOOLEAN,
   volumes : SUBSET [name : VolumeNames, sources : 0..MaxPods,
                     kind : {"csi", "projected", "secret", "configMap"}]]

ServiceNames == {"headless", "tunnel"} \cup PrometheusOf(Pipes)
Matches == SUBSET MatchesOf(Pipes)

Objects ==
  [statefulSet : StatefulSets, services : SUBSET ServiceNames,
   certificates : SUBSET Certificates, issued : SUBSET Certificates,
   configMap : Matches \cup {NoConfig}, controllerCA : BOOLEAN]

TypeOK ==
  /\ cluster \in [phase : {"absent", "live", "deleting"}, finalizer : BOOLEAN,
                  spec : Specs]
  /\ pipes \subseteq Pipes
  /\ store \in Objects /\ seen \in Objects
  /\ store.issued \subseteq store.certificates
  /\ secrets \subseteq Certificates
  /\ pod \in [Pods -> [state : {"absent", "up", "outdated", "lost"},
                       plan : (SUBSET Pipes) \cup {NoPlan},
                       targets : SUBSET TargetsOf(Pipes), matches : Matches]]
  /\ dirty \in BOOLEAN
  /\ plans \in (SUBSET Pipes) \cup {NoPlan}
  /\ status \in [applied : BOOLEAN, exhausted : BOOLEAN, written : BOOLEAN]
  /\ worker.pods \subseteq Ordinals(worker.set)

\* The secrets that the pods of the stateful set find in their volumes. All
\* of them are optional to the kubelet.
MountedSecrets(set) ==
  LET has(name, kind) == \E v \in set.volumes : v.name = name /\ v.kind = kind
  IN  {x \in Certificates :
         \/ x[1] = "api" /\ has("tls-certs", "projected") /\ x[2] < set.replicas
         \/ x[1] = "tunnel" /\ has("tunnel-tls-certs", "projected")
                            /\ x[2] < set.replicas
         \/ x[1] = "client" /\ has("client-tls-certs", "secret")}

\* A pod whose secret is missing would start all the same, without its
\* certificate: only the order of the reconcile prevents it. The stateful
\* set never asks for a pod before its certificates were issued, however
\* the cache lags behind deletions and recreations of certificates and the
\* spec changes between the steps.
CertificatesFirst == MountedSecrets(store.statefulSet) \subseteq secrets

\* Nothing is under way any more.
Settled ==
  /\ ~dirty /\ ~Busy
  /\ seen = [store EXCEPT !.configMap = seen.configMap,
                          !.controllerCA = seen.controllerCA]
  /\ \A p \in Pods : pod[p].state \in {"absent", "up"}
  /\ store.statefulSet.ready = Cardinality({p \in Pods : Running(p)})

\* Surplus pods are gone. Until then they are counted among the ready ones.
ScaledDown == \A p \in Pods : Running(p) => p < store.statefulSet.replicas

\* The conditions tell that the distribution was applied and whether it has
\* a place for every target, if the last write of them was made.
Told(d) ==
  status.written => status.applied /\ (status.exhausted <=> LeftOut(d) # {})

\* Pods and objects are what the spec and the pipelines of the cluster ask
\* for. Pods without a share of the targets are not told anything.
Applied ==
  LET spec == cluster.spec
      plan == planOf(pipes, spec)
  IN  /\ cluster.finalizer
      /\ plans = plan
      /\ store.statefulSet.replicas = spec.replicas
      /\ volumesEqual(store.statefulSet.volumes, volumes(spec))
      /\ apiCertificates(spec) \cup tunnelCertificates(spec)
           \cup clientCertificates(spec) \subseteq store.issued
      /\ PrometheusServices(store.services) = PrometheusOf(plan)
      /\ "headless" \in store.services
      /\ spec.tunnel # "off" => "tunnel" \in store.services
      /\ \E d \in Distributions(spec, plan, spec.replicas) :
           /\ Told(d)
           /\ \A p \in Ordinals(spec) :
                /\ pod[p].state = "up"
                /\ Share(d, p) # {} =>
                     /\ pod[p].plan = plan
                     /\ pod[p].targets = Share(d, p)
                     /\ MatchesOf(plan) \subseteq pod[p].matches

\* No change is lost: when the queue is empty, the caches are up to date and
\* the stateful set has reported its pods, the pods run the configuration of
\* the present pipelines and spec. Edits, failing calls, refused writes, lost
\* pods and restarts may have hit any reconcile between any two steps. The
\* conditions tell the truth unless the last write of them failed: that is
\* only logged and nothing repeats it, so they may stay as they were.
SettledIsApplied == cluster.phase = "live" /\ Settled /\ ScaledDown => Applied

Clean ==
  /\ ~store.statefulSet.exists
  /\ store.services \subseteq {"tunnel"}
  /\ plans = NoPlan

\* A cluster that is gone leaves no workload, no headless or Prometheus
\* service and no plan behind, also when the reconcile that removed the
\* finalizer did not see yet what an earlier one had created. A tunnel
\* service it did not see may stay: the reconcile of an absent cluster does
\* not look for it.
CleanupComplete == cluster.phase = "absent" /\ Settled => Clean

\* A deleted cluster goes away.
DeletionCompletes == cluster.phase = "deleting" ~> cluster.phase # "deleting"

\* The system settles, and it settles as it should: conflicts, waits for
\* certificates and pods, and rounds that fail half way do not repeat for
\* ever once users and faults rest. Of the conditions it says no more than
\* SettledIsApplied.
Converges ==
  <>[](IF cluster.phase = "absent" THEN Clean
       ELSE cluster.phase = "live" /\ Applied)

\* Pods collect only from targets of the present plan.
NoStrayTargets ==
  cluster.phase = "live" /\ Settled =>
    \A p \in Ordinals(cluster.spec) : pod[p].targets \subseteq TargetsOf(plans)

-----------------------------------------------------------------------------
(***************************************************************************)
(* Why certificates come first: the inductive invariant.                   *)
(***************************************************************************)
Clusters ==
  [phase : {"absent", "live", "deleting"}, finalizer : BOOLEAN, spec : Specs]
Shares == UNION {[ts -> SUBSET Pods] : ts \in SUBSET TargetsOf(Pipes)}

StepNames ==
  {"addFinalizer", "headless", "apiCertificates", "controllerCA",
   "tunnelCertificates", "clientCertificates", "tunnelService", "plan",
   "configMap", "statefulSet", "prometheus", "distribute", "apply", "matches",
   "status", "deleteStatefulSet", "deleteHeadless", "deletePrometheus",
   "deleteApiCertificates", "deleteControllerCA", "deleteTunnelCertificates",
   "deleteClientCertificate", "deleteTunnelService", "removeFinalizer",
   "dropPlan"}

Workers ==
  [todo : Seq(StepNames), copy : Clusters \cup {NoPlan},
   plan : (SUBSET Pipes) \cup {NoPlan}, set : StatefulSets, share : Shares,
   pods : SUBSET Pods, failed : BOOLEAN]

Mentions(steps, name) == \E i \in 1..Len(steps) : steps[i] = name

\* Before every step called later there is one called first.
Precedes(first, later, steps) ==
  \A i \in 1..Len(steps) :
    steps[i] = later => \E j \in 1..(i - 1) : steps[j] = first

\* A step that needs a plan comes after the one that builds it.
PlanFirst ==
  /\ worker \in Workers
  /\ Busy => worker.copy \in Clusters
  /\ \A name \in {"configMap", "prometheus", "distribute", "matches"} :
       Precedes("plan", name, worker.todo) \/ worker.plan \subseteq Pipes
  /\ Mentions(worker.todo, "statefulSet") => worker.pods = {}

\* The steps that wait for certificates, and which.
CertificateSteps ==
  {"apiCertificates", "tunnelCertificates", "clientCertificates"}
AwaitedBy(step, spec) ==
  CASE step = "apiCertificates" -> apiCertificates(spec)
    [] step = "tunnelCertificates" -> tunnelCertificates(spec)
    [] step = "clientCertificates" -> clientCertificates(spec)

\* Issued certificates have their secrets, and a step that waits for the
\* certificates of the spec comes before the stateful set is written.
SecretsInv ==
  /\ store.issued \subseteq secrets /\ seen.issued \subseteq secrets
  /\ Busy => \A step \in CertificateSteps :
       \/ AwaitedBy(step, worker.copy.spec) \subseteq secrets
       \/ Precedes(step, "statefulSet", worker.todo)

CertificatesInv ==
  TypeOK /\ PlanFirst /\ SecretsInv /\ CertificatesFirst

(***************************************************************************)
(* Why a cleanup is complete: the inductive invariant.                     *)
(***************************************************************************)
CleanupNames ==
  {"deleteStatefulSet", "deleteHeadless", "deletePrometheus",
   "deleteApiCertificates", "deleteControllerCA", "deleteTunnelCertificates",
   "deleteClientCertificate", "deleteTunnelService", "removeFinalizer",
   "dropPlan"}
LastSteps == {"removeFinalizer", "dropPlan"}

\* What is left is not in the cache yet, so that its arrival there asks for
\* another reconcile, or one is asked for already.
StatefulSetHidden ==
  store.statefulSet.exists /\ seen.statefulSet.exists => dirty
ServicesHidden(services) ==
  \A name \in services : name \in store.services /\ name \in seen.services => dirty
AllPrometheus == PrometheusServices(PrometheusOf(Pipes))

\* A cleanup consists of deletions and ends with the finalizer or the plan;
\* what it has deleted already is hidden.
CleanupOrder ==
  /\ \A i \in 1..Len(worker.todo) :
       worker.todo[i] \in LastSteps => i = Len(worker.todo)
  /\ \A name \in LastSteps : Mentions(worker.todo, name) =>
       /\ worker.todo \in Seq(CleanupNames)
       /\ Mentions(worker.todo, "deleteStatefulSet") \/ StatefulSetHidden
       /\ Mentions(worker.todo, "deleteHeadless") \/ ServicesHidden({"headless"})
       /\ Mentions(worker.todo, "deletePrometheus") \/ ServicesHidden(AllPrometheus)
  /\ Mentions(worker.todo, "removeFinalizer") => plans = NoPlan

CleanupInv ==
  /\ TypeOK /\ PlanFirst /\ CleanupOrder
  /\ cluster.phase = "absent" /\ ~dirty =>
       \/ Mentions(worker.todo, "dropPlan")
       \/ /\ ~Busy /\ plans = NoPlan /\ StatefulSetHidden
          /\ ServicesHidden({"headless"}) /\ ServicesHidden(AllPrometheus)

(***************************************************************************)
(* Why a settled cluster is applied: the inductive invariant. While no     *)
(* reconcile is asked for, what the one in progress has done already       *)
(* agrees with the present spec and pipelines, and so does everything once *)
(* it has ended.                                                           *)
(***************************************************************************)
Calm == cluster.phase = "live" /\ ~dirty
Still(name) == Mentions(worker.todo, name)
PresentPlan == planOf(pipes, cluster.spec)

\* The cache holds the present version of the stateful set, or a version is
\* still to be delivered.
VersionInv ==
  /\ ~seen.statefulSet.unseen
  /\ store.statefulSet.unseen \/ store.statefulSet = seen.statefulSet

PlainNames ==
  {"headless", "apiCertificates", "controllerCA", "tunnelCertificates",
   "clientCertificates", "tunnelService", "plan", "configMap", "statefulSet",
   "prometheus", "distribute"}
Rounds ==
  {<<>>, <<"apply", "matches", "status">>, <<"matches", "status">>, <<"status">>}

\* A reconcile works on the present cluster; a round of requests follows
\* everything else, and only its last step knows that it has failed.
OrderInv ==
  /\ cluster.finalizer
  /\ Busy => worker.copy = cluster
  /\ \/ worker.todo \in Rounds
     \/ /\ worker.todo \in Seq(PlainNames) /\ Still("distribute")
        /\ \A i \in 1..Len(worker.todo) :
             worker.todo[i] = "distribute" => i = Len(worker.todo)
  /\ worker.failed => worker.todo = <<"status">>

\* What is missing in the cache has been created.
ServicesInv ==
  /\ Still("headless") \/ "headless" \in seen.services \cup store.services
  /\ cluster.spec.tunnel # "off" =>
       Still("tunnelService") \/ "tunnel" \in seen.services \cup store.services

IssuedInv ==
  \A step \in CertificateSteps :
    Still(step) \/ AwaitedBy(step, cluster.spec) \subseteq seen.issued

PlanInv ==
  /\ Still("plan") \/ plans = PresentPlan
  /\ \A name \in {"prometheus", "distribute"} :
       Precedes("plan", name, worker.todo) \/ worker.plan = PresentPlan

PrometheusInv ==
  \/ Still("prometheus")
  \/ /\ PrometheusOf(PresentPlan) \subseteq seen.services \cup store.services
     /\ PrometheusServices(seen.services \cap store.services)
          \subseteq PrometheusOf(PresentPlan)

Asked(set) ==
  /\ set.exists /\ set.replicas = cluster.spec.replicas
  /\ volumesEqual(set.volumes, volumes(cluster.spec))

\* A stateful set that changed since asks for another reconcile once the
\* cache shows it.
SetInv ==
  \/ Still("statefulSet")
  \/ /\ store.statefulSet.unseen \/ Asked(store.statefulSet)
     /\ Busy => /\ Asked(worker.set)
                /\ store.statefulSet.unseen \/ worker.set = store.statefulSet

\* Of pods that are lost or replaced the stateful set has still to report.
Excused(p) ==
  pod[p].state \in {"lost", "outdated"} \/ store.statefulSet.unseen
HasTargets(p, d) ==
  /\ Running(p) /\ pod[p].plan = PresentPlan
  /\ pod[p].targets = Share(d, p)
Configured(p, d) ==
  HasTargets(p, d) /\ MatchesOf(PresentPlan) \subseteq pod[p].matches
\* Pods that are not served yet are left out.
ConfiguredBut(left, d) ==
  \A p \in Ordinals(cluster.spec) \ left :
    Share(d, p) # {} => Excused(p) \/ Configured(p, d)

\* A round that has not failed has configured the pods it has served.
ServedInv ==
  /\ worker.plan = PresentPlan
  /\ worker.share \in
       Distributions(cluster.spec, PresentPlan, cluster.spec.replicas)
  /\ ConfiguredBut(worker.pods, worker.share)
  /\ \A p \in Ordinals(cluster.spec) :
       worker.todo = <<"matches", "status">> /\ p = Serving =>
         Excused(p) \/ HasTargets(p, worker.share)
  /\ worker.todo = <<"status">> => worker.pods = {}
\* When it is over, the status, if written, tells the truth about all pods.
StatusInv ==
  \E d \in Distributions(cluster.spec, PresentPlan, cluster.spec.replicas) :
    Told(d) /\ ConfiguredBut({}, d)
RoundInv ==
  \/ Still("distribute") \/ worker.failed
  \/ /\ \/ store.statefulSet.unseen
        \/ store.statefulSet.ready >= store.statefulSet.replicas
     /\ IF Busy THEN ServedInv ELSE StatusInv

AppliedInv ==
  /\ TypeOK /\ PlanFirst /\ VersionInv
  /\ Calm => \/ worker.todo = <<"addFinalizer">>
             \/ /\ OrderInv /\ ServicesInv /\ IssuedInv /\ PlanInv
                /\ PrometheusInv /\ SetInv /\ RoundInv
=============================================================================
