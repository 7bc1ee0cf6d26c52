-------------------------- MODULE PipelineResources -------------------------
(***************************************************************************)
(* From resources to plans: pipelines name their targets, subscriptions,   *)
(* outputs, inputs, processors and tunnel policies by reference and by     *)
(* label selector. Watches tell the cluster controller which clusters a    *)
(* change concerns; its worker lists the pipelines of a cluster, resolves  *)
(* them one after the other and builds the plan.                           *)
(*                                                                         *)
(* All reads are from the informer caches, so res and pipe are the caches. *)
(* A cache changes first; the event that follows is mapped to clusters     *)
(* later, with what the caches hold then. Resolving one pipeline is one    *)
(* step; between two pipelines anything may change. Services and secrets,  *)
(* which nothing watches, are left out.                                    *)
(***************************************************************************)
EXTENDS PlanBuilder

CONSTANTS
  Clusters,        \* clusters of the namespace
  TunnelClusters,  \* those with spec.grpcTunnel
  Pipelines,       \* names of pipelines
  PipelineSpecs,   \* what a pipeline may ask for
  Names,           \* names of the resources, per kind
  Objects,         \* what a resource may be, per name
  StartResources,  \* resources and pipelines that the operator may find
  StartPipelines,  \*   when it starts
  Absent,          \* a resource or pipeline that does not exist
  Nameless,        \* the name of the zero Processor
  NoProfile,       \* spec.profile of an object without one
  MaxChanges       \* bound on changes by users and failed status writes

ASSUME ClustersAssumption == Clusters # {} /\ TunnelClusters \subseteq Clusters
ASSUME ChangesAssumption == MaxChanges \in Nat

\* hash32 returns an unsigned number.
ASSUME HashAssumption ==
  /\ IsFiniteSet(PrometheusNames)
  /\ \A o \in Pipelines \X PrometheusNames :
       StartHash(o) \in Nat /\ StepHash(o) \in Nat

\* Kinds of PipelineData and the kind of resource they are filled from.
Roles == {"targets", "subscriptions", "outputs", "inputs", "outputProcessors",
          "inputProcessors", "policies"}
ProcessorRoles == {"outputProcessors", "inputProcessors"}
KindOf(role) == IF role \in ProcessorRoles THEN "processors" ELSE role
AllNames == UNION {Names[kind] : kind \in DOMAIN Names}

\* A name stands for a kind and a name of that kind.
ASSUME KindsAssumption ==
  /\ DOMAIN Names = {KindOf(role) : role \in Roles} \cup {"profiles"}
  /\ \A k, l \in DOMAIN Names : k # l => Names[k] \cap Names[l] = {}
  /\ Nameless \notin AllNames

\* spec.profile is required; the labels of a profile are never looked at.
ASSUME ObjectsAssumption ==
  /\ \A n \in AllNames : \A o \in Objects[n] :
       o # Absent /\ o = [labels |-> o.labels, rev |-> o.rev, profile |-> o.profile]
  /\ \A t \in Names.targets : \A o \in Objects[t] : o.profile \in Names.profiles
  /\ \A f \in Names.profiles : \A o \in Objects[f] : o.labels = {}
  /\ NoProfile \notin Names.profiles

\* A reference names a resource of the kind it is for.
ASSUME PipelinesAssumption ==
  \A spec \in PipelineSpecs :
    /\ spec # Absent
    /\ \A role \in Roles : ToSet(spec.refs[role]) \subseteq Names[KindOf(role)]

ASSUME StartAssumption ==
  /\ StartResources \subseteq
       [AllNames -> (UNION {Objects[n] : n \in AllNames}) \cup {Absent}]
  /\ \A r \in StartResources, n \in AllNames : r[n] \in Objects[n] \cup {Absent}
  /\ StartPipelines \subseteq [Pipelines -> PipelineSpecs \cup {Absent}]

VARIABLES
  res,       \* the resources
  pipe,      \* the specs of the pipelines
  pending,   \* events the informers have not handed to the controller yet
  queue,     \* clusters in the work queue
  worker,    \* the reconcile in progress
  source,    \* the data the plan of a cluster was built from
  plan,      \* the plan of a cluster
  status,    \* status.status of every pipeline
  changes    \* counter for the bound

vars == <<res, pipe, pending, queue, worker, source, plan, status, changes>>

NoData == [p \in {} |-> 0]
Idle == [busy |-> FALSE, cluster |-> CHOOSE c \in Clusters : TRUE,
         todo |-> NoData, data |-> NoData]
StatusValues ==
  {"", "Active", "Incomplete", "Error", "Ready", "Disabled", "NotFound"}

TypeOK ==
  /\ \A n \in AllNames : res[n] \in Objects[n] \cup {Absent}
  /\ pipe \in [Pipelines -> PipelineSpecs \cup {Absent}]
  /\ \A e \in pending :
       IF "clusters" \in DOMAIN e THEN e.clusters \subseteq Clusters
                                 ELSE e.name \in AllNames
  /\ queue \subseteq Clusters
  /\ worker.cluster \in Clusters /\ worker.busy \in BOOLEAN
  /\ DOMAIN worker.todo \subseteq Pipelines
  /\ DOMAIN worker.data \subseteq Pipelines \ DOMAIN worker.todo
  /\ \A c \in Clusters : DOMAIN source[c] \subseteq Pipelines
  /\ status \in [Pipelines -> StatusValues]
  /\ changes \in 0..MaxChanges

(***************************************************************************)
(* Resolution.                                                             *)
(***************************************************************************)
Exists(n) == res[n] # Absent

\* The seven resolve functions are alike. An empty selector selects nothing.
Selected(spec, role, labels) ==
  \E selector \in spec.selectors[role] \ {{}} : selector \subseteq labels

resolveNames(spec, role) ==
  {n \in Names[KindOf(role)] :
     Exists(n) /\ (n \in ToSet(spec.refs[role])
                     \/ Selected(spec, role, res[n].labels))}

\* A processor that is referenced and does not exist leaves an entry
\* without a name.
resolveProcessors(spec, role) ==
  resolveNames(spec, role) \cup
    IF \A n \in ToSet(spec.refs[role]) : Exists(n) THEN {} ELSE {Nameless}

ObjectOf(n) ==
  IF n = Nameless THEN [labels |-> {}, rev |-> 0, profile |-> NoProfile]
                  ELSE res[n]

resolve(spec, role) ==
  [n \in IF role \in ProcessorRoles THEN resolveProcessors(spec, role)
                                    ELSE resolveNames(spec, role) |->
     ObjectOf(n)]

ProfilesOf(objects) == {objects[n].profile : n \in DOMAIN objects}

\* The profiles of targets must exist; those of policies may be missing.
pipelineData(spec) ==
  LET found == [role \in Roles |-> resolve(spec, role)]
      wanted == ProfilesOf(found.targets) \cup ProfilesOf(found.policies)
  IN  [role \in Roles \cup {"profiles"} |->
         IF role = "profiles" THEN [f \in {f \in wanted \ {NoProfile} : Exists(f)} |-> res[f]]
         ELSE found[role]]

Resolvable(spec) == \A f \in ProfilesOf(resolve(spec, "targets")) : Exists(f)

\* A pipeline with policies needs a cluster with a tunnel.
MissingTunnel(c, spec) ==
  c \notin TunnelClusters /\ DOMAIN resolve(spec, "policies") # {}

listPipelinesForCluster(c) ==
  {p \in Pipelines :
     pipe[p] # Absent /\ pipe[p].cluster = c /\ pipe[p].enabled}

updatePipelineStatus(data) ==
  LET has(role) == DOMAIN data[role] # {}
  IN  IF /\ has("outputs")
         /\ \/ has("inputs")
            \/ has("subscriptions") /\ (has("targets") \/ has("policies"))
        THEN "Active" ELSE "Incomplete"

(***************************************************************************)
(* Watches.                                                                *)
(***************************************************************************)
RolesOf(n) == {role \in Roles : n \in Names[KindOf(role)]}

pipelineReferencesResource(spec, n, labels) ==
  \E role \in RolesOf(n) :
    n \in ToSet(spec.refs[role]) \/ Selected(spec, role, labels)

findClustersReferencingResource(n, labels) ==
  {c \in Clusters :
     \E p \in listPipelinesForCluster(c) :
       pipelineReferencesResource(pipe[p], n, labels)}

\* A profile concerns the clusters of the targets that use it.
findClustersForTargetProfile(f) ==
  UNION {findClustersReferencingResource(t, res[t].labels) :
           t \in {t \in Names.targets : Exists(t) /\ res[t].profile = f}}

\* Faulty variant of findClusters: an update is mapped by its new labels.
findClustersByNewLabels(e) ==
  IF e.name \in Names.profiles THEN findClustersForTargetProfile(e.name)
  ELSE findClustersReferencingResource(e.name, e.new)

\* The old and the new object of an update are both mapped.
findClusters(e) ==
  IF e.name \in Names.profiles THEN findClustersForTargetProfile(e.name)
  ELSE UNION {findClustersReferencingResource(e.name, labels) :
                labels \in {e.old, e.new}}

\* Faulty variant of generationOrLabelsChanged: labels are not looked at.
generationChanged(n, old, new) ==
  old = Absent \/ new = Absent \/ <<old.rev, old.profile>> # <<new.rev, new.profile>>

\* Profiles are selected by name only, for them the generation decides.
generationOrLabelsChanged(n, old, new) ==
  \/ old = Absent \/ new = Absent
  \/ <<old.rev, old.profile>> # <<new.rev, new.profile>>
  \/ n \notin Names.profiles /\ old.labels # new.labels

LabelsOf(object, other) ==
  IF object = Absent THEN other.labels ELSE object.labels

\* A creation and a deletion carry the one object there is.
ChangeResource(n) ==
  /\ changes < MaxChanges
  /\ changes' = changes + 1
  /\ \E new \in (Objects[n] \cup {Absent}) \ {res[n]} :
       /\ res' = [res EXCEPT ![n] = new]
       /\ pending' = IF generationOrLabelsChanged(n, res[n], new)
            THEN pending \cup {[name |-> n, old |-> LabelsOf(res[n], new),
                                 new |-> LabelsOf(new, res[n])]}
            ELSE pending
  /\ UNCHANGED <<pipe, queue, worker, source, plan, status>>

\* Every change of a pipeline is a change of its spec. A new pipeline has
\* no status yet.
ChangePipeline(p) ==
  /\ changes < MaxChanges
  /\ changes' = changes + 1
  /\ \E new \in (PipelineSpecs \cup {Absent}) \ {pipe[p]} :
       /\ pipe' = [pipe EXCEPT ![p] = new]
       /\ pending' = pending \cup
            {[clusters |-> {s.cluster : s \in {pipe[p], new} \ {Absent}}
                             \cap Clusters]}
       /\ status' = [status EXCEPT ![p] = IF new = Absent THEN "" ELSE @]
  /\ UNCHANGED <<res, queue, worker, source, plan>>

HandleEvent(e) ==
  /\ e \in pending
  /\ pending' = pending \ {e}
  /\ queue' = queue \cup
       IF "clusters" \in DOMAIN e THEN e.clusters ELSE findClusters(e)
  /\ UNCHANGED <<res, pipe, worker, source, plan, status, changes>>

(***************************************************************************)
(* Reconcile of the cluster controller, as far as the plan goes.           *)
(***************************************************************************)
\* Faulty variant of StartReconcile: the reconciles share the builder.
StartReconcileShared(c) ==
  /\ c \in queue
  /\ queue' = queue \ {c}
  /\ worker' = [worker EXCEPT !.busy = TRUE, !.cluster = c,
                  !.todo = [p \in listPipelinesForCluster(c) |-> pipe[p]]]
  /\ UNCHANGED <<res, pipe, pending, source, plan, status, changes>>

StartReconcile(c) ==
  /\ ~worker.busy
  /\ c \in queue
  /\ queue' = queue \ {c}
  /\ worker' = [busy |-> TRUE, cluster |-> c, data |-> NoData,
                todo |-> [p \in listPipelinesForCluster(c) |-> pipe[p]]]
  /\ UNCHANGED <<res, pipe, pending, source, plan, status, changes>>

\* A pipeline that was deleted meanwhile has no status to write. A write that
\* fails, or meets five conflicts, is only logged.
WriteStatus(p, value) ==
  \/ pipe[p] = Absent /\ UNCHANGED <<status, changes>>
  \/ /\ pipe[p] # Absent
     /\ status' = [status EXCEPT ![p] = value]
     /\ UNCHANGED changes
  \/ /\ pipe[p] # Absent
     /\ changes < MaxChanges
     /\ changes' = changes + 1
     /\ UNCHANGED status

\* The pipeline is resolved as it was listed, with the resources as they
\* are now. Without the profile of a target the reconcile fails and is
\* tried again; without a tunnel the pipeline is left out.
ResolvePipeline(p) ==
  /\ worker.busy
  /\ p \in DOMAIN worker.todo
  /\ LET spec == worker.todo[p]
         rest == [q \in DOMAIN worker.todo \ {p} |-> worker.todo[q]]
         data == pipelineData(spec)
     IN  IF ~Resolvable(spec) THEN
           /\ worker' = Idle
           /\ queue' = queue \cup {worker.cluster}
           /\ UNCHANGED <<status, changes>>
         ELSE IF MissingTunnel(worker.cluster, spec) THEN
           /\ worker' = [worker EXCEPT !.todo = rest]
           /\ WriteStatus(p, "Error")
           /\ UNCHANGED queue
         ELSE
           /\ worker' = [worker EXCEPT !.todo = rest,
                !.data = [q \in DOMAIN worker.data \cup {p} |->
                            IF q = p THEN data ELSE worker.data[q]]]
           /\ WriteStatus(p, updatePipelineStatus(data))
           /\ UNCHANGED queue
  /\ UNCHANGED <<res, pipe, pending, source, plan>>

BuildPlan ==
  /\ worker.busy
  /\ worker.todo = NoData
  /\ \E order \in SetToSeqs(DOMAIN worker.data),
        outputLists \in ProcessorLists(worker.data, "outputProcessors"),
        inputLists \in ProcessorLists(worker.data, "inputProcessors") :
       LET built == Build(worker.data, order, outputLists, inputLists)
       IN  /\ built # NoPlan
           /\ source' = [source EXCEPT ![worker.cluster] = worker.data]
           /\ plan' = [plan EXCEPT ![worker.cluster] = built]
  /\ worker' = Idle
  /\ UNCHANGED <<res, pipe, pending, queue, status, changes>>

\* Without a free port, or without the credentials of a profile, Build
\* returns an error and the reconcile is tried again. Secrets are external:
\* they may be missing at any time.
BuildFails ==
  /\ worker.busy
  /\ worker.todo = NoData
  /\ worker' = Idle
  /\ queue' = queue \cup {worker.cluster}
  /\ UNCHANGED <<res, pipe, pending, source, plan, status, changes>>

\* The pipeline controller has no predicate: it sees every write of the
\* status and puts its own value back.
PipelineReconcile(p) ==
  LET wanted == IF pipe[p].cluster \notin Clusters THEN "NotFound"
                ELSE IF pipe[p].enabled THEN "Ready" ELSE "Disabled"
  IN  /\ pipe[p] # Absent
      /\ status[p] # wanted
      /\ status' = [status EXCEPT ![p] = wanted]
      /\ UNCHANGED <<res, pipe, pending, queue, worker, source, plan, changes>>

\* The operator has just started: every cluster is in the queue.
Init ==
  /\ res \in StartResources
  /\ pipe \in StartPipelines
  /\ pending = {}
  /\ queue = Clusters
  /\ worker = Idle
  /\ source = [c \in Clusters |-> NoData]
  /\ plan = [c \in Clusters |-> NoPlan]
  /\ status = [p \in Pipelines |-> ""]
  /\ changes = 0

Next ==
  \/ \E n \in AllNames : ChangeResource(n)
  \/ \E p \in Pipelines : ChangePipeline(p) \/ ResolvePipeline(p)
                            \/ PipelineReconcile(p)
  \/ \E e \in pending : HandleEvent(e)
  \/ \E c \in Clusters : StartReconcile(c)
  \/ BuildPlan \/ BuildFails

Spec == Init /\ [][Next]_vars

-----------------------------------------------------------------------------
Settled(c) ==
  pending = {} /\ c \notin queue /\ ~(worker.busy /\ worker.cluster = c)

\* What a reconcile would read now. A profile that only tunnel policies use
\* is left out: nothing watches it for them.
Watched(data) ==
  [data EXCEPT !.profiles =
     [f \in ProfilesOf(data.targets) |-> data.profiles[f]]]

CurrentData(c) ==
  [p \in {p \in listPipelinesForCluster(c) : ~MissingTunnel(c, pipe[p])} |->
     Watched(pipelineData(pipe[p]))]

\* No trigger is lost: when no event is on its way and a cluster is not
\* queued, its plan was built from what its pipelines select now, however
\* changes of labels, references, profiles, pipelines and their cluster
\* crossed the handlers and a reconcile half way through its pipelines.
SettledIsCurrent ==
  \A c \in Clusters :
    Settled(c) =>
      [p \in DOMAIN source[c] |-> Watched(source[c][p])] = CurrentData(c)

\* The plan refers to nothing it does not contain, also when it was built
\* from pipelines that saw different versions of a resource.
PlansAreClosed == \A c \in Clusters : plan[c] # NoPlan => Closed(plan[c])

\* The plan routes what every single pipeline asked for, although targets and
\* subscriptions are shared by pipelines: each of its subscriptions runs on
\* each of its targets and reaches each of its outputs through its
\* processors, as a set, and so do its inputs.
PipelinesDelivered ==
  \A c \in Clusters : plan[c] # NoPlan => Delivered(plan[c], source[c])

\* The Prometheus outputs of a pipeline listen on ports of the pool, no two
\* on the same, also when their hashes collide.
DistinctPorts(pl, p) ==
  LET outputs == {o \in DOMAIN pl.outputs : o[1] = p /\ o[2] \in PrometheusNames}
  IN  /\ \A o \in outputs : pl.outputs[o].listen \in Pool
      /\ IsInjective([o \in outputs |-> pl.outputs[o].listen])

\* assignPorts finds a port as long as there is one, whatever the hashes; and
\* the outputs that one pipeline contributes to a plan are on distinct ports.
\* Those of two pipelines need not be, each starts with an empty pool.
PortsComplete ==
  /\ PortsFound
  /\ \A c \in Clusters, p \in Pipelines :
       plan[c] # NoPlan => DistinctPorts(plan[c], p)

-----------------------------------------------------------------------------
(***************************************************************************)
(* Why these hold: the inductive invariant.                                *)
(***************************************************************************)
\* The shape of the state, as far as TypeOK leaves it open.
ShapeInv ==
  /\ res \in [AllNames -> (UNION {Objects[n] : n \in AllNames}) \cup {Absent}]
  /\ worker = [busy |-> worker.busy, cluster |-> worker.cluster,
               todo |-> worker.todo, data |-> worker.data]
  /\ \A p \in DOMAIN worker.todo : worker.todo[p] \in PipelineSpecs
  /\ DOMAIN source = Clusters /\ DOMAIN plan = Clusters

\* The clusters that an event concerns if it is handled now.
Concerned(e) == IF "clusters" \in DOMAIN e THEN e.clusters ELSE findClusters(e)
Triggered(c) == c \in queue \/ \E e \in pending : c \in Concerned(e)

\* The pipelines that belong into the plan of a cluster, and data that was
\* resolved for some of them and has not changed since.
Wanted(c) == {p \in listPipelinesForCluster(c) : ~MissingTunnel(c, pipe[p])}
UpToDate(datas, ps) ==
  /\ DOMAIN datas = ps
  /\ \A p \in ps : /\ Resolvable(pipe[p])
                   /\ Watched(datas[p]) = Watched(pipelineData(pipe[p]))

\* A cluster without a trigger has nothing outdated, neither in its plan nor
\* in a reconcile half way through its pipelines.
TriggerInv ==
  \A c \in Clusters :
    \/ Triggered(c)
    \/ /\ worker.busy /\ worker.cluster = c
       /\ DOMAIN worker.todo \subseteq listPipelinesForCluster(c)
       /\ \A p \in DOMAIN worker.todo : worker.todo[p] = pipe[p]
       /\ UpToDate(worker.data, Wanted(c) \ DOMAIN worker.todo)
    \/ /\ ~(worker.busy /\ worker.cluster = c)
       /\ UpToDate(source[c], Wanted(c))

\* A pipeline that was resolved has the profiles of all its targets.
HasProfiles(data) ==
  \A t \in DOMAIN data.targets : data.targets[t].profile \in DOMAIN data.profiles
DataInv == \A p \in DOMAIN worker.data : HasProfiles(worker.data[p])

PlanInv ==
  TypeOK /\ ShapeInv /\ TriggerInv /\ DataInv /\ PlansAreClosed /\ PipelinesDelivered
=============================================================================
