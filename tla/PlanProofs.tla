----------------------------- MODULE PlanProofs -----------------------------
(***************************************************************************)
(* Proofs about PlanBuilder and PipelineResources: every plan is closed,   *)
(* routes what its pipelines ask for and has the Prometheus outputs of     *)
(* each pipeline on distinct ports, and no trigger is lost, for any        *)
(* clusters, pipelines, resources, selectors, hashes and orders of events. *)
(***************************************************************************)
EXTENDS PipelineResources, PortProofs

\* The configuration of an output keeps its processors when it gets a port.
LEMMA OutputsBuilt ==
  ASSUME NEW datas, NEW lists, NEW o \in Instances(datas, "outputs")
  PROVE  LET outputs == assignPrometheusOutputPorts(datas, buildOutputs(datas, lists))
         IN  /\ DOMAIN outputs = Instances(datas, "outputs")
             /\ outputs[o].processors = attachedProcessors(lists, o)
  BY DEF assignPrometheusOutputPorts, buildOutputs, buildOutputConfig

\* The processors of an instance are those of its pipeline.
LEMMA Attached ==
  ASSUME NEW datas, NEW kind, NEW lists \in ProcessorLists(datas, kind),
         NEW x, x[1] \in DOMAIN datas
  PROVE  ToSet(attachedProcessors(lists, x)) = {x[1]} \X DOMAIN datas[x[1]][kind]
  <1> DEFINE p == x[1]
             list == lists[p]
  <1>1. {list[i] : i \in DOMAIN list} = DOMAIN datas[p][kind]
    BY DEF ProcessorLists, ToSet
  <1> DEFINE got == attachedProcessors(lists, x)
  <1>2. /\ DOMAIN got = DOMAIN list
        /\ \A i \in DOMAIN list : got[i] = <<p, list[i]>>
    BY DEF attachedProcessors
  <1> HIDE DEF got, list, p
  <1>3. ToSet(got) = {p} \X DOMAIN datas[p][kind]
    BY <1>1, <1>2 DEF ToSet
  <1> QED BY <1>3 DEF got, p

\* What a plan names exists in the plan.
LEMMA BuildIsClosed ==
  ASSUME NEW datas, NEW order,
         NEW outputLists \in ProcessorLists(datas, "outputProcessors"),
         NEW inputLists \in ProcessorLists(datas, "inputProcessors"),
         Build(datas, order, outputLists, inputLists) # NoPlan
  PROVE  Closed(Build(datas, order, outputLists, inputLists))
  <1> DEFINE pl == Build(datas, order, outputLists, inputLists)
  <1>1. /\ pl.targets = buildTargets(datas, order)
        /\ pl.subscriptions = buildSubscriptions(datas, order)
        /\ pl.outputs =
             assignPrometheusOutputPorts(datas, buildOutputs(datas, outputLists))
        /\ pl.inputs = buildInputs(datas, inputLists)
        /\ pl.processors = buildProcessors(datas)
    BY DEF Build
  <1> HIDE DEF pl
  <1>2. \A t \in DOMAIN pl.targets :
          pl.targets[t].subscriptions \subseteq DOMAIN pl.subscriptions
    BY <1>1
    DEF buildTargets, buildSubscriptions, targetSubscriptions, Resolved, With
  <1>3. DOMAIN pl.outputs = Instances(datas, "outputs")
    BY <1>1 DEF assignPrometheusOutputPorts, buildOutputs
  <1>4. \A s \in DOMAIN pl.subscriptions :
          pl.subscriptions[s].outputs \subseteq DOMAIN pl.outputs
    BY <1>1, <1>3 DEF buildSubscriptions, buildSubscriptionConfig,
       subscriptionOutputs, Instances, With
  <1>5. \A i \in Instances(datas, "inputs") :
          /\ i[1] \in DOMAIN datas
          /\ pl.inputs[i].outputs = inputOutputs(datas, i)
          /\ pl.inputs[i].processors = attachedProcessors(inputLists, i)
    BY <1>1 DEF buildInputs, buildInputConfig, Instances
  <1>6. DOMAIN pl.inputs = Instances(datas, "inputs")
    BY <1>1 DEF buildInputs
  <1>7. \A i \in DOMAIN pl.inputs : pl.inputs[i].outputs \subseteq DOMAIN pl.outputs
    BY <1>3, <1>5, <1>6 DEF inputOutputs, Instances
  <1>8. DOMAIN pl.processors = Instances(datas, "outputProcessors")
                                 \cup Instances(datas, "inputProcessors")
    BY <1>1 DEF buildProcessors
  <1>9. \A o \in DOMAIN pl.outputs :
          ToSet(pl.outputs[o].processors) \subseteq DOMAIN pl.processors
    <2> SUFFICES ASSUME NEW o \in Instances(datas, "outputs")
                 PROVE  ToSet(pl.outputs[o].processors) \subseteq DOMAIN pl.processors
      BY <1>3
    <2>1. pl.outputs[o].processors = attachedProcessors(outputLists, o)
      BY <1>1, OutputsBuilt
    <2>2. o[1] \in DOMAIN datas
      BY DEF Instances
    <2>3. {o[1]} \X DOMAIN datas[o[1]]["outputProcessors"]
            \subseteq Instances(datas, "outputProcessors")
      BY <2>2 DEF Instances
    <2> QED BY <1>8, <2>1, <2>2, <2>3, Attached
  <1>10. \A i \in DOMAIN pl.inputs :
          ToSet(pl.inputs[i].processors) \subseteq DOMAIN pl.processors
    <2> SUFFICES ASSUME NEW i \in Instances(datas, "inputs")
                 PROVE  ToSet(pl.inputs[i].processors) \subseteq DOMAIN pl.processors
      BY <1>6
    <2>1. {i[1]} \X DOMAIN datas[i[1]]["inputProcessors"]
            \subseteq Instances(datas, "inputProcessors")
      BY <1>5 DEF Instances
    <2> QED BY <1>5, <1>8, <2>1, Attached
  <1>11. Closed(pl)
    BY <1>2, <1>4, <1>7, <1>9, <1>10 DEF Closed
  <1> QED BY <1>11 DEF pl

\* The plan routes what every single pipeline asked for.
LEMMA BuildDelivers ==
  ASSUME NEW datas, NEW order,
         NEW outputLists \in ProcessorLists(datas, "outputProcessors"),
         NEW inputLists \in ProcessorLists(datas, "inputProcessors"),
         \A p \in DOMAIN datas : HasProfiles(datas[p]),
         Build(datas, order, outputLists, inputLists) # NoPlan
  PROVE  Delivered(Build(datas, order, outputLists, inputLists), datas)
  <1> DEFINE pl == Build(datas, order, outputLists, inputLists)
  <1>1. /\ pl.targets = buildTargets(datas, order)
        /\ pl.subscriptions = buildSubscriptions(datas, order)
        /\ pl.outputs =
             assignPrometheusOutputPorts(datas, buildOutputs(datas, outputLists))
        /\ pl.inputs = buildInputs(datas, inputLists)
    BY DEF Build
  <1> HIDE DEF pl
  <1> SUFFICES ASSUME NEW p \in DOMAIN datas,
                      NEW o \in {p} \X DOMAIN datas[p].outputs
               PROVE  /\ ToSet(pl.outputs[o].processors) =
                           {p} \X DOMAIN datas[p].outputProcessors
                      /\ \A s \in DOMAIN datas[p].subscriptions :
                           /\ o \in pl.subscriptions[s].outputs
                           /\ \A t \in DOMAIN datas[p].targets :
                                s \in pl.targets[t].subscriptions
                      /\ \A i \in {p} \X DOMAIN datas[p].inputs :
                           /\ o \in pl.inputs[i].outputs
                           /\ ToSet(pl.inputs[i].processors) =
                                {p} \X DOMAIN datas[p].inputProcessors
    BY DEF Delivered, pl
  <1>2. o \in Instances(datas, "outputs") /\ o[1] = p
    BY DEF Instances
  <1>3. ToSet(pl.outputs[o].processors) = {p} \X DOMAIN datas[p].outputProcessors
    <2>1. pl.outputs[o].processors = attachedProcessors(outputLists, o)
      BY <1>1, <1>2, OutputsBuilt
    <2> QED BY <1>2, <2>1, Attached
  <1>4. ASSUME NEW s \in DOMAIN datas[p].subscriptions
        PROVE  o \in pl.subscriptions[s].outputs
    <2>1. s \in Resolved(datas, "subscriptions")
      BY DEF Resolved
    <2>2. pl.subscriptions[s].outputs = subscriptionOutputs(datas, s)
      BY <1>1, <2>1 DEF buildSubscriptions, buildSubscriptionConfig
    <2> QED BY <2>2 DEF subscriptionOutputs, With
  <1>5. ASSUME NEW s \in DOMAIN datas[p].subscriptions,
               NEW t \in DOMAIN datas[p].targets
        PROVE  s \in pl.targets[t].subscriptions
    <2>1. p \in Able(datas, "targets", t)
      BY DEF HasProfiles, Able, With
    <2>2. t \in Built(datas, "targets")
      BY <2>1 DEF Built, Resolved
    <2>3. pl.targets[t].subscriptions = targetSubscriptions(datas, t)
      BY <1>1, <2>2 DEF buildTargets
    <2> QED BY <2>3 DEF targetSubscriptions, With
  <1>6. ASSUME NEW i \in {p} \X DOMAIN datas[p].inputs
        PROVE  /\ o \in pl.inputs[i].outputs
               /\ ToSet(pl.inputs[i].processors) =
                    {p} \X DOMAIN datas[p].inputProcessors
    <2>1. i \in Instances(datas, "inputs") /\ i[1] = p
      BY DEF Instances
    <2>2. /\ pl.inputs[i].outputs = inputOutputs(datas, i)
          /\ pl.inputs[i].processors = attachedProcessors(inputLists, i)
      BY <1>1, <2>1 DEF buildInputs, buildInputConfig
    <2>3. o \in inputOutputs(datas, i)
      BY <2>1 DEF inputOutputs
    <2> QED BY <2>1, <2>2, <2>3, Attached
  <1> QED BY <1>3, <1>4, <1>5, <1>6

\* Resources of the seven roles are no profiles.
LEMMA RolesTyped ==
  /\ \A role \in Roles : /\ KindOf(role) \in DOMAIN Names
                         /\ Names[KindOf(role)] \subseteq AllNames
                         /\ Names[KindOf(role)] \cap Names.profiles = {}
  /\ Names.profiles \subseteq AllNames
  /\ Names.targets = Names[KindOf("targets")] /\ "targets" \in Roles
  /\ "policies" \in Roles /\ "profiles" \notin Roles
  BY KindsAssumption DEF Roles, KindOf, ProcessorRoles, AllNames

\* What is there is one of the objects of its name.
LEMMA ResourceTyped ==
  ASSUME TypeOK, NEW n \in AllNames, Exists(n)
  PROVE  /\ res[n] \in Objects[n]
         /\ res[n] = [labels |-> res[n].labels, rev |-> res[n].rev,
                      profile |-> res[n].profile]
  BY ObjectsAssumption DEF TypeOK, Exists

\* The targets of a pipeline exist, are selected and have a profile.
LEMMA TargetsResolved ==
  ASSUME TypeOK, NEW spec, NEW t \in DOMAIN resolve(spec, "targets")
  PROVE  /\ t \in Names.targets /\ Exists(t)
         /\ resolve(spec, "targets")[t] = res[t]
         /\ res[t].profile \in Names.profiles
         /\ t \in ToSet(spec.refs["targets"]) \/ Selected(spec, "targets", res[t].labels)
  <1>1. DOMAIN resolve(spec, "targets") = resolveNames(spec, "targets")
    BY DEF resolve, ProcessorRoles
  <1>2. /\ t \in Names.targets /\ Exists(t)
        /\ t \in ToSet(spec.refs["targets"]) \/ Selected(spec, "targets", res[t].labels)
    BY <1>1, RolesTyped DEF resolveNames
  <1>3. t \in AllNames /\ t # Nameless
    BY <1>2, RolesTyped, KindsAssumption
  <1>4. resolve(spec, "targets")[t] = res[t]
    BY <1>1, <1>3 DEF resolve, ObjectOf, ProcessorRoles
  <1>5. res[t].profile \in Names.profiles
    BY <1>2, <1>3, ResourceTyped, ObjectsAssumption
  <1> QED BY <1>2, <1>4, <1>5

\* What of the data of a resolvable pipeline is watched.
View(spec) ==
  [role \in Roles \cup {"profiles"} |->
     IF role = "profiles" THEN [f \in ProfilesOf(resolve(spec, "targets")) |-> res[f]]
     ELSE resolve(spec, role)]

\* A pipeline that can be resolved has the profiles of all its targets, and
\* what is watched of its data is its view.
LEMMA WatchedIsView ==
  ASSUME TypeOK, NEW spec, Resolvable(spec)
  PROVE  /\ Watched(pipelineData(spec)) = View(spec)
         /\ HasProfiles(pipelineData(spec))
  <1> DEFINE data == pipelineData(spec)
             targets == resolve(spec, "targets")
             policies == resolve(spec, "policies")
             wanted == ProfilesOf(targets) \cup ProfilesOf(policies)
             exist == {f \in wanted \ {NoProfile} : Exists(f)}
  <1>1. /\ data = [role \in Roles \cup {"profiles"} |->
                     IF role = "profiles" THEN [f \in exist |-> res[f]]
                     ELSE resolve(spec, role)]
        /\ data.targets = targets
        /\ data.profiles = [f \in exist |-> res[f]]
    BY RolesTyped DEF pipelineData
  <1>2. ProfilesOf(targets) \subseteq exist
    <2> SUFFICES ASSUME NEW t \in DOMAIN targets
                 PROVE  targets[t].profile \in exist
      BY DEF ProfilesOf
    <2>1. targets[t].profile \in Names.profiles
      BY TargetsResolved
    <2>2. targets[t].profile # NoProfile
      BY <2>1, ObjectsAssumption
    <2>3. targets[t].profile \in ProfilesOf(targets)
      BY DEF ProfilesOf
    <2> QED BY <2>2, <2>3 DEF Resolvable
  <1> HIDE DEF targets, exist
  <1>3. [f \in ProfilesOf(targets) |-> data.profiles[f]]
          = [f \in ProfilesOf(targets) |-> res[f]]
    BY <1>1, <1>2
  <1>4. Watched(data) = View(spec)
    <2>1. Watched(data) = [data EXCEPT !.profiles =
                             [f \in ProfilesOf(targets) |-> res[f]]]
      BY <1>1, <1>3 DEF Watched
    <2> DEFINE prof == [f \in ProfilesOf(targets) |-> res[f]]
    <2>2. View(spec) = [role \in Roles \cup {"profiles"} |->
                          IF role = "profiles" THEN prof ELSE resolve(spec, role)]
      BY DEF View, targets
    <2> HIDE DEF data, prof
    <2> QED BY <1>1, <2>1, <2>2 DEF prof
  <1>5. HasProfiles(data)
    BY <1>1, <1>2 DEF HasProfiles, ProfilesOf
  <1> QED BY <1>4, <1>5

\* Every change makes an event: the predicates drop nothing that matters.
LEMMA ChangeMakesEvent ==
  ASSUME TypeOK, ShapeInv, NEW n \in AllNames, ChangeResource(n)
  PROVE  \E new \in Objects[n] \cup {Absent} : \E e \in pending' :
           /\ new # res[n]
           /\ res' = [res EXCEPT ![n] = new]
           /\ pending \subseteq pending'
           /\ "clusters" \notin DOMAIN e /\ e.name = n
           /\ e.old = LabelsOf(res[n], new) /\ e.new = LabelsOf(new, res[n])
  <1>1. PICK new \in (Objects[n] \cup {Absent}) \ {res[n]} :
          /\ res' = [res EXCEPT ![n] = new]
          /\ pending' = IF generationOrLabelsChanged(n, res[n], new)
               THEN pending \cup {[name |-> n, old |-> LabelsOf(res[n], new),
                                    new |-> LabelsOf(new, res[n])]}
               ELSE pending
    BY DEF ChangeResource
  <1>2. generationOrLabelsChanged(n, res[n], new)
    <2> SUFFICES ASSUME res[n] # Absent, new # Absent,
                        res[n].rev = new.rev, res[n].profile = new.profile,
                        n \notin Names.profiles => res[n].labels = new.labels
                 PROVE  FALSE
      BY DEF generationOrLabelsChanged
    <2>1. res[n] \in Objects[n] /\ new \in Objects[n]
      BY <1>1 DEF TypeOK
    <2>2. res[n].labels = new.labels
      BY <2>1, ObjectsAssumption
    <2>3. res[n] = new
      BY <2>1, <2>2, ObjectsAssumption
    <2> QED BY <1>1, <2>3
  <1> DEFINE e == [name |-> n, old |-> LabelsOf(res[n], new),
                   new |-> LabelsOf(new, res[n])]
  <1>3. /\ e \in pending' /\ pending \subseteq pending'
        /\ "clusters" \notin DOMAIN e /\ e.name = n
        /\ e.old = LabelsOf(res[n], new) /\ e.new = LabelsOf(new, res[n])
    BY <1>1, <1>2
  <1> QED BY <1>1, <1>3

\* Whom an event about a resource concerns depends on the pipelines alone.
LEMMA ReferencesStable ==
  ASSUME NEW c, UNCHANGED pipe, NEW n, NEW labels
  PROVE  /\ listPipelinesForCluster(c)' = listPipelinesForCluster(c)
         /\ c \in findClustersReferencingResource(n, labels)' <=>
              c \in findClustersReferencingResource(n, labels)
  BY DEF listPipelinesForCluster, findClustersReferencingResource,
     pipelineReferencesResource

\* A change of a resource does not undo a trigger: an event about a profile
\* that reached a cluster through a target that has just changed is followed
\* by the event about that target.
LEMMA ResourceKeepsTriggers ==
  ASSUME TypeOK, ShapeInv, NEW n \in AllNames, ChangeResource(n),
         NEW c \in Clusters, Triggered(c)
  PROVE  Triggered(c)'
  <1>1. PICK new \in Objects[n] \cup {Absent}, d \in pending' :
          /\ new # res[n]
          /\ res' = [res EXCEPT ![n] = new]
          /\ pending \subseteq pending'
          /\ "clusters" \notin DOMAIN d /\ d.name = n
          /\ d.old = LabelsOf(res[n], new) /\ d.new = LabelsOf(new, res[n])
    BY ChangeMakesEvent
  <1>2. UNCHANGED <<pipe, queue>>
    BY DEF ChangeResource
  <1>3. CASE c \in queue
    BY <1>2, <1>3 DEF Triggered
  <1>4. ASSUME NEW e \in pending, c \in Concerned(e)
        PROVE  Triggered(c)'
    <2>1. e \in pending'
      BY <1>1
    <2>2. CASE "clusters" \in DOMAIN e
      BY <1>4, <2>1, <2>2 DEF Triggered, Concerned
    <2>3. CASE "clusters" \notin DOMAIN e /\ e.name \notin Names.profiles
      <3>1. PICK labels \in {e.old, e.new} :
              c \in findClustersReferencingResource(e.name, labels)
        BY <1>4, <2>3 DEF Concerned, findClusters
      <3>2. c \in findClustersReferencingResource(e.name, labels)'
        BY <1>2, <3>1, ReferencesStable
      <3>3. c \in Concerned(e)'
        BY <2>3, <3>2 DEF Concerned, findClusters
      <3> QED BY <2>1, <3>3 DEF Triggered
    <2>4. CASE "clusters" \notin DOMAIN e /\ e.name \in Names.profiles
      <3>1. PICK t \in Names.targets :
              /\ Exists(t) /\ res[t].profile = e.name
              /\ c \in findClustersReferencingResource(t, res[t].labels)
        BY <1>4, <2>4 DEF Concerned, findClusters, findClustersForTargetProfile
      <3>2. CASE t # n
        <4>1. res'[t] = res[t]
          BY <1>1, <3>1, <3>2, RolesTyped DEF ShapeInv
        <4>2. c \in findClustersReferencingResource(t, res[t].labels)'
          BY <1>2, <3>1, ReferencesStable, <4>1
        <4>3. c \in findClustersForTargetProfile(e.name)'
          BY <3>1, <4>1, <4>2 DEF findClustersForTargetProfile, Exists
        <4>4. c \in Concerned(e)'
          BY <2>4, <4>3 DEF Concerned, findClusters
        <4> QED BY <2>1, <4>4 DEF Triggered
      <3>3. CASE t = n
        <4>1. /\ d \in pending' /\ "clusters" \notin DOMAIN d
              /\ d.name = n /\ d.old = res[n].labels
          BY <1>1, <3>1, <3>3 DEF LabelsOf, Exists
        <4>2. n \notin Names.profiles
          BY <3>1, <3>3, RolesTyped
        <4>3. c \in findClustersReferencingResource(n, res[n].labels)
          BY <3>1, <3>3
        <4>4. \E labels \in {d.old, d.new} :
                c \in findClustersReferencingResource(d.name, labels)'
          BY <1>2, <4>1, <4>3, ReferencesStable
        <4>5. c \in Concerned(d)'
          BY <4>1, <4>2, <4>4 DEF Concerned, findClusters
        <4> QED BY <4>1, <4>5 DEF Triggered
      <3> QED BY <3>2, <3>3
    <2> QED BY <2>2, <2>3, <2>4
  <1> QED BY <1>3, <1>4 DEF Triggered

\* A change of a resource that triggers no reconcile of a cluster changes
\* nothing for the pipelines of that cluster.
LEMMA UntriggeredUnchanged ==
  ASSUME TypeOK, ShapeInv, NEW n \in AllNames, ChangeResource(n),
         NEW c \in Clusters, ~Triggered(c)',
         NEW p \in listPipelinesForCluster(c)
  PROVE  /\ \A role \in Roles : resolve(pipe[p], role)' = resolve(pipe[p], role)
         /\ \A f \in ProfilesOf(resolve(pipe[p], "targets")) : res'[f] = res[f]
  <1> DEFINE spec == pipe[p]
  <1>0. spec \in PipelineSpecs /\ p \in Pipelines
    BY DEF listPipelinesForCluster, TypeOK
  <1>1. PICK new \in Objects[n] \cup {Absent}, e \in pending' :
          /\ new # res[n]
          /\ res' = [res EXCEPT ![n] = new]
          /\ pending \subseteq pending'
          /\ "clusters" \notin DOMAIN e /\ e.name = n
          /\ e.old = LabelsOf(res[n], new) /\ e.new = LabelsOf(new, res[n])
    BY ChangeMakesEvent
  <1>2. UNCHANGED pipe
    BY DEF ChangeResource
  <1>4. c \notin findClusters(e)'
    <2>1. c \notin Concerned(e)'
      BY <1>1 DEF Triggered
    <2> QED BY <1>1, <2>1 DEF Concerned
  <1>5. /\ res'[n] = new /\ res[n] \in Objects[n] \cup {Absent}
        /\ \A m \in AllNames \ {n} : res'[m] = res[m]
    BY <1>1 DEF ShapeInv, TypeOK
  <1>6. ASSUME NEW role \in Roles, n \in Names[KindOf(role)]
        PROVE  /\ n \notin ToSet(spec.refs[role])
               /\ res[n] # Absent => ~Selected(spec, role, res[n].labels)
               /\ new # Absent => ~Selected(spec, role, new.labels)
    <2>1. n \notin Names.profiles
      BY <1>6, RolesTyped
    <2>2. \A labels \in {e.old, e.new} :
            c \notin findClustersReferencingResource(n, labels)
      BY <1>2, <1>1, <1>4, <2>1, ReferencesStable DEF findClusters
    <2>3. \A labels \in {e.old, e.new} :
            ~pipelineReferencesResource(spec, n, labels)
      BY <2>2 DEF findClustersReferencingResource
    <2>4. role \in RolesOf(n)
      BY <1>6 DEF RolesOf
    <2>5. \A labels \in {e.old, e.new} :
            n \notin ToSet(spec.refs[role]) /\ ~Selected(spec, role, labels)
      BY <2>3, <2>4 DEF pipelineReferencesResource
    <2> QED BY <1>1, <2>5 DEF LabelsOf
  <1>7. ASSUME NEW role \in Roles
        PROVE  resolve(spec, role)' = resolve(spec, role)
    <2> DEFINE names == Names[KindOf(role)]
    <2>1. names \subseteq AllNames /\ ToSet(spec.refs[role]) \subseteq names
      BY <1>0, RolesTyped, PipelinesAssumption
    <2>2. \A m \in names : m \in resolveNames(spec, role)' <=>
                             m \in resolveNames(spec, role)
      <3> SUFFICES ASSUME NEW m \in names
                   PROVE  (Exists(m)' /\ (m \in ToSet(spec.refs[role])
                                            \/ Selected(spec, role, res'[m].labels)))
                            <=> (Exists(m) /\ (m \in ToSet(spec.refs[role])
                                            \/ Selected(spec, role, res[m].labels)))
        BY <1>2 DEF resolveNames, Selected
      <3>1. CASE m # n
        BY <1>5, <2>1, <3>1 DEF Exists
      <3>2. CASE m = n
        BY <1>5, <1>6, <3>2 DEF Exists
      <3> QED BY <3>1, <3>2
    <2>3. resolveNames(spec, role)' = resolveNames(spec, role)
      BY <2>2 DEF resolveNames
    <2>4. n \notin resolveNames(spec, role)
      BY <1>6 DEF resolveNames, Exists
    <2>5. \A m \in ToSet(spec.refs[role]) : Exists(m)' <=> Exists(m)
      BY <1>5, <1>6, <2>1 DEF Exists
    <2>6. resolveProcessors(spec, role)' = resolveProcessors(spec, role)
      BY <1>2, <2>3, <2>5 DEF resolveProcessors
    <2>7. DOMAIN resolve(spec, role)' = DOMAIN resolve(spec, role)
      BY <2>3, <2>6 DEF resolve
    <2>8. \A m \in DOMAIN resolve(spec, role) : ObjectOf(m)' = ObjectOf(m)
      <3> TAKE m \in DOMAIN resolve(spec, role)
      <3>1. m = Nameless \/ m \in resolveNames(spec, role)
        BY DEF resolve, resolveProcessors
      <3>2. CASE m = Nameless
        BY <3>2 DEF ObjectOf
      <3>3. CASE m \in resolveNames(spec, role)
        <4>1. m # n /\ m \in AllNames
          BY <2>1, <2>4, <3>3 DEF resolveNames
        <4> QED BY <1>5, <4>1 DEF ObjectOf
      <3> QED BY <3>1, <3>2, <3>3
    <2>9. /\ resolve(spec, role) = [m \in DOMAIN resolve(spec, role) |-> ObjectOf(m)]
          /\ resolve(spec, role)' = [m \in DOMAIN resolve(spec, role)' |-> ObjectOf(m)']
      BY DEF resolve
    <2> QED BY <2>7, <2>8, <2>9
  <1>8. ASSUME NEW f \in ProfilesOf(resolve(spec, "targets"))
        PROVE  res'[f] = res[f]
    <2>1. PICK t \in DOMAIN resolve(spec, "targets") :
            f = resolve(spec, "targets")[t].profile
      BY DEF ProfilesOf
    <2>2. /\ t \in Names.targets /\ Exists(t) /\ res[t].profile = f
          /\ f \in Names.profiles
          /\ t \in ToSet(spec.refs["targets"]) \/ Selected(spec, "targets", res[t].labels)
      BY <2>1, TargetsResolved
    <2>3. f # n
      <3> SUFFICES ASSUME f = n PROVE FALSE
        OBVIOUS
      <3>1. res'[t] = res[t]
        BY <1>5, <2>2, RolesTyped
      <3>2. pipelineReferencesResource(spec, t, res[t].labels)
        <4>1. "targets" \in RolesOf(t)
          BY <2>2, RolesTyped DEF RolesOf
        <4> QED BY <2>2, <4>1 DEF pipelineReferencesResource
      <3>3. c \in findClustersReferencingResource(t, res[t].labels)
        BY <3>2 DEF findClustersReferencingResource
      <3>4. c \in findClustersReferencingResource(t, res[t].labels)'
        BY <1>2, <3>1, <3>3, ReferencesStable
      <3>5. c \in findClustersForTargetProfile(n)'
        BY <2>2, <3>1, <3>4 DEF findClustersForTargetProfile, Exists
      <3> QED BY <1>1, <1>4, <2>2, <3>5 DEF findClusters
    <2>4. f \in AllNames
      BY <2>2, RolesTyped
    <2> QED BY <1>5, <2>3, <2>4
  <1> QED BY <1>2, <1>7, <1>8

\* What is watched of the pipelines that can be resolved, now.
LEMMA PipelineViews ==
  \A q \in Pipelines :
    TypeOK /\ Resolvable(pipe[q]) =>
      Watched(pipelineData(pipe[q])) = View(pipe[q])
  BY WatchedIsView

\* So nothing of a cluster that is not triggered gets out of date.
LEMMA ResourceKeepsViews ==
  ASSUME TypeOK, ShapeInv, TypeOK', NEW n \in AllNames, ChangeResource(n),
         NEW c \in Clusters, ~Triggered(c)',
         NEW p \in listPipelinesForCluster(c)
  PROVE  /\ MissingTunnel(c, pipe[p])' <=> MissingTunnel(c, pipe[p])
         /\ Resolvable(pipe[p]) =>
              /\ Resolvable(pipe[p])'
              /\ Watched(pipelineData(pipe[p]))' = Watched(pipelineData(pipe[p]))
  <1>0. UNCHANGED pipe /\ p \in Pipelines
    BY DEF ChangeResource, listPipelinesForCluster
  <1>1. \A role \in Roles : resolve(pipe[p], role)' = resolve(pipe[p], role)
    BY UntriggeredUnchanged
  <1>2. \A f \in ProfilesOf(resolve(pipe[p], "targets")) : res'[f] = res[f]
    BY UntriggeredUnchanged
  <1>3. MissingTunnel(c, pipe[p])' <=> MissingTunnel(c, pipe[p])
    BY <1>1, RolesTyped DEF MissingTunnel
  <1>4. ASSUME Resolvable(pipe[p])
        PROVE  /\ Resolvable(pipe[p])'
               /\ Watched(pipelineData(pipe[p]))' = Watched(pipelineData(pipe[p]))
    <2>1. resolve(pipe[p], "targets")' = resolve(pipe[p], "targets")
      BY <1>1, RolesTyped
    <2>2. Resolvable(pipe[p])'
      BY <1>2, <1>4, <2>1 DEF Resolvable, ProfilesOf, Exists
    <2>3. View(pipe[p])' = View(pipe[p])
      BY <1>1, <1>2, <2>1 DEF View, ProfilesOf
    <2>4. Watched(pipelineData(pipe[p])) = View(pipe[p])
      BY <1>0, <1>4, PipelineViews
    <2>5. (\A q \in Pipelines :
             TypeOK /\ Resolvable(pipe[q]) =>
               Watched(pipelineData(pipe[q])) = View(pipe[q]))'
      BY PipelineViews, PTL
    <2>6. Watched(pipelineData(pipe[p]))' = View(pipe[p])'
      BY <1>0, <2>2, <2>5
    <2> QED BY <2>2, <2>3, <2>4, <2>6
  <1> QED BY <1>3, <1>4

\* As long as the resources stay the same, so does what a spec selects.
LEMMA SameResources ==
  ASSUME UNCHANGED res, NEW spec, NEW c
  PROVE  /\ Resolvable(spec)' <=> Resolvable(spec)
         /\ pipelineData(spec)' = pipelineData(spec)
         /\ MissingTunnel(c, spec)' <=> MissingTunnel(c, spec)
  <1>1. \A role : resolveNames(spec, role)' = resolveNames(spec, role)
    BY DEF resolveNames, Exists
  <1>2. \A role : resolveProcessors(spec, role)' = resolveProcessors(spec, role)
    BY <1>1 DEF resolveProcessors, Exists
  <1>3. \A n : ObjectOf(n)' = ObjectOf(n)
    BY DEF ObjectOf
  <1>4. \A role : resolve(spec, role)' = resolve(spec, role)
    BY <1>1, <1>2, <1>3 DEF resolve
  <1>5. Resolvable(spec)' <=> Resolvable(spec)
    BY <1>4 DEF Resolvable, Exists, ProfilesOf
  <1>6. MissingTunnel(c, spec)' <=> MissingTunnel(c, spec)
    BY <1>4 DEF MissingTunnel
  <1>7. pipelineData(spec)' = pipelineData(spec)
    <2> DEFINE found == [role \in Roles |-> resolve(spec, role)]
               wanted == ProfilesOf(found.targets) \cup ProfilesOf(found.policies)
               exist == {f \in wanted \ {NoProfile} : Exists(f)}
               profiles == [f \in exist |-> res[f]]
    <2>1. pipelineData(spec) =
            [role \in Roles \cup {"profiles"} |->
               IF role = "profiles" THEN profiles ELSE found[role]]
      BY DEF pipelineData
    <2>2. pipelineData(spec)' =
            [role \in Roles \cup {"profiles"} |->
               IF role = "profiles" THEN profiles' ELSE found'[role]]
      BY DEF pipelineData
    <2>3. found' = found
      BY <1>4
    <2>4. exist' = exist
      BY <2>3 DEF Exists, ProfilesOf
    <2>5. profiles' = profiles
      BY <2>4
    <2> QED BY <2>1, <2>2, <2>3, <2>5
  <1> QED BY <1>5, <1>6, <1>7

\* A cluster whose pipelines did not change has the same triggers and wants
\* the same, unless a resource changed.
LEMMA SamePipelines ==
  ASSUME UNCHANGED res, NEW c \in Clusters,
         listPipelinesForCluster(c)' = listPipelinesForCluster(c),
         \A p \in listPipelinesForCluster(c) : pipe'[p] = pipe[p]
  PROVE  /\ Wanted(c)' = Wanted(c)
         /\ \A p \in listPipelinesForCluster(c) :
              /\ Resolvable(pipe[p])' <=> Resolvable(pipe[p])
              /\ pipelineData(pipe[p])' = pipelineData(pipe[p])
         /\ \A e : c \in Concerned(e)' <=> c \in Concerned(e)
  <1>1. ASSUME NEW p \in listPipelinesForCluster(c)
        PROVE  /\ Resolvable(pipe[p])' <=> Resolvable(pipe[p])
               /\ pipelineData(pipe[p])' = pipelineData(pipe[p])
               /\ MissingTunnel(c, pipe[p])' <=> MissingTunnel(c, pipe[p])
    <2>1. PICK spec : spec = pipe[p] /\ spec = pipe'[p]
      OBVIOUS
    <2>2. /\ Resolvable(spec)' <=> Resolvable(spec)
          /\ pipelineData(spec)' = pipelineData(spec)
          /\ MissingTunnel(c, spec)' <=> MissingTunnel(c, spec)
      BY SameResources
    <2> QED BY <2>1, <2>2
  <1>2. Wanted(c)' = Wanted(c)
    BY <1>1 DEF Wanted
  <1>3. ASSUME NEW e PROVE c \in Concerned(e)' <=> c \in Concerned(e)
    <2>1. \A n, labels : c \in findClustersReferencingResource(n, labels)' <=>
                           c \in findClustersReferencingResource(n, labels)
      BY DEF findClustersReferencingResource, pipelineReferencesResource
    <2>2. \A f : c \in findClustersForTargetProfile(f)' <=>
                   c \in findClustersForTargetProfile(f)
      BY <2>1 DEF findClustersForTargetProfile, Exists
    <2> QED BY <2>1, <2>2 DEF Concerned, findClusters
  <1> QED BY <1>1, <1>2, <1>3

\* The values that the two controllers write.
LEMMA StatusTyped ==
  /\ "" \in StatusValues /\ "Error" \in StatusValues
  /\ {"Ready", "Disabled", "NotFound"} \subseteq StatusValues
  /\ \A data : updatePipelineStatus(data) \in StatusValues
  <1>1. /\ "" \in StatusValues
        /\ "Error" \in StatusValues
        /\ "Ready" \in StatusValues
        /\ "Disabled" \in StatusValues /\ "NotFound" \in StatusValues
        /\ "Active" \in StatusValues /\ "Incomplete" \in StatusValues
    BY Zenon DEF StatusValues
  <1>2. \A data : updatePipelineStatus(data) \in {"Active", "Incomplete"}
    BY DEF updatePipelineStatus
  <1> QED BY <1>1, <1>2

\* No pipeline is resolved and nothing planned when there is no data yet.
LEMMA NothingYet ==
  /\ DOMAIN NoData = {}
  /\ Idle.busy = FALSE /\ Idle.cluster \in Clusters
  /\ Idle.todo = NoData /\ Idle.data = NoData
  /\ Idle = [busy |-> Idle.busy, cluster |-> Idle.cluster, todo |-> Idle.todo,
             data |-> Idle.data]
  BY ClustersAssumption DEF NoData, Idle

\* The operator starts with every cluster in the queue.
LEMMA PlanInit == Init => PlanInv
  <1> SUFFICES ASSUME Init PROVE PlanInv
    OBVIOUS
  <1>1. TypeOK
    <2>1. /\ \A n \in AllNames : res[n] \in Objects[n] \cup {Absent}
          /\ pipe \in [Pipelines -> PipelineSpecs \cup {Absent}]
      BY StartAssumption DEF Init
    <2>2. /\ worker.cluster \in Clusters /\ worker.busy \in BOOLEAN
          /\ DOMAIN worker.todo = {} /\ DOMAIN worker.data = {}
      BY NothingYet DEF Init
    <2>3. \A c \in Clusters : DOMAIN source[c] = {}
      BY NothingYet DEF Init
    <2>4. status \in [Pipelines -> StatusValues] /\ changes \in 0..MaxChanges
      <3>1. status \in [Pipelines -> StatusValues]
        BY StatusTyped, Zenon DEF Init
      <3>2. changes = 0
        BY DEF Init
      <3> QED BY <3>1, <3>2, ChangesAssumption
    <2>5. pending = {} /\ queue = Clusters
      BY DEF Init
    <2> QED BY <2>1, <2>2, <2>3, <2>4, <2>5 DEF TypeOK
  <1>2. ShapeInv
    BY NothingYet, StartAssumption DEF Init, ShapeInv
  <1>3. TriggerInv
    BY DEF Init, TriggerInv, Triggered
  <1>4. DataInv
    BY NothingYet DEF Init, DataInv
  <1>5. PlansAreClosed /\ PipelinesDelivered
    BY DEF Init, PlansAreClosed, PipelinesDelivered
  <1> QED BY <1>1, <1>2, <1>3, <1>4, <1>5 DEF PlanInv

\* A change of a resource.
LEMMA ResourcePreserves ==
  ASSUME PlanInv, NEW n \in AllNames, ChangeResource(n)
  PROVE  PlanInv'
  <1>0. TypeOK /\ ShapeInv /\ TriggerInv /\ DataInv
        /\ PlansAreClosed /\ PipelinesDelivered
    BY DEF PlanInv
  <1>1. UNCHANGED <<pipe, queue, worker, source, plan, status>>
    BY DEF ChangeResource
  <1>2. PICK new \in Objects[n] \cup {Absent} : res' = [res EXCEPT ![n] = new]
    BY DEF ChangeResource
  <1>3. TypeOK'
    <2>1. \A m \in AllNames : res'[m] \in Objects[m] \cup {Absent}
      BY <1>0, <1>2 DEF TypeOK, ShapeInv
    <2>2. changes' \in 0..MaxChanges
      BY <1>0, ChangesAssumption DEF TypeOK, ChangeResource
    <2>3. \A e \in pending' :
            IF "clusters" \in DOMAIN e THEN e.clusters \subseteq Clusters
                                      ELSE e.name \in AllNames
      BY <1>0 DEF TypeOK, ChangeResource
    <2> QED BY <1>0, <1>1, <2>1, <2>2, <2>3 DEF TypeOK
  <1>4. ShapeInv'
    BY <1>0, <1>1, <1>2 DEF ShapeInv
  <1>5. TriggerInv'
    <2> SUFFICES ASSUME NEW c \in Clusters, ~Triggered(c)'
                 PROVE  \/ /\ worker.busy /\ worker.cluster = c
                           /\ DOMAIN worker.todo \subseteq listPipelinesForCluster(c)'
                           /\ \A p \in DOMAIN worker.todo : worker.todo[p] = pipe'[p]
                           /\ UpToDate(worker.data, Wanted(c) \ DOMAIN worker.todo)'
                        \/ /\ ~(worker.busy /\ worker.cluster = c)
                           /\ UpToDate(source[c], Wanted(c))'
      BY <1>1 DEF TriggerInv
    <2>1. ~Triggered(c)
      BY <1>0, ResourceKeepsTriggers
    <2>2. listPipelinesForCluster(c)' = listPipelinesForCluster(c)
      BY <1>1 DEF listPipelinesForCluster
    <2>3. \A p \in listPipelinesForCluster(c) :
            /\ MissingTunnel(c, pipe[p])' <=> MissingTunnel(c, pipe[p])
            /\ Resolvable(pipe[p]) =>
                 /\ Resolvable(pipe[p])'
                 /\ Watched(pipelineData(pipe[p]))' = Watched(pipelineData(pipe[p]))
      BY <1>0, <1>3, ResourceKeepsViews
    <2>4. /\ Wanted(c)' = Wanted(c)
          /\ Wanted(c) \subseteq listPipelinesForCluster(c)
      BY <2>2, <2>3 DEF Wanted
    <2>5. \A datas, ps : ps \subseteq listPipelinesForCluster(c) /\ UpToDate(datas, ps)
                           => UpToDate(datas, ps)'
      BY <2>3 DEF UpToDate
    <2>6. UpToDate(worker.data, Wanted(c) \ DOMAIN worker.todo) =>
            UpToDate(worker.data, Wanted(c) \ DOMAIN worker.todo)'
      BY <1>1, <2>3, <2>4 DEF UpToDate
    <2>7. UpToDate(source[c], Wanted(c)) => UpToDate(source[c], Wanted(c))'
      BY <1>1, <2>3, <2>4 DEF UpToDate
    <2> QED BY <1>0, <1>1, <2>1, <2>2, <2>6, <2>7 DEF TriggerInv
  <1>6. DataInv' /\ PlansAreClosed' /\ PipelinesDelivered'
    BY <1>0, <1>1 DEF DataInv, PlansAreClosed, PipelinesDelivered
  <1> QED BY <1>3, <1>4, <1>5, <1>6 DEF PlanInv

\* A step that leaves resources, worker and plans alone and undoes no trigger
\* of a cluster whose pipelines it changes.
LEMMA TriggersKept ==
  ASSUME TriggerInv, UNCHANGED <<res, worker, source>>,
         \A c \in Clusters : ~Triggered(c)' =>
           /\ ~Triggered(c)
           /\ listPipelinesForCluster(c)' = listPipelinesForCluster(c)
           /\ \A p \in listPipelinesForCluster(c) : pipe'[p] = pipe[p]
  PROVE  TriggerInv'
  <1> SUFFICES ASSUME NEW c \in Clusters, ~Triggered(c)'
               PROVE  \/ /\ worker.busy /\ worker.cluster = c
                         /\ DOMAIN worker.todo \subseteq listPipelinesForCluster(c)'
                         /\ \A p \in DOMAIN worker.todo : worker.todo[p] = pipe'[p]
                         /\ UpToDate(worker.data, Wanted(c) \ DOMAIN worker.todo)'
                      \/ /\ ~(worker.busy /\ worker.cluster = c)
                         /\ UpToDate(source[c], Wanted(c))'
    BY DEF TriggerInv
  <1>1. /\ listPipelinesForCluster(c)' = listPipelinesForCluster(c)
        /\ \A p \in listPipelinesForCluster(c) : pipe'[p] = pipe[p]
    OBVIOUS
  <1>2. /\ Wanted(c)' = Wanted(c)
        /\ \A p \in listPipelinesForCluster(c) :
             /\ Resolvable(pipe[p])' <=> Resolvable(pipe[p])
             /\ pipelineData(pipe[p])' = pipelineData(pipe[p])
    BY <1>1, SamePipelines
  <1>3. Wanted(c) \subseteq listPipelinesForCluster(c)
    BY DEF Wanted
  <1>4. UpToDate(worker.data, Wanted(c) \ DOMAIN worker.todo) =>
          UpToDate(worker.data, Wanted(c) \ DOMAIN worker.todo)'
    BY <1>2, <1>3 DEF UpToDate, Watched
  <1>5. UpToDate(source[c], Wanted(c)) => UpToDate(source[c], Wanted(c))'
    BY <1>2, <1>3 DEF UpToDate, Watched
  <1> QED BY <1>1, <1>4, <1>5 DEF TriggerInv

\* A change of a pipeline triggers the cluster it had and the one it has.
LEMMA PipelinePreserves ==
  ASSUME PlanInv, NEW p \in Pipelines, ChangePipeline(p)
  PROVE  PlanInv'
  <1>0. TypeOK /\ ShapeInv /\ TriggerInv /\ DataInv
        /\ PlansAreClosed /\ PipelinesDelivered
    BY DEF PlanInv
  <1>1. UNCHANGED <<res, queue, worker, source, plan>>
    BY DEF ChangePipeline
  <1>2. PICK new \in PipelineSpecs \cup {Absent} :
          /\ pipe' = [pipe EXCEPT ![p] = new]
          /\ pending' = pending \cup
               {[clusters |-> {s.cluster : s \in {pipe[p], new} \ {Absent}}
                                \cap Clusters]}
          /\ status' = [status EXCEPT ![p] = IF new = Absent THEN "" ELSE @]
    BY DEF ChangePipeline
  <1>3. PICK e \in pending' :
          /\ "clusters" \in DOMAIN e
          /\ e.clusters = {s.cluster : s \in {pipe[p], new} \ {Absent}} \cap Clusters
          /\ pending' = pending \cup {e}
    BY <1>2
  <1>4. TypeOK'
    <2>1. changes' \in 0..MaxChanges
      <3>1. changes < MaxChanges /\ changes' = changes + 1
        BY DEF ChangePipeline
      <3> QED BY <1>0, <3>1, ChangesAssumption DEF TypeOK
    <2>2. \A d \in pending' :
            IF "clusters" \in DOMAIN d THEN d.clusters \subseteq Clusters
                                      ELSE d.name \in AllNames
      BY <1>0, <1>3 DEF TypeOK
    <2>3. status' \in [Pipelines -> StatusValues]
      <3>1. PICK value \in StatusValues : status' = [status EXCEPT ![p] = value]
        <4>1. status \in [Pipelines -> StatusValues]
          BY <1>0 DEF TypeOK
        <4>2. CASE new = Absent
          BY <1>2, <4>2, StatusTyped
        <4>3. CASE new # Absent
          BY <1>2, <4>1, <4>3
        <4> QED BY <4>2, <4>3
      <3> QED BY <1>0, <3>1 DEF TypeOK
    <2>4. pipe' \in [Pipelines -> PipelineSpecs \cup {Absent}]
      BY <1>0, <1>2 DEF TypeOK
    <2> QED BY <1>0, <1>1, <2>1, <2>2, <2>3, <2>4 DEF TypeOK
  <1>5. ShapeInv'
    BY <1>0, <1>1 DEF ShapeInv
  <1>6. TriggerInv'
    <2>1. ASSUME NEW c \in Clusters, ~Triggered(c)'
          PROVE  /\ ~Triggered(c)
                 /\ listPipelinesForCluster(c)' = listPipelinesForCluster(c)
                 /\ \A q \in listPipelinesForCluster(c) : pipe'[q] = pipe[q]
      <3>1. c \notin e.clusters
        BY <1>3, <2>1 DEF Triggered, Concerned
      <3>2. /\ pipe[p] # Absent => pipe[p].cluster # c
            /\ new # Absent => new.cluster # c
        BY <1>3, <3>1
      <3>3. p \notin listPipelinesForCluster(c)
        BY <3>2 DEF listPipelinesForCluster
      <3>4. /\ pipe'[p] = new
            /\ \A q \in Pipelines \ {p} : pipe'[q] = pipe[q]
        BY <1>0, <1>2 DEF TypeOK
      <3>5. listPipelinesForCluster(c)' = listPipelinesForCluster(c)
        BY <3>2, <3>4 DEF listPipelinesForCluster
      <3>6. \A q \in listPipelinesForCluster(c) : pipe'[q] = pipe[q]
        BY <3>3, <3>4 DEF listPipelinesForCluster
      <3>7. \A d : c \in Concerned(d)' <=> c \in Concerned(d)
        BY <1>1, <3>5, <3>6, SamePipelines
      <3>8. ~Triggered(c)
        BY <1>1, <1>3, <2>1, <3>7 DEF Triggered
      <3> QED BY <3>5, <3>6, <3>8
    <2> QED BY <1>0, <1>1, <2>1, TriggersKept
  <1>7. DataInv' /\ PlansAreClosed' /\ PipelinesDelivered'
    BY <1>0, <1>1 DEF DataInv, PlansAreClosed, PipelinesDelivered
  <1> QED BY <1>4, <1>5, <1>6, <1>7 DEF PlanInv

\* An event that is handled puts the clusters it concerns into the queue.
LEMMA HandlePreserves ==
  ASSUME PlanInv, NEW e \in pending, HandleEvent(e)
  PROVE  PlanInv'
  <1>0. TypeOK /\ ShapeInv /\ TriggerInv /\ DataInv
        /\ PlansAreClosed /\ PipelinesDelivered
    BY DEF PlanInv
  <1>1. UNCHANGED <<res, pipe, worker, source, plan, status, changes>>
    BY DEF HandleEvent
  <1>2. /\ pending' = pending \ {e}
        /\ queue' = queue \cup Concerned(e)
    BY DEF HandleEvent, Concerned
  <1>3. Concerned(e) \subseteq Clusters
    BY <1>0 DEF TypeOK, Concerned, findClusters, findClustersForTargetProfile,
       findClustersReferencingResource
  <1>4. TypeOK'
    BY <1>0, <1>1, <1>2, <1>3 DEF TypeOK
  <1>5. ShapeInv'
    BY <1>0, <1>1 DEF ShapeInv
  <1>6. TriggerInv'
    <2>1. ASSUME NEW c \in Clusters, ~Triggered(c)'
          PROVE  /\ ~Triggered(c)
                 /\ listPipelinesForCluster(c)' = listPipelinesForCluster(c)
                 /\ \A q \in listPipelinesForCluster(c) : pipe'[q] = pipe[q]
      <3>1. listPipelinesForCluster(c)' = listPipelinesForCluster(c)
        BY <1>1 DEF listPipelinesForCluster
      <3>2. \A d : c \in Concerned(d)' <=> c \in Concerned(d)
        BY <1>1, <3>1, SamePipelines
      <3>3. ~Triggered(c)
        BY <1>2, <2>1, <3>2 DEF Triggered
      <3> QED BY <1>1, <3>1, <3>3
    <2> QED BY <1>0, <1>1, <2>1, TriggersKept
  <1>7. DataInv' /\ PlansAreClosed' /\ PipelinesDelivered'
    BY <1>0, <1>1 DEF DataInv, PlansAreClosed, PipelinesDelivered
  <1> QED BY <1>4, <1>5, <1>6, <1>7 DEF PlanInv

\* While neither resources nor pipelines change, all views stay the same.
LEMMA SameWorld ==
  ASSUME UNCHANGED <<res, pipe>>, NEW c \in Clusters
  PROVE  /\ listPipelinesForCluster(c)' = listPipelinesForCluster(c)
         /\ Wanted(c)' = Wanted(c) /\ Wanted(c) \subseteq listPipelinesForCluster(c)
         /\ \A e : c \in Concerned(e)' <=> c \in Concerned(e)
         /\ \A datas, ps : ps \subseteq listPipelinesForCluster(c) =>
              (UpToDate(datas, ps)' <=> UpToDate(datas, ps))
  <1>1. listPipelinesForCluster(c)' = listPipelinesForCluster(c)
    BY DEF listPipelinesForCluster
  <1>2. /\ Wanted(c)' = Wanted(c)
        /\ \A p \in listPipelinesForCluster(c) :
             /\ Resolvable(pipe[p])' <=> Resolvable(pipe[p])
             /\ pipelineData(pipe[p])' = pipelineData(pipe[p])
        /\ \A e : c \in Concerned(e)' <=> c \in Concerned(e)
    BY <1>1, SamePipelines
  <1>3. Wanted(c) \subseteq listPipelinesForCluster(c)
    BY DEF Wanted
  <1>4. ASSUME NEW datas, NEW ps \in SUBSET listPipelinesForCluster(c)
        PROVE  UpToDate(datas, ps)' <=> UpToDate(datas, ps)
    BY <1>2 DEF UpToDate, Watched
  <1> QED BY <1>1, <1>2, <1>3, <1>4

\* The worker's steps: resources, pipelines and events stay, no cluster but
\* the worker's own is touched, and that one has a trigger or is up to date.
LEMMA WorkerTriggers ==
  ASSUME TriggerInv, UNCHANGED <<res, pipe, pending>>, NEW c0 \in Clusters,
         \A c \in Clusters \ {c0} :
           /\ c \in queue' <=> c \in queue
           /\ source'[c] = source[c]
           /\ ~(worker.busy /\ worker.cluster = c)
           /\ ~(worker'.busy /\ worker'.cluster = c),
         \/ c0 \in queue'
         \/ /\ worker'.busy /\ worker'.cluster = c0
            /\ DOMAIN worker'.todo \subseteq listPipelinesForCluster(c0)
            /\ \A p \in DOMAIN worker'.todo : worker'.todo[p] = pipe[p]
            /\ UpToDate(worker'.data, Wanted(c0) \ DOMAIN worker'.todo)
         \/ /\ ~worker'.busy
            /\ UpToDate(source'[c0], Wanted(c0))
         \/ Triggered(c0) /\ (c0 \in queue' <=> c0 \in queue)
  PROVE  TriggerInv'
  <1> SUFFICES ASSUME NEW c \in Clusters, ~Triggered(c)'
               PROVE  \/ /\ worker'.busy /\ worker'.cluster = c
                         /\ DOMAIN worker'.todo \subseteq listPipelinesForCluster(c)'
                         /\ \A p \in DOMAIN worker'.todo : worker'.todo[p] = pipe'[p]
                         /\ UpToDate(worker.data, Wanted(c) \ DOMAIN worker.todo)'
                      \/ /\ ~(worker'.busy /\ worker'.cluster = c)
                         /\ UpToDate(source[c], Wanted(c))'
    BY DEF TriggerInv
  <1>1. /\ listPipelinesForCluster(c)' = listPipelinesForCluster(c)
        /\ Wanted(c)' = Wanted(c) /\ Wanted(c) \subseteq listPipelinesForCluster(c)
        /\ \A e : c \in Concerned(e)' <=> c \in Concerned(e)
        /\ \A datas, ps : ps \subseteq listPipelinesForCluster(c) =>
              (UpToDate(datas, ps)' <=> UpToDate(datas, ps))
    BY SameWorld
  <1>2. ~Triggered(c) \/ (c = c0 /\ ~(c0 \in queue' <=> c0 \in queue))
    BY <1>1 DEF Triggered
  <1>3. PICK data, todo : data = worker'.data /\ todo = DOMAIN worker'.todo
    OBVIOUS
  <1>4. UpToDate(data, Wanted(c) \ todo) =>
          UpToDate(worker.data, Wanted(c) \ DOMAIN worker.todo)'
    <2>1. PICK ps : ps = Wanted(c) \ todo
      OBVIOUS
    <2>2. UpToDate(data, ps)' <=> UpToDate(data, ps)
      BY <1>1, <2>1
    <2>3. ps = (Wanted(c) \ DOMAIN worker.todo)'
      BY <1>1, <1>3, <2>1
    <2> QED BY <1>3, <2>1, <2>2, <2>3
  <1>5. ASSUME NEW src, src = source'[c], UpToDate(src, Wanted(c))
        PROVE  UpToDate(source[c], Wanted(c))'
    <2>1. PICK ps : ps = Wanted(c)
      OBVIOUS
    <2>2. UpToDate(src, ps)'
      BY <1>1, <1>5, <2>1
    <2> QED BY <1>1, <1>5, <2>1, <2>2
  <1>6. CASE c = c0
    BY <1>1, <1>2, <1>3, <1>4, <1>5, <1>6 DEF Triggered
  <1>7. CASE c # c0
    BY <1>1, <1>2, <1>5, <1>7 DEF TriggerInv
  <1> QED BY <1>6, <1>7

\* A reconcile starts with the pipelines as they are.
LEMMA StartPreserves ==
  ASSUME PlanInv, NEW c0 \in Clusters, StartReconcile(c0)
  PROVE  PlanInv'
  <1>0. TypeOK /\ ShapeInv /\ TriggerInv /\ DataInv
        /\ PlansAreClosed /\ PipelinesDelivered
    BY DEF PlanInv
  <1>1. UNCHANGED <<res, pipe, pending, source, plan, status, changes>>
    BY DEF StartReconcile
  <1>2. /\ ~worker.busy /\ c0 \in queue /\ queue' = queue \ {c0}
        /\ worker' = [busy |-> TRUE, cluster |-> c0, data |-> NoData,
                      todo |-> [p \in listPipelinesForCluster(c0) |-> pipe[p]]]
    BY DEF StartReconcile
  <1>3. /\ worker'.busy = TRUE
        /\ worker'.cluster = c0
        /\ DOMAIN worker'.data = {}
        /\ DOMAIN worker'.todo = listPipelinesForCluster(c0)
        /\ \A p \in listPipelinesForCluster(c0) : worker'.todo[p] = pipe[p]
        /\ worker' = [busy |-> worker'.busy, cluster |-> worker'.cluster,
                      todo |-> worker'.todo, data |-> worker'.data]
    BY <1>2, NothingYet
  <1>4. listPipelinesForCluster(c0) \subseteq Pipelines
        /\ \A p \in listPipelinesForCluster(c0) : pipe[p] \in PipelineSpecs
    BY <1>0 DEF listPipelinesForCluster, TypeOK
  <1>5. TypeOK'
    BY <1>0, <1>1, <1>2, <1>3, <1>4 DEF TypeOK
  <1>6. ShapeInv'
    BY <1>0, <1>1, <1>3, <1>4 DEF ShapeInv
  <1>7. TriggerInv'
    <2>1. UpToDate(worker'.data, Wanted(c0) \ DOMAIN worker'.todo)
      BY <1>3 DEF UpToDate, Wanted
    <2> QED BY <1>0, <1>1, <1>2, <1>3, <2>1, WorkerTriggers
  <1>8. DataInv' /\ PlansAreClosed' /\ PipelinesDelivered'
    BY <1>0, <1>1, <1>3 DEF DataInv, PlansAreClosed, PipelinesDelivered
  <1> QED BY <1>5, <1>6, <1>7, <1>8 DEF PlanInv

\* One pipeline is resolved, with the resources as they are.
LEMMA ResolvePreserves ==
  ASSUME PlanInv, NEW p \in Pipelines, ResolvePipeline(p)
  PROVE  PlanInv'
  <1> DEFINE c0 == worker.cluster
             spec == worker.todo[p]
             rest == [q \in DOMAIN worker.todo \ {p} |-> worker.todo[q]]
             data == pipelineData(spec)
             more == [q \in DOMAIN worker.data \cup {p} |->
                        IF q = p THEN data ELSE worker.data[q]]
  <1>0. TypeOK /\ ShapeInv /\ TriggerInv /\ DataInv
        /\ PlansAreClosed /\ PipelinesDelivered
    BY DEF PlanInv
  <1>1. UNCHANGED <<res, pipe, pending, source, plan>>
    BY DEF ResolvePipeline
  <1>2. worker.busy /\ p \in DOMAIN worker.todo /\ c0 \in Clusters
    BY <1>0 DEF ResolvePipeline, TypeOK
  <1>3. PICK c \in Clusters : c = c0
    BY <1>2
  <1>4. ASSUME NEW value \in StatusValues, WriteStatus(p, value)
        PROVE  status' \in [Pipelines -> StatusValues] /\ changes' \in 0..MaxChanges
    <2>1. status' \in [Pipelines -> StatusValues]
      BY <1>0, <1>4 DEF TypeOK, WriteStatus
    <2>2. \/ changes' = changes
          \/ changes < MaxChanges /\ changes' = changes + 1
      BY <1>4 DEF WriteStatus
    <2>3. changes' \in 0..MaxChanges
      BY <1>0, <2>2, ChangesAssumption DEF TypeOK
    <2> QED BY <2>1, <2>3
  <1>5. /\ DOMAIN worker.todo \subseteq Pipelines
        /\ DOMAIN worker.data \subseteq Pipelines \ DOMAIN worker.todo
        /\ worker = [busy |-> worker.busy, cluster |-> worker.cluster,
                     todo |-> worker.todo, data |-> worker.data]
        /\ \A q \in DOMAIN worker.todo : worker.todo[q] \in PipelineSpecs
    BY <1>0 DEF TypeOK, ShapeInv
  <1>6. /\ DOMAIN rest = DOMAIN worker.todo \ {p}
        /\ \A q \in DOMAIN rest : rest[q] = worker.todo[q]
        /\ DOMAIN more = DOMAIN worker.data \cup {p}
        /\ more[p] = data /\ \A q \in DOMAIN worker.data : more[q] = worker.data[q]
    BY <1>2, <1>5
  <1>7. PlansAreClosed' /\ PipelinesDelivered'
    BY <1>0, <1>1 DEF PlansAreClosed, PipelinesDelivered
  <1>8. \/ Triggered(c)
        \/ /\ DOMAIN worker.todo \subseteq listPipelinesForCluster(c)
           /\ \A q \in DOMAIN worker.todo : worker.todo[q] = pipe[q]
           /\ UpToDate(worker.data, Wanted(c) \ DOMAIN worker.todo)
    BY <1>0, <1>2, <1>3 DEF TriggerInv
  <1> HIDE DEF rest, more
  <1>9. CASE ~Resolvable(spec)
    <2>1. worker' = Idle /\ queue' = queue \cup {c0} /\ UNCHANGED <<status, changes>>
      BY <1>9 DEF ResolvePipeline
    <2>2. TypeOK' /\ ShapeInv'
      <3>1. worker'.busy = FALSE /\ worker'.cluster \in Clusters
            /\ DOMAIN worker'.todo = {} /\ DOMAIN worker'.data = {}
            /\ worker' = [busy |-> worker'.busy, cluster |-> worker'.cluster,
                          todo |-> worker'.todo, data |-> worker'.data]
        BY <2>1, NothingYet
      <3>2. TypeOK'
        BY <1>0, <1>1, <1>2, <2>1, <3>1 DEF TypeOK
      <3>3. ShapeInv'
        BY <1>0, <1>1, <3>1 DEF ShapeInv
      <3> QED BY <3>2, <3>3
    <2>3. DataInv'
      BY <2>1, NothingYet DEF DataInv
    <2>4. TriggerInv'
      <3>1. ~worker'.busy /\ c \in queue'
        BY <1>3, <2>1, NothingYet
      <3> QED BY <1>0, <1>1, <1>3, <2>1, <3>1, WorkerTriggers
    <2> QED BY <1>7, <2>2, <2>3, <2>4 DEF PlanInv
  <1>10. CASE Resolvable(spec) /\ MissingTunnel(c0, spec)
    <2>1. /\ worker' = [worker EXCEPT !.todo = rest]
          /\ WriteStatus(p, "Error") /\ UNCHANGED queue
      BY <1>10 DEF ResolvePipeline, rest
    <2>2. /\ worker'.busy = worker.busy /\ worker'.cluster = c0
          /\ worker'.todo = rest /\ worker'.data = worker.data
          /\ worker' = [busy |-> worker'.busy, cluster |-> worker'.cluster,
                        todo |-> worker'.todo, data |-> worker'.data]
      BY <1>5, <2>1
    <2>3. TypeOK'
      <3>1. status' \in [Pipelines -> StatusValues] /\ changes' \in 0..MaxChanges
        BY <1>4, <2>1, StatusTyped
      <3> QED BY <1>0, <1>1, <1>5, <1>6, <2>1, <2>2, <3>1 DEF TypeOK
    <2>4. ShapeInv'
      BY <1>0, <1>1, <1>5, <1>6, <2>2 DEF ShapeInv
    <2>5. DataInv'
      BY <1>0, <2>2 DEF DataInv
    <2>6. TriggerInv'
      <3>1. ASSUME ~Triggered(c)
            PROVE  /\ DOMAIN worker'.todo \subseteq listPipelinesForCluster(c)
                   /\ \A q \in DOMAIN worker'.todo : worker'.todo[q] = pipe[q]
                   /\ UpToDate(worker'.data, Wanted(c) \ DOMAIN worker'.todo)
        <4>1. spec = pipe[p] /\ p \notin Wanted(c)
          BY <1>2, <1>3, <1>8, <1>10, <3>1 DEF Wanted
        <4>2. Wanted(c) \ DOMAIN worker'.todo = Wanted(c) \ DOMAIN worker.todo
          BY <1>6, <2>2, <4>1
        <4> QED BY <1>6, <1>8, <2>2, <3>1, <4>2
      <3>2. worker'.busy /\ worker'.cluster = c
        BY <1>2, <1>3, <2>2
      <3> QED BY <1>0, <1>1, <1>3, <2>1, <3>1, <3>2, WorkerTriggers
    <2> QED BY <1>7, <2>3, <2>4, <2>5, <2>6 DEF PlanInv
  <1>11. CASE Resolvable(spec) /\ ~MissingTunnel(c0, spec)
    <2>1. /\ worker' = [worker EXCEPT !.todo = rest, !.data = more]
          /\ WriteStatus(p, updatePipelineStatus(data)) /\ UNCHANGED queue
      BY <1>11 DEF ResolvePipeline, rest, more
    <2>2. /\ worker'.busy = worker.busy /\ worker'.cluster = c0
          /\ worker'.todo = rest /\ worker'.data = more
          /\ worker' = [busy |-> worker'.busy, cluster |-> worker'.cluster,
                        todo |-> worker'.todo, data |-> worker'.data]
      BY <1>5, <2>1
    <2>3. TypeOK'
      <3>1. status' \in [Pipelines -> StatusValues] /\ changes' \in 0..MaxChanges
        BY <1>4, <2>1, StatusTyped
      <3> QED BY <1>0, <1>1, <1>2, <1>5, <1>6, <2>1, <2>2, <3>1 DEF TypeOK
    <2>4. ShapeInv'
      BY <1>0, <1>1, <1>5, <1>6, <2>2 DEF ShapeInv
    <2>5. DataInv'
      <3>1. HasProfiles(data)
        BY <1>0, <1>11, WatchedIsView
      <3> HIDE DEF data
      <3> QED BY <1>0, <1>6, <2>2, <3>1 DEF DataInv, HasProfiles
    <2>6. TriggerInv'
      <3>1. ASSUME ~Triggered(c)
            PROVE  /\ DOMAIN worker'.todo \subseteq listPipelinesForCluster(c)
                   /\ \A q \in DOMAIN worker'.todo : worker'.todo[q] = pipe[q]
                   /\ UpToDate(worker'.data, Wanted(c) \ DOMAIN worker'.todo)
        <4>1. spec = pipe[p] /\ p \in Wanted(c) /\ data = pipelineData(pipe[p])
          BY <1>2, <1>3, <1>8, <1>11, <3>1 DEF Wanted
        <4>2. Wanted(c) \ DOMAIN rest = (Wanted(c) \ DOMAIN worker.todo) \cup {p}
          BY <1>2, <1>6, <4>1
        <4>3. Resolvable(pipe[p])
          BY <1>11, <4>1
        <4> HIDE DEF data
        <4>4. UpToDate(more, Wanted(c) \ DOMAIN rest)
          <5>1. /\ DOMAIN worker.data = Wanted(c) \ DOMAIN worker.todo
                /\ \A q \in Wanted(c) \ DOMAIN worker.todo :
                     /\ Resolvable(pipe[q])
                     /\ Watched(worker.data[q]) = Watched(pipelineData(pipe[q]))
            BY <1>8, <3>1 DEF UpToDate
          <5>2. DOMAIN more = Wanted(c) \ DOMAIN rest
            BY <1>6, <4>2, <5>1
          <5>3. \A q \in Wanted(c) \ DOMAIN rest :
                  /\ Resolvable(pipe[q])
                  /\ Watched(more[q]) = Watched(pipelineData(pipe[q]))
            BY <1>6, <4>1, <4>2, <4>3, <5>1
          <5> QED BY <5>2, <5>3 DEF UpToDate
        <4> QED BY <1>6, <1>8, <2>2, <3>1, <4>4
      <3>2. worker'.busy /\ worker'.cluster = c
        BY <1>2, <1>3, <2>2
      <3> QED BY <1>0, <1>1, <1>3, <2>1, <3>1, <3>2, WorkerTriggers
    <2> QED BY <1>7, <2>3, <2>4, <2>5, <2>6 DEF PlanInv
  <1> QED BY <1>9, <1>10, <1>11

\* The plan is built from the data of the pipelines, or the cluster is
\* queued again.
LEMMA BuildPreserves ==
  ASSUME PlanInv, BuildPlan \/ BuildFails
  PROVE  PlanInv'
  <1>0. TypeOK /\ ShapeInv /\ TriggerInv /\ DataInv
        /\ PlansAreClosed /\ PipelinesDelivered
    BY DEF PlanInv
  <1>1. /\ UNCHANGED <<res, pipe, pending, status, changes>> /\ worker' = Idle
        /\ worker.busy /\ worker.todo = NoData
    BY DEF BuildPlan, BuildFails
  <1>2. PICK c \in Clusters : c = worker.cluster
    BY <1>0 DEF TypeOK
  <1>3. /\ worker'.busy = FALSE /\ worker'.cluster \in Clusters
        /\ DOMAIN worker'.todo = {} /\ DOMAIN worker'.data = {}
        /\ worker' = [busy |-> worker'.busy, cluster |-> worker'.cluster,
                      todo |-> worker'.todo, data |-> worker'.data]
    BY <1>1, NothingYet
  <1>4. DataInv'
    BY <1>3 DEF DataInv
  <1>5. CASE BuildFails
    <2>1. UNCHANGED <<source, plan>> /\ queue' = queue \cup {c}
      BY <1>2, <1>5 DEF BuildFails
    <2>2. TypeOK'
      BY <1>0, <1>1, <1>3, <2>1 DEF TypeOK
    <2>3. ShapeInv'
      BY <1>0, <1>1, <1>3, <2>1 DEF ShapeInv
    <2>4. TriggerInv'
      BY <1>0, <1>1, <1>2, <1>3, <2>1, WorkerTriggers
    <2>5. PlansAreClosed' /\ PipelinesDelivered'
      BY <1>0, <2>1 DEF PlansAreClosed, PipelinesDelivered
    <2> QED BY <1>4, <2>2, <2>3, <2>4, <2>5 DEF PlanInv
  <1>6. CASE BuildPlan
    <2>1. PICK order \in SetToSeqs(DOMAIN worker.data),
               outputLists \in ProcessorLists(worker.data, "outputProcessors"),
               inputLists \in ProcessorLists(worker.data, "inputProcessors") :
            LET built == Build(worker.data, order, outputLists, inputLists)
            IN  /\ built # NoPlan
                /\ source' = [source EXCEPT ![worker.cluster] = worker.data]
                /\ plan' = [plan EXCEPT ![worker.cluster] = built]
      BY <1>6 DEF BuildPlan
    <2> DEFINE built == Build(worker.data, order, outputLists, inputLists)
    <2>2. Closed(built) /\ built # NoPlan
      BY <2>1, BuildIsClosed
    <2>3. Delivered(built, worker.data)
      BY <1>0, <2>1, BuildDelivers DEF DataInv
    <2> HIDE DEF built
    <2>4. /\ DOMAIN source' = Clusters /\ DOMAIN plan' = Clusters
          /\ source'[c] = worker.data /\ plan'[c] = built
          /\ \A d \in Clusters \ {c} : source'[d] = source[d] /\ plan'[d] = plan[d]
      BY <1>0, <1>2, <2>1 DEF ShapeInv, built
    <2>5. UNCHANGED queue
      BY <1>6 DEF BuildPlan
    <2>6. TypeOK'
      BY <1>0, <1>1, <1>2, <1>3, <2>4, <2>5 DEF TypeOK
    <2>7. ShapeInv'
      BY <1>0, <1>1, <1>3, <2>4 DEF ShapeInv
    <2>8. TriggerInv'
      <3>1. Triggered(c) \/ UpToDate(worker.data, Wanted(c) \ DOMAIN worker.todo)
        BY <1>0, <1>1, <1>2 DEF TriggerInv
      <3>2. Wanted(c) \ DOMAIN worker.todo = Wanted(c)
        BY <1>1, NothingYet
      <3>3. Triggered(c) \/ UpToDate(source'[c], Wanted(c))
        BY <2>4, <3>1, <3>2
      <3> QED BY <1>0, <1>1, <1>2, <1>3, <2>4, <2>5, <3>3, WorkerTriggers
    <2>9. PlansAreClosed'
      BY <1>0, <2>2, <2>4 DEF PlansAreClosed
    <2>10. PipelinesDelivered'
      BY <1>0, <2>3, <2>4 DEF PipelinesDelivered
    <2> QED BY <1>4, <2>6, <2>7, <2>8, <2>9, <2>10 DEF PlanInv
  <1> QED BY <1>5, <1>6

\* The pipeline controller and a stuttering step touch nothing of it.
LEMMA StatusPreserves ==
  ASSUME PlanInv,
         \/ UNCHANGED vars
         \/ \E p \in Pipelines : PipelineReconcile(p)
  PROVE  PlanInv'
  <1>0. TypeOK /\ ShapeInv /\ TriggerInv /\ DataInv
        /\ PlansAreClosed /\ PipelinesDelivered
    BY DEF PlanInv
  <1>1. UNCHANGED <<res, pipe, pending, queue, worker, source, plan, changes>>
    BY DEF vars, PipelineReconcile
  <1>2. status' \in [Pipelines -> StatusValues]
    <2>1. CASE UNCHANGED vars
      BY <1>0, <2>1 DEF vars, TypeOK
    <2>2. ASSUME NEW p \in Pipelines, PipelineReconcile(p)
          PROVE  status' \in [Pipelines -> StatusValues]
      <3>1. PICK wanted \in {"Ready", "Disabled", "NotFound"} :
              status' = [status EXCEPT ![p] = wanted]
        BY <2>2 DEF PipelineReconcile
      <3> QED BY <1>0, <3>1, StatusTyped DEF TypeOK
    <2> QED BY <2>1, <2>2
  <1>3. TypeOK'
    BY <1>0, <1>1, <1>2 DEF TypeOK
  <1>4. ShapeInv'
    BY <1>0, <1>1 DEF ShapeInv
  <1>5. TriggerInv'
    <2>1. ASSUME NEW c \in Clusters, ~Triggered(c)'
          PROVE  /\ ~Triggered(c)
                 /\ listPipelinesForCluster(c)' = listPipelinesForCluster(c)
      BY <1>1, <2>1, SameWorld DEF Triggered
    <2> QED BY <1>0, <1>1, <2>1, TriggersKept
  <1>6. DataInv' /\ PlansAreClosed' /\ PipelinesDelivered'
    BY <1>0, <1>1 DEF DataInv, PlansAreClosed, PipelinesDelivered
  <1> QED BY <1>3, <1>4, <1>5, <1>6 DEF PlanInv

\* PlanInv is inductive.
LEMMA PlanNext == PlanInv /\ [Next]_vars => PlanInv'
  BY ResourcePreserves, PipelinePreserves, HandlePreserves, StartPreserves,
     ResolvePreserves, BuildPreserves, StatusPreserves DEF Next

\* The invariant holds in every reachable state.
THEOREM PlanCorrect == Spec => []PlanInv
  BY PlanInit, PlanNext, PTL DEF Spec

\* Every reachable state is well typed.
THEOREM PlanTypeCorrect == Spec => []TypeOK
  <1>1. PlanInv => TypeOK
    BY DEF PlanInv
  <1> QED BY <1>1, PlanCorrect, PTL

\* No trigger is lost: the plan of a cluster that neither an event nor a
\* reconcile is about to refresh was built from what its pipelines select.
THEOREM NoTriggerLost == Spec => []SettledIsCurrent
  <1>1. PlanInv => SettledIsCurrent
    <2> SUFFICES ASSUME PlanInv, NEW c \in Clusters, Settled(c)
                 PROVE  [p \in DOMAIN source[c] |-> Watched(source[c][p])]
                          = CurrentData(c)
      BY DEF SettledIsCurrent
    <2>1. ~Triggered(c) /\ ~(worker.busy /\ worker.cluster = c)
      BY DEF Settled, Triggered
    <2>2. UpToDate(source[c], Wanted(c))
      BY <2>1 DEF PlanInv, TriggerInv
    <2> QED BY <2>2 DEF UpToDate, CurrentData, Wanted
  <1> QED BY <1>1, PlanCorrect, PTL

\* A plan never names what it does not contain.
THEOREM ClosedPlans == Spec => []PlansAreClosed
  <1>1. PlanInv => PlansAreClosed
    BY DEF PlanInv
  <1> QED BY <1>1, PlanCorrect, PTL

\* A plan routes what each of its pipelines asked for: its subscriptions run
\* on its targets and reach its outputs through its processors, as sets.
THEOREM PlansDeliver == Spec => []PipelinesDelivered
  <1>1. PlanInv => PipelinesDelivered
    BY DEF PlanInv
  <1> QED BY <1>1, PlanCorrect, PTL

\* A plan that was built has the Prometheus outputs of every pipeline on
\* distinct ports.
LEMMA BuiltPorts ==
  ASSUME NEW datas, DOMAIN datas \subseteq Pipelines,
         NEW order, NEW outputLists, NEW inputLists,
         Build(datas, order, outputLists, inputLists) # NoPlan,
         NEW p \in Pipelines
  PROVE  DistinctPorts(Build(datas, order, outputLists, inputLists), p)
  <1> DEFINE built == Build(datas, order, outputLists, inputLists)
             outs == assignPrometheusOutputPorts(datas, buildOutputs(datas, outputLists))
             mine == {o \in DOMAIN built.outputs : o[1] = p /\ o[2] \in PrometheusNames}
             ports == pipelinePortMap(datas, p)
  <1>1. /\ \A q \in DOMAIN datas : pipelinePortMap(datas, q) # NoPlan
        /\ built.outputs = outs
    BY DEF Build
  <1>2. DOMAIN outs = Instances(datas, "outputs")
    BY DEF assignPrometheusOutputPorts, buildOutputs
  <1>3. ASSUME NEW o \in Instances(datas, "outputs"), o[2] \in PrometheusNames
        PROVE  outs[o].listen = pipelinePortMap(datas, o[1])[o]
    BY <1>3 DEF assignPrometheusOutputPorts, buildOutputs, buildOutputConfig
  <1> HIDE DEF built, outs
  <1>4. ASSUME NEW o \in mine
        PROVE  /\ p \in DOMAIN datas
               /\ o \in {p} \X (DOMAIN datas[p].outputs \cap PrometheusNames)
    <2>1. /\ o \in Instances(datas, "outputs")
          /\ o[1] = p
          /\ o[2] \in PrometheusNames
      BY <1>1, <1>2, <1>4
    <2>2. PICK q \in DOMAIN datas : o \in {q} \X DOMAIN datas[q]["outputs"]
      BY <2>1 DEF Instances
    <2> QED BY <2>1, <2>2
  <1>5. ASSUME NEW o \in mine PROVE built.outputs[o].listen = ports[o]
    BY <1>1, <1>2, <1>3
  <1>6. CASE mine = {}
    BY <1>6 DEF DistinctPorts, IsInjective, built
  <1>7. CASE mine # {}
    <2>1. p \in DOMAIN datas
      BY <1>4, <1>7
    <2>2. PortMap(ports, {p} \X (DOMAIN datas[p].outputs \cap PrometheusNames))
      BY <1>1, <2>1, HashAssumption, PipelinePorts
    <2> HIDE DEF ports
    <2>3. \A o \in mine : ports[o] \in Pool
      BY <1>4, <2>2 DEF PortMap
    <2>4. \A o, q \in mine : ports[o] = ports[q] => o = q
      BY <1>4, <2>2 DEF PortMap, IsInjective
    <2>5. IsInjective([o \in mine |-> built.outputs[o].listen])
      BY <1>5, <2>4 DEF IsInjective
    <2>6. \A o \in mine : built.outputs[o].listen \in Pool
      BY <1>5, <2>3
    <2> QED BY <2>5, <2>6 DEF DistinctPorts, built
  <1> QED BY <1>6, <1>7

\* Only a build changes a plan.
LEMMA PlanKept ==
  ASSUME [Next]_vars, ~BuildPlan
  PROVE  UNCHANGED plan
  <1>1. ASSUME NEW n \in AllNames, ChangeResource(n) PROVE UNCHANGED plan
    BY <1>1 DEF ChangeResource
  <1>2. ASSUME NEW p \in Pipelines, ChangePipeline(p) PROVE UNCHANGED plan
    BY <1>2 DEF ChangePipeline
  <1>3. ASSUME NEW p \in Pipelines, ResolvePipeline(p) PROVE UNCHANGED plan
    BY <1>3 DEF ResolvePipeline
  <1>4. ASSUME NEW p \in Pipelines, PipelineReconcile(p) PROVE UNCHANGED plan
    BY <1>4 DEF PipelineReconcile
  <1>5. ASSUME NEW e \in pending, HandleEvent(e) PROVE UNCHANGED plan
    BY <1>5 DEF HandleEvent
  <1>6. ASSUME NEW c \in Clusters, StartReconcile(c) PROVE UNCHANGED plan
    BY <1>6 DEF StartReconcile
  <1>7. BuildFails => UNCHANGED plan
    BY DEF BuildFails
  <1>8. UNCHANGED vars => UNCHANGED plan
    BY DEF vars
  <1> QED BY <1>1, <1>2, <1>3, <1>4, <1>5, <1>6, <1>7, <1>8 DEF Next

\* PortsComplete: every name finds a port as long as there is one, and no
\* two Prometheus outputs of a pipeline listen on the same (assignPorts,
\* assignPrometheusOutputPorts).
THEOREM PortsAreComplete == Spec => []PortsComplete
  <1>1. Init => PortsComplete
    <2>1. Init => plan = [c \in Clusters |-> NoPlan]
      BY DEF Init
    <2> QED BY <2>1, ProbingIsComplete DEF PortsComplete
  <1>2. PlanInv /\ PortsComplete /\ [Next]_vars => PortsComplete'
    <2> SUFFICES ASSUME PlanInv, PortsComplete, [Next]_vars PROVE PortsComplete'
      OBVIOUS
    <2>1. CASE BuildPlan
      <3>1. PICK order \in SetToSeqs(DOMAIN worker.data),
                 outputLists \in ProcessorLists(worker.data, "outputProcessors"),
                 inputLists \in ProcessorLists(worker.data, "inputProcessors") :
              LET built == Build(worker.data, order, outputLists, inputLists)
              IN  /\ built # NoPlan
                  /\ plan' = [plan EXCEPT ![worker.cluster] = built]
        BY <2>1 DEF BuildPlan
      <3> DEFINE built == Build(worker.data, order, outputLists, inputLists)
      <3>2. DOMAIN worker.data \subseteq Pipelines /\ DOMAIN plan = Clusters
        BY DEF PlanInv, TypeOK, ShapeInv
      <3>3. \A p \in Pipelines : DistinctPorts(built, p)
        BY <3>1, <3>2, BuiltPorts
      <3> HIDE DEF built
      <3>4. plan' = [plan EXCEPT ![worker.cluster] = built]
        BY <3>1 DEF built
      <3> QED BY <3>2, <3>3, <3>4 DEF PortsComplete
    <2>2. CASE ~BuildPlan
      <3>1. UNCHANGED plan
        BY <2>2, PlanKept
      <3> QED BY <3>1 DEF PortsComplete
    <2> QED BY <2>1, <2>2
  <1> QED BY <1>1, <1>2, PlanCorrect, PTL DEF Spec
=============================================================================
