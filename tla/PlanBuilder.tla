----------------------------- MODULE PlanBuilder ----------------------------
(***************************************************************************)
(* The plan builder: the resolved resources of the pipelines of a cluster  *)
(* become one configuration for the collectors.                            *)
(*                                                                         *)
(* datas maps every pipeline that was added to its PipelineData: for each  *)
(* kind of resource a function from the names found to their objects.      *)
(* Targets, subscriptions, policies and profiles keep their name in the    *)
(* plan and are shared by the pipelines; outputs, inputs and processors    *)
(* are instantiated per pipeline, as pairs <<pipeline, name>>.             *)
(*                                                                         *)
(* Go iterates over maps in any order: order is the order in which Build   *)
(* meets the pipelines, lists is the order in which collectRelationships   *)
(* meets the processors of each. Of an object only what decides is kept:   *)
(* its spec (rev stands for the rest of it), a target's or policy's        *)
(* profile, whether an output is a Prometheus output.                      *)
(***************************************************************************)
EXTENDS Integers, Sequences, FiniteSets, FiniteSetsExt, SequencesExt

CONSTANTS
  PortBase,        \* PrometheusDefaultPort
  PortPool,        \* PrmetheusPortPoolSize
  PrometheusNames, \* outputs of type prometheus
  NoPlan,          \* Build returns an error, or no plan was built yet
  StartHash(_),    \* hash32(name)
  StepHash(_)      \* hash32("step:" + name)

ASSUME PoolAssumption == PortBase \in Nat /\ PortPool \in Nat \ {0, 1}

\* "lucky prime!": no product of numbers below the size is a multiple of it.
ASSUME PrimeAssumption ==
  \A a, b \in 1..(PortPool - 1) : (a * b) % PortPool # 0

(***************************************************************************)
(* collectRelationships.                                                   *)
(***************************************************************************)
\* The pipelines of datas that resolved the resource n of the given kind.
With(datas, kind, n) == {p \in DOMAIN datas : n \in DOMAIN datas[p][kind]}
Resolved(datas, kind) == UNION {DOMAIN datas[p][kind] : p \in DOMAIN datas}
Instances(datas, kind) ==
  UNION {{p} \X DOMAIN datas[p][kind] : p \in DOMAIN datas}

\* Faulty variant of subscriptionOutputs: the first pipeline decides.
subscriptionOutputsOfOne(datas, s) ==
  LET p == CHOOSE q \in With(datas, "subscriptions", s) : TRUE
  IN  {p} \X DOMAIN datas[p].outputs

subscriptionOutputs(datas, s) ==
  UNION {{p} \X DOMAIN datas[p].outputs : p \in With(datas, "subscriptions", s)}

targetSubscriptions(datas, t) ==
  UNION {DOMAIN datas[p].subscriptions : p \in With(datas, "targets", t)}

inputOutputs(datas, i) == {i[1]} \X DOMAIN datas[i[1]].outputs

\* The processors of an output or input are those of its pipeline, in the
\* order the map is iterated: OutputProcessorOrder is not looked at, and a
\* processor the pipeline refers to twice is there once.
ProcessorLists(datas, kind) ==
  {lists \in [DOMAIN datas -> UNION {SetToSeqs(DOMAIN datas[p][kind]) :
                                       p \in DOMAIN datas}] :
     \A p \in DOMAIN datas : ToSet(lists[p]) = DOMAIN datas[p][kind]}

attachedProcessors(lists, instance) ==
  [k \in DOMAIN lists[instance[1]] |-> <<instance[1], lists[instance[1]][k]>>]

(***************************************************************************)
(* assignPorts: double hashing over the pool, in the order of the names.   *)
(***************************************************************************)
\* Faulty variant of probeStep: the step may be zero.
probeStepZero(h) == h % PortPool
probeStep(h) == (h % (PortPool - 1)) + 1

\* Ports of the names, or NoPlan if one finds no free slot. h1 and h2 are
\* the hashes of the names.
assignPorts(names, h1, h2) ==
  LET slot(n, i) == (h1[n] + i * probeStep(h2[n])) % PortPool
      ports[k \in 0..Len(names)] ==
        IF k = 0 THEN [n \in {} |-> 0]
        ELSE LET before == ports[k - 1]
                 name == names[k]
                 free == IF before = NoPlan THEN {}
                         ELSE {i \in 0..(PortPool - 1) :
                                 \A n \in DOMAIN before :
                                   before[n] # PortBase + slot(name, i)}
             IN  IF free = {} THEN NoPlan
                 ELSE [n \in DOMAIN before \cup {name} |->
                         IF n = name THEN PortBase + slot(name, Min(free))
                                     ELSE before[n]]
  IN  ports[Len(names)]

\* Every pipeline starts with an empty pool.
pipelinePortMap(datas, p) ==
  LET names == DOMAIN datas[p].outputs \cap PrometheusNames
      instances == {p} \X names
  IN  assignPorts(SetToSeq(instances), [n \in instances |-> StartHash(n)],
                  [n \in instances |-> StepHash(n)])

(***************************************************************************)
(* Build.                                                                  *)
(***************************************************************************)
\* The object that the first pipeline meeting the resource has for it; Able
\* are the pipelines that can build it.
First(datas, order, able, kind, n) ==
  datas[order[Min({k \in DOMAIN order : order[k] \in able})]][kind][n]

\* What a configuration is made of. The rest of it is copied from the spec.
buildTargetConfig(target, profile) ==
  [rev |-> target.rev, profile |-> target.profile, profileRev |-> profile.rev]
buildTunnelTargetMatch(policy, profile) ==
  [rev |-> policy.rev, profile |-> policy.profile, profileRev |-> profile.rev]
buildSubscriptionConfig(subscription, outputs) ==
  [rev |-> subscription.rev, outputs |-> outputs]
buildOutputConfig(output, processors) ==
  [rev |-> output.rev, processors |-> processors, listen |-> 0]
buildInputConfig(input, outputs, processors) ==
  [rev |-> input.rev, outputs |-> outputs, processors |-> processors]
buildProcessorConfig(processor) == [rev |-> processor.rev]

\* A target or policy is skipped by a pipeline without its profile.
Able(datas, kind, n) ==
  {p \in With(datas, kind, n) :
     datas[p][kind][n].profile \in DOMAIN datas[p].profiles}
Built(datas, kind) == {n \in Resolved(datas, kind) : Able(datas, kind, n) # {}}

\* The object and its profile are those of the same pipeline.
ProfileFor(datas, order, kind, n) ==
  LET able == Able(datas, kind, n)
  IN  First(datas, order, able, "profiles",
            First(datas, order, able, kind, n).profile)

buildTargets(datas, order) ==
  [t \in Built(datas, "targets") |->
     [config |-> buildTargetConfig(
        First(datas, order, Able(datas, "targets", t), "targets", t),
        ProfileFor(datas, order, "targets", t)),
      subscriptions |-> targetSubscriptions(datas, t)]]

buildSubscriptions(datas, order) ==
  [s \in Resolved(datas, "subscriptions") |->
     buildSubscriptionConfig(
       First(datas, order, With(datas, "subscriptions", s), "subscriptions", s),
       subscriptionOutputs(datas, s))]

buildOutputs(datas, lists) ==
  [o \in Instances(datas, "outputs") |->
     buildOutputConfig(datas[o[1]].outputs[o[2]], attachedProcessors(lists, o))]

\* The port replaces whatever the configuration says.
assignPrometheusOutputPorts(datas, outputs) ==
  [o \in DOMAIN outputs |->
     IF o[2] \in PrometheusNames
       THEN [outputs[o] EXCEPT !.listen = pipelinePortMap(datas, o[1])[o]]
       ELSE outputs[o]]

buildInputs(datas, lists) ==
  [i \in Instances(datas, "inputs") |->
     buildInputConfig(datas[i[1]].inputs[i[2]], inputOutputs(datas, i),
                      attachedProcessors(lists, i))]

\* Faulty variant of buildProcessors: only those of the outputs.
buildProcessorsOfOutputs(datas) ==
  [x \in Instances(datas, "outputProcessors") |->
     buildProcessorConfig(datas[x[1]].outputProcessors[x[2]])]

\* Output and input processors end up in one map.
buildProcessors(datas) ==
  [x \in Instances(datas, "outputProcessors")
           \cup Instances(datas, "inputProcessors") |->
     buildProcessorConfig(IF x \in Instances(datas, "outputProcessors")
                            THEN datas[x[1]].outputProcessors[x[2]]
                            ELSE datas[x[1]].inputProcessors[x[2]])]

buildTunnelTargetMatches(datas, order) ==
  [g \in Built(datas, "policies") |->
     buildTunnelTargetMatch(
       First(datas, order, Able(datas, "policies", g), "policies", g),
       ProfileFor(datas, order, "policies", g))]

\* An error in the ports of one pipeline fails the plan of the cluster.
Build(datas, order, outputLists, inputLists) ==
  IF \E p \in DOMAIN datas : pipelinePortMap(datas, p) = NoPlan THEN NoPlan
  ELSE [targets |-> buildTargets(datas, order),
        subscriptions |-> buildSubscriptions(datas, order),
        outputs |-> assignPrometheusOutputPorts(datas, buildOutputs(datas, outputLists)),
        inputs |-> buildInputs(datas, inputLists),
        processors |-> buildProcessors(datas),
        matches |-> buildTunnelTargetMatches(datas, order)]

-----------------------------------------------------------------------------
\* What a plan names exists in the plan, although targets, subscriptions,
\* outputs, inputs and processors are collected and built in separate passes
\* over the pipelines: the collector drops a reference to nothing without a
\* word.
Closed(pl) ==
  /\ \A t \in DOMAIN pl.targets :
       pl.targets[t].subscriptions \subseteq DOMAIN pl.subscriptions
  /\ \A s \in DOMAIN pl.subscriptions :
       pl.subscriptions[s].outputs \subseteq DOMAIN pl.outputs
  /\ \A i \in DOMAIN pl.inputs : pl.inputs[i].outputs \subseteq DOMAIN pl.outputs
  /\ \A user \in {pl.outputs[o] : o \in DOMAIN pl.outputs}
                   \cup {pl.inputs[i] : i \in DOMAIN pl.inputs} :
       ToSet(user.processors) \subseteq DOMAIN pl.processors

\* What a pipeline asked for by targets, subscriptions and inputs is routed:
\* each of its targets is subscribed to each of its subscriptions, whose
\* updates reach each of its outputs through the set of its output
\* processors, and so do its inputs. How often and in which order a
\* processor comes is not compared, and tunnel policies have no route of
\* their own.
Delivered(pl, datas) ==
  \A p \in DOMAIN datas :
    \A o \in {p} \X DOMAIN datas[p].outputs :
      /\ ToSet(pl.outputs[o].processors) =
           {p} \X DOMAIN datas[p].outputProcessors
      /\ \A s \in DOMAIN datas[p].subscriptions :
           /\ o \in pl.subscriptions[s].outputs
           /\ \A t \in DOMAIN datas[p].targets :
                s \in pl.targets[t].subscriptions
      /\ \A i \in {p} \X DOMAIN datas[p].inputs :
           /\ o \in pl.inputs[i].outputs
           /\ ToSet(pl.inputs[i].processors) =
                {p} \X DOMAIN datas[p].inputProcessors

Pool == PortBase..(PortBase + PortPool - 1)

\* An error is not a port map.
ASSUME ErrorAssumption == \A n \in 0..PortPool : NoPlan \notin [1..n -> Pool]

\* For all hashes: as long as there are not more names than ports every name
\* gets one, no two the same, all within the pool. That the probing meets
\* every slot rests on the pool being a prime.
PortsFound ==
  \A n \in 0..(PortPool + 1) :
    \A h1, h2 \in [1..n -> 0..PortPool] :
      LET ports == assignPorts([k \in 1..n |-> k], h1, h2)
      IN  IF n > PortPool THEN ports = NoPlan
          ELSE /\ ports # NoPlan
               /\ IsInjective(ports)
               /\ \A k \in 1..n : ports[k] \in Pool
=============================================================================
