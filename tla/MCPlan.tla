------------------------------- MODULE MCPlan -------------------------------
(***************************************************************************)
(* A small instance of PipelineResources: two clusters, one of them with a *)
(* tunnel, and two pipelines, one that refers to its resources by name and *)
(* one that selects them by label.                                         *)
(***************************************************************************)
EXTENDS PipelineResources

Object(labels, rev, profile) == [labels |-> labels, rev |-> rev, profile |-> profile]
Plain(labels, revs) == {Object(labels, rev, NoProfile) : rev \in revs}

MCNames ==
  [targets |-> {"t1", "t2"}, subscriptions |-> {"s"},
   outputs |-> {"prom", "stats"}, inputs |-> {"in"}, processors |-> {"x", "y"},
   policies |-> {"g"}, profiles |-> {"f1", "f2"}]

MCObjects ==
  [t1 |-> {Object({"l"}, 1, "f1"), Object({}, 1, "f1"), Object({"l"}, 1, "f2")},
   t2 |-> {Object({"l"}, 1, "f1")},
   s |-> Plain({}, {1, 2}),
   prom |-> Plain({"l"}, {1}),
   stats |-> Plain({"l"}, {1}),
   in |-> Plain({}, {1}),
   x |-> Plain({"l"}, {1}) \cup Plain({}, {1}),
   y |-> Plain({}, {1}),
   g |-> {Object({"l"}, 1, "f2")},
   f1 |-> Plain({}, {1, 2}),
   f2 |-> Plain({}, {1})]

Everything ==
  [n \in DOMAIN MCObjects |-> CHOOSE o \in MCObjects[n] : \A q \in MCObjects[n] :
     o.labels # {} \/ q.labels = {}]

\* y does not exist although it is referenced.
MCStartResources == {[Everything EXCEPT !["y"] = Absent]}

None == [role \in Roles |-> <<>>]
NoSelectors == [role \in Roles |-> {}]

ByName ==
  [cluster |-> "c1", enabled |-> TRUE, selectors |-> NoSelectors,
   refs |-> [None EXCEPT !["targets"] = <<"t1">>, !["subscriptions"] = <<"s">>,
                         !["outputs"] = <<"prom">>, !["inputs"] = <<"in">>,
                         !["outputProcessors"] = <<"y", "y">>,
                         !["inputProcessors"] = <<"x">>]]

ByLabel ==
  [cluster |-> "c1", enabled |-> TRUE,
   refs |-> [None EXCEPT !["subscriptions"] = <<"s">>],
   selectors |-> [NoSelectors EXCEPT !["targets"] = {{"l"}},
                                     !["outputs"] = {{"l"}, {}},
                                     !["policies"] = {{"l"}},
                                     !["inputs"] = {{"m"}},
                                     !["outputProcessors"] = {{"l"}},
                                     !["inputProcessors"] = {{"l"}}]]

MCPipelineSpecs ==
  {ByName, ByLabel, [ByName EXCEPT !.cluster = "c2"],
   [ByLabel EXCEPT !.cluster = "c2"], [ByName EXCEPT !.enabled = FALSE],
   [ByName EXCEPT !.cluster = "unknown"]}

MCStartPipelines == {[p1 |-> ByName, p2 |-> ByLabel]}

\* All outputs start at the same slot with the same step.
MCStartHash(instance) == 4
MCStepHash(instance) == 3
=============================================================================
