SPECIFICATION Spec
CONSTANTS
  PortBase = 9804
  PortPool = 3
  PrometheusNames = {"prom", "stats"}
  NoPlan = noplan
  StartHash <- MCStartHash
  StepHash <- MCStepHash
  Clusters = {"c1", "c2"}
  TunnelClusters = {"c1"}
  Pipelines = {"p1", "p2"}
  PipelineSpecs <- MCPipelineSpecs
  Names <- MCNames
  Objects <- MCObjects
  StartResources <- MCStartResources
  StartPipelines <- MCStartPipelines
  Absent = absent
  Nameless = nameless
  NoProfile = noprofile
  MaxChanges = 2
INVARIANTS
  TypeOK
  SettledIsCurrent
  PlansAreClosed
  PipelinesDelivered
  PortsComplete
CHECK_DEADLOCK FALSE
