---------------------------- MODULE ClusterProofs ---------------------------
(***************************************************************************)
(* Proofs about ClusterController.                                         *)
(***************************************************************************)
EXTENDS ClusterController, FiniteSetTheorems, SequenceTheorems, TLAPS

-----------------------------------------------------------------------------
\* The steps of a reconcile.

\* What one of two lists mentions, their concatenation mentions.
LEMMA MentionsConcat ==
  ASSUME NEW S, NEW s \in Seq(S), NEW t \in Seq(S), NEW x,
         Mentions(s, x) \/ Mentions(t, x)
  PROVE  Mentions(s \o t, x)
  <1>1. CASE Mentions(s, x)
    BY <1>1 DEF Mentions
  <1>2. CASE Mentions(t, x)
    <2>1. PICK i \in 1..Len(t) : t[i] = x
      BY <1>2 DEF Mentions
    <2>2. Len(s) + i \in 1..Len(s \o t) /\ (s \o t)[Len(s) + i] = x
      BY <2>1
    <2> QED BY <2>2 DEF Mentions
  <1> QED BY <1>1, <1>2

\* A list of other steps promises nothing about later.
LEMMA PrecedesVacuously ==
  ASSUME NEW S, NEW s \in Seq(S), NEW first, NEW later, later \notin S
  PROVE  Precedes(first, later, s) /\ ~Mentions(s, later)
  BY DEF Precedes, Mentions

\* A step mentioned among others precedes whatever follows them.
LEMMA PrecedesConcat ==
  ASSUME NEW S, NEW s \in Seq(S), NEW t \in Seq(StepNames), NEW first, NEW later,
         later \notin S, Mentions(s, first)
  PROVE  Precedes(first, later, s \o t)
  <1> SUFFICES ASSUME NEW i \in 1..Len(s \o t), (s \o t)[i] = later
               PROVE  \E j \in 1..(i - 1) : (s \o t)[j] = first
    BY DEF Precedes
  <1>1. ~(i \in 1..Len(s))
    <2> SUFFICES ASSUME i \in 1..Len(s) PROVE FALSE
      OBVIOUS
    <2>1. (s \o t)[i] = s[i]
      OBVIOUS
    <2>2. s[i] \in S
      OBVIOUS
    <2> QED BY <2>1, <2>2
  <1>2. PICK j \in 1..Len(s) : s[j] = first
    BY DEF Mentions
  <1>3. j \in 1..(i - 1) /\ (s \o t)[j] = first
    BY <1>1, <1>2
  <1> QED BY <1>3

\* The order is kept when a step is done.
LEMMA PrecedesTail ==
  ASSUME NEW S, NEW s \in Seq(S), s # <<>>, NEW first, NEW later, 
         Precedes(first, later, s), Head(s) # first
  PROVE  Precedes(first, later, Tail(s)) 
  <1> SUFFICES ASSUME NEW i \in 1..Len(Tail(s)), Tail(s)[i] = later
               PROVE  \E j \in 1..(i - 1) : Tail(s)[j] = first
    BY DEF Precedes
  <1>1. i + 1 \in 1..Len(s) /\ s[i + 1] = later
    OBVIOUS
  <1>2. PICK j \in 1..i : s[j] = first
    BY <1>1 DEF Precedes
  <1>3. j # 1
    BY <1>2
  <1>4. j - 1 \in 1..(i - 1) /\ Tail(s)[j - 1] = first
    BY <1>2, <1>3
  <1> QED BY <1>4

\* Steps that are done are not mentioned again.
LEMMA MentionsTail ==
  ASSUME NEW S, NEW s \in Seq(S), s # <<>>, NEW x, Mentions(Tail(s), x)
  PROVE  Mentions(s, x)
  <1>1. PICK i \in 1..Len(Tail(s)) : Tail(s)[i] = x
    BY DEF Mentions
  <1>2. i + 1 \in 1..Len(s) /\ s[i + 1] = x
    BY <1>1
  <1> QED BY <1>2 DEF Mentions

\* The steps before the plan is built.
EarlySteps == {"headless", "apiCertificates", "controllerCA",
               "tunnelCertificates", "clientCertificates", "tunnelService"}

\* reconcile waits for the certificates before it writes the stateful set, and
\* builds the plan before it uses it.
LEMMA LiveStepsOrder ==
  ASSUME NEW spec
  PROVE  /\ LiveSteps(spec) \in Seq(StepNames)
         /\ spec.api = "certs" =>
              Precedes("apiCertificates", "statefulSet", LiveSteps(spec))
         /\ spec.tunnel = "certs" =>
              Precedes("tunnelCertificates", "statefulSet", LiveSteps(spec))
         /\ spec.client = "certs" =>
              Precedes("clientCertificates", "statefulSet", LiveSteps(spec))
         /\ \A name \in {"configMap", "prometheus", "distribute", "matches"} :
              Precedes("plan", name, LiveSteps(spec))
  <1> DEFINE w1 == When(spec.api = "certs", "apiCertificates")
             w2 == When(spec.api # "off", "controllerCA")
             w3 == When(spec.tunnel = "certs", "tunnelCertificates")
             w4 == When(spec.client = "certs", "clientCertificates")
             w5 == When(spec.tunnel # "off", "tunnelService")
             s1 == <<"headless">> \o w1
             s2 == s1 \o w2
             s3 == s2 \o w3
             s4 == s3 \o w4
             s5 == s4 \o w5
             late == <<"plan", "configMap", "statefulSet", "prometheus",
                       "distribute">>
  <1>1. /\ <<"headless">> \in Seq(EarlySteps)
        /\ w1 \in Seq(EarlySteps) /\ w2 \in Seq(EarlySteps)
        /\ w3 \in Seq(EarlySteps) /\ w4 \in Seq(EarlySteps)
        /\ w5 \in Seq(EarlySteps)
    <2>1. /\ "headless" \in EarlySteps /\ "apiCertificates" \in EarlySteps
          /\ "controllerCA" \in EarlySteps
          /\ "tunnelCertificates" \in EarlySteps
          /\ "clientCertificates" \in EarlySteps
          /\ "tunnelService" \in EarlySteps
      BY DEF EarlySteps
    <2> QED BY <2>1 DEF When
  <1>2. /\ spec.api = "certs" => Mentions(w1, "apiCertificates")
        /\ spec.tunnel = "certs" => Mentions(w3, "tunnelCertificates")
        /\ spec.client = "certs" => Mentions(w4, "clientCertificates")
    BY DEF When, Mentions
  <1>3. LiveSteps(spec) = s5 \o late
    BY DEF LiveSteps
  <1> HIDE DEF w1, w2, w3, w4, w5
  <1>4. s1 \in Seq(EarlySteps)
    BY <1>1
  <1>5. spec.api = "certs" => Mentions(s1, "apiCertificates")
    BY <1>1, <1>2, MentionsConcat
  <1> HIDE DEF s1
  <1>6. s2 \in Seq(EarlySteps)
    BY <1>1, <1>4
  <1>7. spec.api = "certs" => Mentions(s2, "apiCertificates")
    BY <1>1, <1>4, <1>5, MentionsConcat
  <1> HIDE DEF s2
  <1>8. s3 \in Seq(EarlySteps)
    BY <1>1, <1>6
  <1>9. /\ spec.api = "certs" => Mentions(s3, "apiCertificates")
        /\ spec.tunnel = "certs" => Mentions(s3, "tunnelCertificates")
    BY <1>1, <1>2, <1>6, <1>7, MentionsConcat
  <1> HIDE DEF s3
  <1>10. s4 \in Seq(EarlySteps)
    BY <1>1, <1>8
  <1>11. /\ spec.api = "certs" => Mentions(s4, "apiCertificates")
         /\ spec.tunnel = "certs" => Mentions(s4, "tunnelCertificates")
         /\ spec.client = "certs" => Mentions(s4, "clientCertificates")
    BY <1>1, <1>2, <1>8, <1>9, MentionsConcat
  <1> HIDE DEF s4
  <1>12. s5 \in Seq(EarlySteps)
    BY <1>1, <1>10
  <1>13. /\ spec.api = "certs" => Mentions(s5, "apiCertificates")
         /\ spec.tunnel = "certs" => Mentions(s5, "tunnelCertificates")
         /\ spec.client = "certs" => Mentions(s5, "clientCertificates")
    BY <1>1, <1>10, <1>11, MentionsConcat
  <1> HIDE DEF s5
  <1>14. late \in Seq(StepNames) /\ s5 \in Seq(StepNames)
    <2>1. EarlySteps \subseteq StepNames
      BY DEF EarlySteps, StepNames
    <2>2. \A i \in 1..Len(s5) : s5[i] \in StepNames
      BY <1>12, <2>1
    <2>3. late \in Seq(StepNames)
      BY DEF StepNames
    <2> QED BY <1>12, <2>2, <2>3
  <1>15. "statefulSet" \notin EarlySteps
    BY DEF EarlySteps
  <1>16. /\ spec.api = "certs" =>
              Precedes("apiCertificates", "statefulSet", s5 \o late)
         /\ spec.tunnel = "certs" =>
              Precedes("tunnelCertificates", "statefulSet", s5 \o late)
         /\ spec.client = "certs" =>
              Precedes("clientCertificates", "statefulSet", s5 \o late)
    <2> HIDE DEF late
    <2> QED BY <1>12, <1>13, <1>14, <1>15, PrecedesConcat
  <1>17. ASSUME NEW name \in {"configMap", "prometheus", "distribute", "matches"}
         PROVE  Precedes("plan", name, s5 \o late)
    <2> SUFFICES ASSUME NEW i \in 1..Len(s5 \o late), (s5 \o late)[i] = name
                 PROVE  \E j \in 1..(i - 1) : (s5 \o late)[j] = "plan"
      BY DEF Precedes
    <2>1. ~(i \in 1..Len(s5))
      <3>1. name \notin EarlySteps
        BY DEF EarlySteps
      <3> QED BY <1>12, <1>14, <3>1
    <2>2. /\ Len(s5) + 1 \in 1..Len(s5 \o late)
          /\ (s5 \o late)[Len(s5) + 1] = "plan"
      BY <1>14
    <2>3. i # Len(s5) + 1
      BY <2>2
    <2> QED BY <1>14, <2>1, <2>2, <2>3
  <1>18. s5 \o late \in Seq(StepNames)
    BY <1>14
  <1> QED BY <1>3, <1>16, <1>17, <1>18

\* A cleanup consists of deletions.
LEMMA CleanupStepsTyped ==
  ASSUME NEW spec
  PROVE  CleanupSteps(spec) \in Seq(CleanupNames) /\ GoneSteps \in Seq(CleanupNames)
  <1> DEFINE w1 == When(spec.api = "certs", "deleteApiCertificates")
             w2 == When(spec.api # "off", "deleteControllerCA")
             w3 == When(spec.tunnel = "certs", "deleteTunnelCertificates")
             w4 == When(spec.client = "certs", "deleteClientCertificate")
             w5 == When(spec.tunnel # "off", "deleteTunnelService")
             first == <<"deleteStatefulSet", "deleteHeadless", "deletePrometheus">>
             last == <<"removeFinalizer">>
  <1>1. \A name \in CleanupNames : \A c : When(c, name) \in Seq(CleanupNames)
    BY DEF When
  <1>2. /\ w1 \in Seq(CleanupNames) /\ w2 \in Seq(CleanupNames)
        /\ w3 \in Seq(CleanupNames) /\ w4 \in Seq(CleanupNames)
        /\ w5 \in Seq(CleanupNames)
    <2>1. /\ "deleteApiCertificates" \in CleanupNames
          /\ "deleteControllerCA" \in CleanupNames
          /\ "deleteTunnelCertificates" \in CleanupNames
          /\ "deleteClientCertificate" \in CleanupNames
          /\ "deleteTunnelService" \in CleanupNames
      BY DEF CleanupNames
    <2> QED BY <2>1 DEF When
  <1>3. /\ first \in Seq(CleanupNames) /\ last \in Seq(CleanupNames)
        /\ GoneSteps \in Seq(CleanupNames)
    BY DEF CleanupNames, GoneSteps
  <1>4. CleanupSteps(spec) = first \o w1 \o w2 \o w3 \o w4 \o w5 \o last
    BY DEF CleanupSteps
  <1> HIDE DEF first, last, w1, w2, w3, w4, w5
  <1>5. first \o w1 \o w2 \o w3 \o w4 \o w5 \o last \in Seq(CleanupNames)
    BY <1>2, <1>3
  <1> QED BY <1>3, <1>4, <1>5

-----------------------------------------------------------------------------
\* Types.

\* What is taken from pipelines stays within what pipelines have.
LEMMA PlanTyped ==
  ASSUME NEW plan \in SUBSET Pipes
  PROVE  /\ TargetsOf(plan) \subseteq TargetsOf(Pipes)
         /\ MatchesOf(plan) \in Matches
         /\ PrometheusOf(plan) \subseteq ServiceNames
         /\ \A spec : /\ planOf(plan, spec) \in SUBSET Pipes
                      /\ buildConfigContent(spec, plan) \in Matches
  BY DEF TargetsOf, MatchesOf, Matches, PrometheusOf, ServiceNames, planOf,
         buildConfigContent

\* A spec asks for certificates of its own pods.
LEMMA CertificatesTyped ==
  ASSUME NEW spec \in Specs
  PROVE  /\ apiCertificates(spec) \subseteq Certificates
         /\ tunnelCertificates(spec) \subseteq Certificates
         /\ clientCertificates(spec) \subseteq Certificates
  <1>1. Ordinals(spec) \subseteq Pods
    BY SpecsAssumption, PodsAssumption DEF Ordinals, Pods
  <1> QED
    BY <1>1
    DEF apiCertificates, tunnelCertificates, clientCertificates, Certificates

Volumes == [name : VolumeNames, sources : 0..MaxPods,
            kind : {"csi", "projected", "secret", "configMap"}]

\* Stateful sets are built and changed field by field.
LEMMA StatefulSetTyped ==
  /\ NoStatefulSet \in StatefulSets /\ Unseen(NoStatefulSet) \in StatefulSets
  /\ \A spec \in Specs : buildStatefulSet(spec) \in StatefulSets
  /\ \A set \in StatefulSets :
       /\ Unseen(set) \in StatefulSets
       /\ [set EXCEPT !.unseen = FALSE] \in StatefulSets
       /\ \A n \in 0..MaxPods :
            /\ [set EXCEPT !.ready = n] \in StatefulSets
            /\ \A vs \in SUBSET Volumes :
                 [set EXCEPT !.replicas = n, !.volumes = vs] \in StatefulSets
  <1>1. NoStatefulSet \in StatefulSets
    BY PodsAssumption DEF NoStatefulSet, StatefulSets
  <1>2. ASSUME NEW spec \in Specs PROVE buildStatefulSet(spec) \in StatefulSets
    <2>1. spec.replicas \in 0..MaxPods /\ 0 \in 0..MaxPods
      BY SpecsAssumption, PodsAssumption
    <2>2. apiVolumes(spec) \subseteq Volumes
      BY <2>1 DEF apiVolumes, CertificateVolume, Volume, VolumeNames, Volumes
    <2>3. tunnelVolumes(spec) \subseteq Volumes
      BY <2>1 DEF tunnelVolumes, CertificateVolume, Volume, VolumeNames, Volumes
    <2>4. clientVolumes(spec) \subseteq Volumes
      BY <2>1 DEF clientVolumes, Volume, VolumeNames, Volumes
    <2> QED
      BY <2>1, <2>2, <2>3, <2>4
      DEF buildStatefulSet, volumes, StatefulSets, Volumes
  <1>3. ASSUME NEW set \in StatefulSets
        PROVE  /\ Unseen(set) \in StatefulSets
               /\ [set EXCEPT !.unseen = FALSE] \in StatefulSets
    BY DEF Unseen, StatefulSets
  <1>4. ASSUME NEW set \in StatefulSets, NEW n \in 0..MaxPods
        PROVE  /\ [set EXCEPT !.ready = n] \in StatefulSets
               /\ \A vs \in SUBSET Volumes :
                    [set EXCEPT !.replicas = n, !.volumes = vs] \in StatefulSets
    BY DEF StatefulSets, Volumes
  <1> QED BY <1>1, <1>2, <1>3, <1>4

\* So are the objects at the API server.
LEMMA ObjectsTyped ==
  ASSUME NEW o \in Objects
  PROVE  /\ \A x \in SUBSET ServiceNames : [o EXCEPT !.services = x] \in Objects
         /\ \A x \in Matches : [o EXCEPT !.configMap = x] \in Objects
         /\ \A x \in StatefulSets : [o EXCEPT !.statefulSet = x] \in Objects
         /\ \A x, y \in SUBSET Certificates :
              [o EXCEPT !.certificates = x, !.issued = y] \in Objects
  BY DEF Objects

\* The worker between two reconciles.
LEMMA IdleTyped ==
  /\ Idle \in Workers
  /\ Idle.todo = <<>> /\ Idle.pods = {} /\ Idle.plan = NoPlan
  /\ NoCluster \in Clusters /\ NothingStored \in Objects
  <1>1. [t \in {} |-> 0] \in Shares
    <2>1. [t \in {} |-> 0] \in [{} -> SUBSET Pods]
      OBVIOUS
    <2>2. {} \in SUBSET TargetsOf(Pipes)
      OBVIOUS
    <2> QED BY <2>1, <2>2 DEF Shares
  <1>2. NoCluster \in Clusters
    <2>1. (CHOOSE spec \in Specs : TRUE) \in Specs
      BY SpecsAssumption
    <2> QED BY <2>1 DEF NoCluster, Clusters
  <1>3. NothingStored \in Objects
    BY StatefulSetTyped DEF NothingStored, Objects
  <1>4. <<>> \in Seq(StepNames)
    OBVIOUS
  <1>5. /\ Idle \in Workers
        /\ Idle.todo = <<>>
        /\ Idle.pods = {}
        /\ Idle.plan = NoPlan
    <2> DEFINE none == [t \in {} |-> 0]
    <2>1. Idle = [todo |-> <<>>, copy |-> NoPlan, plan |-> NoPlan,
                  set |-> NoStatefulSet, share |-> none, pods |-> {},
                  failed |-> FALSE]
      BY DEF Idle
    <2>2. none \in Shares
      BY <1>1
    <2> HIDE DEF none
    <2>3. NoStatefulSet \in StatefulSets
      BY StatefulSetTyped
    <2>4. /\ NoPlan \in Clusters \cup {NoPlan}
          /\ NoPlan \in (SUBSET Pipes) \cup {NoPlan}
      OBVIOUS
    <2>5. {} \in SUBSET Pods
      OBVIOUS
    <2>6. FALSE \in BOOLEAN
      OBVIOUS
    <2>7. Idle \in Workers
      BY <1>4, <2>1, <2>2, <2>3, <2>4, <2>5, <2>6 DEF Workers
    <2> QED BY <2>1, <2>7
  <1> QED BY <1>2, <1>3, <1>5

-----------------------------------------------------------------------------
\* What the steps do to the objects at the API server.

TypesInv == TypeOK /\ PlanFirst

\* Everything but the stateful set may change, and no certificate is issued.
StoreKept ==
  /\ store' \in Objects /\ store'.issued \subseteq store'.certificates
  /\ store'.issued \subseteq store.issued
  /\ store'.statefulSet = store.statefulSet
  /\ UNCHANGED <<seen, secrets>>

\* A step that needs the plan has it.
LEMMA PlanAtHand ==
  ASSUME TypesInv,
         NEW name \in {"configMap", "prometheus", "distribute", "matches"},
         At(name)
  PROVE  worker.plan \in SUBSET Pipes
  <1>1. /\ worker.todo # <<>> /\ worker.todo \in Seq(StepNames)
        /\ worker.plan \in (SUBSET Pipes) \cup {NoPlan}
    BY DEF TypesInv, PlanFirst, Workers, At, Busy
  <1>2. worker.todo[1] = name /\ 1 \in 1..Len(worker.todo)
    BY <1>1 DEF At
  <1>3. ~Precedes("plan", name, worker.todo)
    BY <1>2 DEF Precedes
  <1> QED BY <1>1, <1>3 DEF TypesInv, PlanFirst

\* A reconcile in progress works on a cluster it has read.
LEMMA CopyAtHand ==
  ASSUME TypesInv, Busy
  PROVE  worker.copy \in Clusters /\ worker.copy.spec \in Specs
  BY DEF TypesInv, PlanFirst, Clusters

\* ensureCertificates creates and deletes, it does not issue.
LEMMA KeptByCertificates ==
  ASSUME TypesInv, NEW step, NEW kind, NEW wanted \in SUBSET Certificates,
         ensureCertificates(step, kind, wanted)
  PROVE  StoreKept
  BY DEF ensureCertificates, ControllerOnly, StoreKept, TypesInv, TypeOK,
         Objects

\* The deletions of a cleanup take objects away.
LEMMA KeptByDeletions ==
  ASSUME TypesInv, NEW step, NEW services, NEW certificates,
         DeleteAll(step, services, certificates)
  PROVE  StoreKept
  BY DEF DeleteAll, ControllerOnly, StoreKept, TypesInv, TypeOK, Objects

\* The steps of a reconcile that leave the stateful set alone.
LEMMA KeptByReconcile ==
  ASSUME TypesInv, ReconcileStep,
         ~reconcileStatefulSet, ~ensureStatefulSetAbsent
  PROVE  StoreKept
  <1>1. CASE reconcileHeadlessService \/ reconcileTunnelService
    <2>1. "headless" \in ServiceNames /\ "tunnel" \in ServiceNames
      BY DEF ServiceNames
    <2> QED
      BY <1>1, <2>1
      DEF reconcileHeadlessService, reconcileTunnelService, ensureService,
          Write, ProceedOnly, Retry, ControllerOnly, StoreKept, TypesInv,
          TypeOK, Objects
  <1>2. CASE reconcileControllerCA
    BY <1>2
    DEF reconcileControllerCA, Write, ProceedOnly, Retry, ControllerOnly,
        StoreKept, TypesInv, TypeOK, Objects
  <1>3. CASE \/ reconcileCertificates \/ reconcileTunnelCertificates
             \/ reconcileClientTLSCertificates
    <2>1. worker.copy.spec \in Specs
      BY <1>3, CopyAtHand
      DEF reconcileCertificates, reconcileTunnelCertificates,
          reconcileClientTLSCertificates, ensureCertificates, At
    <2> QED
      BY <1>3, <2>1, CertificatesTyped, KeptByCertificates
      DEF reconcileCertificates, reconcileTunnelCertificates,
          reconcileClientTLSCertificates
  <1>4. CASE reconcileConfigMap
    <2>1. worker.plan \in SUBSET Pipes
      BY <1>4, PlanAtHand DEF reconcileConfigMap
    <2>2. buildConfigContent(worker.copy.spec, worker.plan) \in Matches
      BY <2>1, PlanTyped
    <2> QED
      BY <1>4, <2>2
      DEF reconcileConfigMap, Write, ProceedOnly, Retry, ControllerOnly,
          StoreKept, TypesInv, TypeOK, Objects
  <1>5. CASE reconcilePrometheusServices
    <2>1. worker.plan \in SUBSET Pipes
      BY <1>5, PlanAtHand DEF reconcilePrometheusServices
    <2>2. PrometheusOf(worker.plan) \subseteq ServiceNames
      BY <2>1, PlanTyped
    <2>3. ASSUME NEW names \in SUBSET ServiceNames, NEW unused
          PROVE  /\ reconcilePrometheusService(names) \in Objects
                 /\ [reconcilePrometheusService(names) EXCEPT
                       !.services = @ \ unused] \in Objects
      BY DEF reconcilePrometheusService, TypesInv, TypeOK, Objects
    <2>4. store' \in Objects
      BY <1>5, <2>2, <2>3 DEF reconcilePrometheusServices
    <2>5. /\ store'.issued = store.issued
          /\ store'.certificates = store.certificates
          /\ store'.statefulSet = store.statefulSet
      BY <1>5
      DEF reconcilePrometheusServices, reconcilePrometheusService, TypesInv,
          TypeOK, Objects
    <2> QED
      BY <1>5, <2>4, <2>5
      DEF reconcilePrometheusServices, ControllerOnly, StoreKept, TypesInv,
          TypeOK
  <1>6. CASE ensureServiceAbsent
    BY <1>6
    DEF ensureServiceAbsent, Write, ProceedOnly, Retry, ControllerOnly,
        StoreKept, TypesInv, TypeOK, Objects
  <1>7. CASE \/ cleanupPrometheusServices \/ cleanupCertificates
             \/ cleanupTunnelCertificates \/ cleanupClientTLSCertificates
             \/ cleanupTunnelService
    BY <1>7, KeptByDeletions
    DEF cleanupPrometheusServices, cleanupCertificates,
        cleanupTunnelCertificates, cleanupClientTLSCertificates,
        cleanupTunnelService
  <1>8. CASE cleanupControllerCA
    BY <1>8
    DEF cleanupControllerCA, ControllerOnly, StoreKept, TypesInv, TypeOK,
        Objects
  <1>9. CASE \/ AddFinalizer \/ BuildPlan \/ Distribute \/ sendApplyRequest
             \/ applyTunnelTargetMatches \/ UpdateStatus \/ RemoveFinalizer
             \/ cleanupPlan
    <2>1. UNCHANGED <<store, seen, secrets>>
      BY <1>9
      DEF AddFinalizer, BuildPlan, Distribute, ControllerOnly, sendApplyRequest,
          applyTunnelTargetMatches, UpdateStatus, RemoveFinalizer, cleanupPlan
    <2> QED BY <2>1 DEF StoreKept, TypesInv, TypeOK
  <1> QED
    BY <1>1, <1>2, <1>3, <1>4, <1>5, <1>6, <1>7, <1>8, <1>9 DEF ReconcileStep

\* The garbage collector takes away what the controller leaves to it.
LEMMA KeptByGarbageCollection ==
  ASSUME TypesInv, CollectGarbage
  PROVE  StoreKept
  BY DEF CollectGarbage, StoreKept, TypesInv, TypeOK, Objects

\* All other steps that change objects are these.
LEMMA StoreCases ==
  ASSUME TypesInv, [Next]_vars
  PROVE  \/ StoreKept
         \/ reconcileStatefulSet \/ ensureStatefulSetAbsent
         \/ \E kind \in Informers : Sync(kind)
         \/ Restart \/ IssueCertificate \/ StatefulSetController
  <1>1. CASE ReconcileStep
    BY <1>1, KeptByReconcile
  <1>2. CASE CollectGarbage
    BY <1>2, KeptByGarbageCollection
  <1>3. CASE \/ StartReconcile \/ (\E p \in Pods : StartPod(p))
             \/ CallFails \/ createHTTPClientFails \/ RequestFails
             \/ MatchRequestFails \/ DeleteMatchFails
             \/ (\E p \in Pods : LosePod(p))
             \/ CreateCluster \/ EditCluster \/ DeleteCluster \/ EditPipelines
             \/ UNCHANGED vars
    <2>1. UNCHANGED <<store, seen, secrets>>
      BY <1>3
      DEF StartReconcile, StartPod, CallFails, createHTTPClientFails,
          RequestFails, MatchRequestFails, DeleteMatchFails, LosePod,
          CreateCluster, EditCluster, DeleteCluster, EditPipelines, vars
    <2> QED BY <2>1 DEF StoreKept, TypesInv, TypeOK
  <1> QED BY <1>1, <1>2, <1>3 DEF Next, Reconcile, Informer, Kubernetes

\* What reconcileStatefulSet makes of the stateful set it sees.
ResultOf(old, spec) ==
  LET new == buildStatefulSet(spec)
      replaced == ~volumesEqual(old.volumes, new.volumes)
  IN  IF ~old.exists THEN new
      ELSE IF old.replicas = new.replicas /\ ~replaced THEN old
      ELSE Unseen([old EXCEPT !.replicas = new.replicas,
                     !.volumes = IF replaced THEN new.volumes ELSE @])

\* It is a stateful set.
LEMMA ResultTyped ==
  ASSUME NEW old \in StatefulSets, NEW spec \in Specs
  PROVE  ResultOf(old, spec) \in StatefulSets
  <1> DEFINE new == buildStatefulSet(spec)
             vs == IF ~volumesEqual(old.volumes, new.volumes)
                     THEN new.volumes ELSE old.volumes
  <1>1. new \in StatefulSets
    BY StatefulSetTyped
  <1>2. new.replicas \in 0..MaxPods /\ vs \in SUBSET Volumes
    BY <1>1 DEF StatefulSets, Volumes
  <1>3. [old EXCEPT !.replicas = new.replicas, !.volumes = vs] \in StatefulSets
    <2> HIDE DEF vs, new
    <2> QED BY <1>2, StatefulSetTyped
  <1>4. Unseen([old EXCEPT !.replicas = new.replicas, !.volumes = vs])
          \in StatefulSets
    <2> HIDE DEF vs, new
    <2> QED BY <1>3, StatefulSetTyped
  <1> QED BY <1>1, <1>4 DEF ResultOf

\* reconcileStatefulSet writes that, unless the cache was outdated.
LEMMA StatefulSetWritten ==
  ASSUME TypesInv, reconcileStatefulSet
  PROVE  LET old == seen.statefulSet
             result == ResultOf(old, worker.copy.spec)
         IN  /\ UNCHANGED <<cluster, pipes, seen, secrets, plans, status, count>>
             /\ result \in StatefulSets /\ seen.statefulSet \in StatefulSets
             /\ \/ /\ Retry /\ UNCHANGED <<store, pod>>
                   /\ result # old /\ old # store.statefulSet
                \/ /\ worker' = [worker EXCEPT !.todo = Tail(@), !.set = result]
                   /\ UNCHANGED dirty
                   /\ pod' = [p \in Pods |->
                        IF pod[p].state = "up" /\ old.exists
                             /\ ~volumesEqual(old.volumes, volumes(worker.copy.spec))
                          THEN [pod[p] EXCEPT !.state = "outdated"] ELSE pod[p]]
                   /\ \/ result = old /\ UNCHANGED store
                      \/ /\ old = store.statefulSet
                         /\ store' = [store EXCEPT !.statefulSet = result]
  <1> DEFINE old == seen.statefulSet
             result == ResultOf(old, worker.copy.spec)
             new == buildStatefulSet(worker.copy.spec)
  <1>1. worker.copy.spec \in Specs
    BY CopyAtHand DEF reconcileStatefulSet, At
  <1>2. old \in StatefulSets
    BY DEF TypesInv, TypeOK, Objects
  <1>3. result \in StatefulSets
    BY <1>1, <1>2, ResultTyped
  <1>4. new.volumes = volumes(worker.copy.spec)
    BY DEF buildStatefulSet
  <1>5. IF result # old /\ old # store.statefulSet
          THEN Retry /\ UNCHANGED <<store, pod>>
        ELSE
           /\ store' = IF result = old THEN store
                       ELSE [store EXCEPT !.statefulSet = result]
           /\ pod' = [p \in Pods |->
                IF pod[p].state = "up" /\ old.exists
                     /\ ~volumesEqual(old.volumes, new.volumes)
                  THEN [pod[p] EXCEPT !.state = "outdated"] ELSE pod[p]]
           /\ worker' = [worker EXCEPT !.todo = Tail(@), !.set = result]
           /\ UNCHANGED dirty
    BY DEF reconcileStatefulSet, ResultOf
  <1>6. UNCHANGED <<cluster, pipes, seen, secrets, plans, status, count>>
    BY DEF reconcileStatefulSet
  <1> HIDE DEF result, new
  <1>7. CASE result # old /\ old # store.statefulSet
    BY <1>2, <1>3, <1>5, <1>6, <1>7 DEF result
  <1>8. CASE ~(result # old /\ old # store.statefulSet)
    BY <1>2, <1>3, <1>4, <1>5, <1>6, <1>8 DEF result
  <1> QED BY <1>7, <1>8

\* The number of ready pods.
LEMMA ReadyTyped ==
  ASSUME NEW S \in SUBSET Pods
  PROVE  Cardinality(S) \in 0..MaxPods
  <1>1. IsFiniteSet(Pods) /\ Cardinality(Pods) = MaxPods
    BY PodsAssumption, FS_Interval DEF Pods
  <1>2. IsFiniteSet(S) /\ Cardinality(S) <= Cardinality(Pods)
    BY <1>1, FS_Subset
  <1> QED BY <1>1, <1>2, FS_CardinalityType, PodsAssumption

\* Every step keeps the objects well formed and every secret.
LEMMA StoreNext ==
  ASSUME TypesInv, [Next]_vars
  PROVE  /\ store' \in Objects /\ seen' \in Objects
         /\ store'.issued \subseteq store'.certificates
         /\ secrets' \subseteq Certificates /\ secrets \subseteq secrets'
  <1> USE DEF TypesInv, TypeOK
  <1>1. CASE StoreKept
    BY <1>1 DEF StoreKept
  <1>2. CASE reconcileStatefulSet
    BY <1>2, StatefulSetWritten DEF Objects
  <1>3. CASE ensureStatefulSetAbsent
    BY <1>3, StatefulSetTyped
    DEF ensureStatefulSetAbsent, Write, ProceedOnly, Retry, ControllerOnly,
        Objects
  <1>4. ASSUME NEW kind \in Informers, Sync(kind)
        PROVE  /\ store' \in Objects /\ seen' \in Objects
               /\ store'.issued \subseteq store'.certificates
               /\ secrets' = secrets
    <2>1. [store EXCEPT !.statefulSet.unseen = FALSE] \in Objects
      BY StatefulSetTyped DEF Objects
    <2>2. /\ store' \in Objects
          /\ store'.issued = store.issued
          /\ store'.certificates = store.certificates
      BY <1>4, <2>1 DEF Sync, Objects
    <2>3. seen' \in Objects
      BY <1>4, <2>2 DEF Sync, Objects
    <2> QED BY <1>4, <2>2, <2>3 DEF Sync
  <1>5. CASE Restart
    BY <1>5, StatefulSetTyped DEF Restart, Objects
  <1>6. CASE IssueCertificate
    BY <1>6 DEF IssueCertificate, Objects
  <1>7. CASE StatefulSetController
    <2>1. ASSUME NEW n \in 0..MaxPods
          PROVE  [store EXCEPT !.statefulSet = Unseen([@ EXCEPT !.ready = n])]
                   \in Objects
      BY StatefulSetTyped DEF Objects
    <2>2. 0 \in 0..MaxPods
      BY PodsAssumption
    <2>3. \E n \in 0..MaxPods :
            \/ store' = store
            \/ store' = [store EXCEPT !.statefulSet = Unseen([@ EXCEPT !.ready = n])]
      BY <1>7, <2>2, ReadyTyped DEF StatefulSetController
    <2>4. store' \in Objects
      BY <2>1, <2>3
    <2> QED BY <1>7, <2>3, <2>4 DEF StatefulSetController, Objects
  <1> QED BY <1>1, <1>2, <1>3, <1>4, <1>5, <1>6, <1>7, StoreCases

-----------------------------------------------------------------------------
\* What the steps do to the other variables.

\* Which steps write which variable.
Writers ==
  /\ \/ UNCHANGED <<cluster, pipes>>
     \/ AddFinalizer \/ RemoveFinalizer \/ CreateCluster \/ EditCluster
     \/ DeleteCluster \/ EditPipelines
  /\ \/ UNCHANGED pod
     \/ reconcileStatefulSet \/ sendApplyRequest \/ applyTunnelTargetMatches
     \/ RequestFails \/ MatchRequestFails \/ DeleteMatchFails
     \/ (\E p \in Pods : LosePod(p) \/ StartPod(p)) \/ StatefulSetController
  /\ UNCHANGED plans \/ StartReconcile \/ BuildPlan \/ cleanupPlan \/ Restart
  /\ UNCHANGED status \/ UpdateStatus \/ CreateCluster
  /\ UNCHANGED seen \/ Restart \/ \E kind \in Informers : Sync(kind)
  /\ UNCHANGED secrets \/ IssueCertificate

\* Every step is one of them or leaves the variable alone.
LEMMA WritersKnown == ASSUME [Next]_vars PROVE Writers
  <1>1. CASE UNCHANGED vars
    BY <1>1 DEF Writers, vars
  <1>2. CASE ReconcileStep
    <2>1. CASE AddFinalizer BY <2>1 DEF AddFinalizer, Writers
    <2>2. CASE RemoveFinalizer BY <2>2 DEF RemoveFinalizer, Writers
    <2>3. CASE BuildPlan BY <2>3 DEF BuildPlan, Writers
    <2>4. CASE cleanupPlan BY <2>4 DEF cleanupPlan, Writers
    <2>5. CASE reconcileStatefulSet BY <2>5 DEF reconcileStatefulSet, Writers
    <2>6. CASE sendApplyRequest BY <2>6 DEF sendApplyRequest, Writers
    <2>7. CASE applyTunnelTargetMatches
      BY <2>7
      DEF applyTunnelTargetMatches, Writers
    <2>8. CASE UpdateStatus BY <2>8 DEF UpdateStatus, Writers
    <2>9. CASE ControllerOnly BY <2>9 DEF ControllerOnly, Writers
    <2>10. CASE \/ reconcileHeadlessService \/ reconcileTunnelService
                \/ reconcileControllerCA \/ reconcileCertificates
                \/ reconcileTunnelCertificates \/ reconcileClientTLSCertificates
                \/ reconcileConfigMap \/ reconcilePrometheusServices \/ Distribute
      BY <2>10, <2>9
      DEF reconcileHeadlessService, reconcileTunnelService, ensureService,
          reconcileControllerCA, reconcileCertificates,
          reconcileTunnelCertificates, reconcileClientTLSCertificates,
          ensureCertificates, reconcileConfigMap, reconcilePrometheusServices,
          Distribute
    <2>11. CASE \/ ensureStatefulSetAbsent \/ ensureServiceAbsent
                \/ cleanupPrometheusServices \/ cleanupCertificates
                \/ cleanupTunnelCertificates \/ cleanupClientTLSCertificates
                \/ cleanupTunnelService \/ cleanupControllerCA
      BY <2>11, <2>9
      DEF ensureStatefulSetAbsent, ensureServiceAbsent,
          cleanupPrometheusServices, cleanupCertificates,
          cleanupTunnelCertificates, cleanupClientTLSCertificates,
          cleanupTunnelService, cleanupControllerCA, DeleteAll
    <2> QED
      BY <1>2, <2>1, <2>2, <2>3, <2>4, <2>5, <2>6, <2>7, <2>8, <2>10, <2>11
      DEF ReconcileStep
  <1>3. CASE StartReconcile BY <1>3 DEF StartReconcile, Writers
  <1>4. CASE Informer BY <1>4 DEF Informer, Sync, Writers
  <1>5. CASE Kubernetes
    BY <1>5
    DEF Kubernetes, IssueCertificate, CollectGarbage, StatefulSetController,
        StartPod, Writers
  <1>6. CASE \/ CallFails \/ createHTTPClientFails \/ RequestFails
             \/ MatchRequestFails \/ DeleteMatchFails \/ Restart
             \/ \E p \in Pods : LosePod(p)
    BY <1>6
    DEF CallFails, createHTTPClientFails, RequestFails, MatchRequestFails,
        DeleteMatchFails, Restart, LosePod, Writers
  <1>7. CASE CreateCluster \/ EditCluster \/ DeleteCluster \/ EditPipelines
    BY <1>7
    DEF CreateCluster, EditCluster, DeleteCluster, EditPipelines, Writers
  <1> QED BY <1>1, <1>2, <1>3, <1>4, <1>5, <1>6, <1>7 DEF Next, Reconcile

\* A step of the reconcile is done, and what that means for some of them.
Done ==
  /\ Busy
  /\ Head(worker.todo)
       \notin {"plan", "statefulSet", "distribute", "matches", "status",
                "addFinalizer"}
  /\ Head(worker.todo) = "apiCertificates" =>
       apiCertificates(worker.copy.spec) \subseteq seen.issued
  /\ Head(worker.todo) = "tunnelCertificates" =>
       tunnelCertificates(worker.copy.spec) \subseteq seen.issued
  /\ Head(worker.todo) = "clientCertificates" =>
       clientCertificates(worker.copy.spec) \subseteq seen.issued
  /\ Head(worker.todo) = "deleteStatefulSet" => ensureStatefulSetAbsent
  /\ Head(worker.todo) = "deleteHeadless" => ensureServiceAbsent
  /\ Head(worker.todo) = "deletePrometheus" => cleanupPrometheusServices
  /\ Head(worker.todo) = "dropPlan" => cleanupPlan
  /\ Head(worker.todo) = "headless" => reconcileHeadlessService
  /\ Head(worker.todo) = "tunnelService" => reconcileTunnelService
  /\ Head(worker.todo) = "prometheus" => reconcilePrometheusServices
  /\ Head(worker.todo) = "apply" => sendApplyRequest /\ Running(Serving)

Advances ==
  Done /\ Len(worker.todo) # 1 /\ worker' = [worker EXCEPT !.todo = Tail(@)]
Ends ==
  /\ worker' = Idle
  /\ \/ dirty' = TRUE \/ Restart \/ UpdateStatus
     \/ Done /\ Len(worker.todo) = 1

\* How the worker may change.
Moves ==
  \/ UNCHANGED worker \/ Ends \/ Advances
  \/ StartReconcile \/ BuildPlan \/ reconcileStatefulSet \/ Distribute
  \/ /\ Busy /\ Head(worker.todo) \in {"distribute", "apply", "matches"}
     /\ GiveUp
  \/ At("matches") /\ NextPod /\ (applyTunnelTargetMatches \/ DeleteMatchFails)

\* A refused service ends the reconcile.
LEMMA PrometheusProceeds ==
  ASSUME reconcilePrometheusServices
  PROVE  ProceedOnly \/ Retry
  BY DEF reconcilePrometheusServices

\* Every step of the system is one of these for the worker.
LEMMA MovesKnown ==
  ASSUME [Next]_vars
  PROVE  Moves
  <1>0. Ends => Moves
    BY DEF Moves
  <1>a. Retry => Moves
    BY <1>0, Zenon DEF Retry, Ends
  <1>b. Done /\ Proceed => Moves
    <2>1. CASE /\ Done /\ Len(worker.todo) # 1
               /\ worker' = [worker EXCEPT !.todo = Tail(@)]
      BY <2>1, Zenon DEF Advances, Moves
    <2>2. CASE Done /\ worker' = Idle /\ Len(worker.todo) = 1
      BY <1>0, <2>2, Zenon DEF Ends
    <2> QED BY <2>1, <2>2 DEF Proceed
  <1>1. CASE UNCHANGED vars
    BY <1>1 DEF Moves, vars
  <1>2. CASE ReconcileStep
    <2> USE <1>a, <1>b DEF At, Write, ProceedOnly, Done
    <2>1. CASE reconcileHeadlessService \/ reconcileTunnelService
      BY <2>1
      DEF reconcileHeadlessService, reconcileTunnelService, ensureService
    <2>2. CASE reconcileControllerCA
      BY <2>2 DEF reconcileControllerCA
    <2>3. CASE reconcileCertificates
      BY <2>3 DEF reconcileCertificates, ensureCertificates
    <2>4. CASE reconcileTunnelCertificates
      BY <2>4 DEF reconcileTunnelCertificates, ensureCertificates
    <2>5. CASE reconcileClientTLSCertificates
      BY <2>5 DEF reconcileClientTLSCertificates, ensureCertificates
    <2>6. CASE reconcileConfigMap
      BY <2>6 DEF reconcileConfigMap
    <2>7. CASE reconcilePrometheusServices
      BY <2>7, PrometheusProceeds DEF reconcilePrometheusServices
    <2>8. CASE ensureStatefulSetAbsent
      BY <2>8 DEF ensureStatefulSetAbsent
    <2>9. CASE ensureServiceAbsent
      BY <2>9 DEF ensureServiceAbsent
    <2>10. CASE cleanupPrometheusServices
      BY <2>10 DEF cleanupPrometheusServices, DeleteAll
    <2>11. CASE \/ cleanupCertificates \/ cleanupTunnelCertificates
                \/ cleanupClientTLSCertificates \/ cleanupTunnelService
      BY <2>11
      DEF cleanupCertificates, cleanupTunnelCertificates,
          cleanupClientTLSCertificates, cleanupTunnelService, DeleteAll
    <2>12. CASE cleanupControllerCA
      BY <2>12 DEF cleanupControllerCA
    <2>13. CASE cleanupPlan
      BY <2>13 DEF cleanupPlan
    <2>14. CASE RemoveFinalizer
      BY <2>14 DEF RemoveFinalizer
    <2>15. CASE AddFinalizer \/ UpdateStatus
      BY <1>0, <2>15, Zenon DEF AddFinalizer, UpdateStatus, Ends
    <2>16. CASE sendApplyRequest
      BY <2>16 DEF sendApplyRequest, Moves
    <2>17. CASE applyTunnelTargetMatches
      BY <2>17 DEF applyTunnelTargetMatches, Moves
    <2>18. CASE BuildPlan \/ reconcileStatefulSet \/ Distribute
      BY <2>18 DEF Moves
    <2> QED
      BY <1>2, <2>1, <2>2, <2>3, <2>4, <2>5, <2>6, <2>7, <2>8, <2>9, <2>10,
         <2>11, <2>12, <2>13, <2>14, <2>15, <2>16, <2>17, <2>18
      DEF ReconcileStep
  <1>3. CASE StartReconcile
    BY <1>3 DEF Moves
  <1>4. CASE Informer
    BY <1>4 DEF Informer, Sync, Moves
  <1>5. CASE Kubernetes
    BY <1>5
    DEF Kubernetes, IssueCertificate, CollectGarbage, StatefulSetController,
        StartPod, Moves
  <1>6. CASE CallFails
    BY <1>a, <1>6 DEF CallFails
  <1>7. CASE Restart
    <2>1. worker' = Idle
      BY <1>7 DEF Restart
    <2> QED BY <1>0, <1>7, <2>1, Zenon DEF Ends
  <1>8. CASE createHTTPClientFails \/ RequestFails \/ MatchRequestFails
             \/ DeleteMatchFails
    BY <1>8
    DEF createHTTPClientFails, RequestFails, MatchRequestFails,
        DeleteMatchFails, At, Moves
  <1>9. CASE \E p \in Pods : LosePod(p)
    BY <1>9 DEF LosePod, Moves
  <1>10. CASE CreateCluster \/ EditCluster \/ DeleteCluster \/ EditPipelines
    BY <1>10 DEF CreateCluster, EditCluster, DeleteCluster, EditPipelines, Moves
  <1> QED
    BY <1>1, <1>2, <1>3, <1>4, <1>5, <1>6, <1>7, <1>8, <1>9, <1>10
    DEF Next, Reconcile

\* The lists a reconcile works through.
LEMMA StartTyped ==
  ASSUME TypesInv, StartReconcile
  PROVE  /\ worker' \in Workers /\ worker'.copy = cluster
         /\ worker'.pods = {} /\ worker'.plan = NoPlan
         /\ \/ worker'.todo = LiveSteps(cluster.spec)
            \/ worker'.todo \in Seq(CleanupNames)
            \/ worker'.todo = <<"addFinalizer">>
  <1>0. cluster \in Clusters
    BY DEF TypesInv, TypeOK, Clusters
  <1>1. PICK todo : /\ worker' = [Idle EXCEPT !.copy = cluster, !.todo = todo]
                    /\ \/ todo = LiveSteps(cluster.spec)
                       \/ todo \in Seq(CleanupNames)
                       \/ todo = <<"addFinalizer">>
    BY CleanupStepsTyped DEF StartReconcile
  <1>2. todo \in Seq(StepNames)
    <2>1. CASE todo = LiveSteps(cluster.spec)
      BY <2>1, LiveStepsOrder
    <2>2. CASE todo \in Seq(CleanupNames)
      <3>1. CleanupNames \subseteq StepNames
        BY DEF CleanupNames, StepNames
      <3>2. \A i \in 1..Len(todo) : todo[i] \in StepNames
        BY <2>2, <3>1
      <3> QED BY <2>2, <3>2
    <2>3. CASE todo = <<"addFinalizer">>
      <3>1. "addFinalizer" \in StepNames
        BY DEF StepNames
      <3> QED BY <2>3, <3>1
    <2> QED BY <1>1, <2>1, <2>2, <2>3
  <1>3. Idle \in Workers /\ Idle.pods = {} /\ Idle.plan = NoPlan
    BY IdleTyped
  <1>4. worker' \in Workers
    BY <1>0, <1>1, <1>2, <1>3 DEF Workers
  <1>5. /\ worker'.todo = todo
        /\ worker'.copy = cluster
        /\ worker'.pods = {}
        /\ worker'.plan = NoPlan
    BY <1>0, <1>1, <1>2, <1>3 DEF Workers
  <1> QED BY <1>1, <1>4, <1>5

\* The steps of a round of requests.
RoundNames == {"apply", "matches", "status"}

\* A round has nothing to do with the stateful set.
LEMMA RoundTyped ==
  /\ \A pods : ApplySteps(pods) \in Seq(RoundNames)
  /\ <<"status">> \in Seq(RoundNames)
  /\ \A todo \in Seq(RoundNames) :
       /\ todo \in Seq(StepNames)
       /\ \A name, first : name \notin RoundNames => Precedes(first, name, todo)
       /\ ~Mentions(todo, "statefulSet")
  <1>1. RoundNames \subseteq StepNames /\ "statefulSet" \notin RoundNames
    BY DEF RoundNames, StepNames
  <1>2. /\ "apply" \in RoundNames
        /\ "matches" \in RoundNames
        /\ "status" \in RoundNames
    BY DEF RoundNames
  <1>3. /\ <<"status">> \in Seq(RoundNames)
        /\ <<"apply", "matches", "status">> \in Seq(RoundNames)
    BY <1>2
  <1>4. ASSUME NEW todo \in Seq(RoundNames)
        PROVE  /\ todo \in Seq(StepNames)
               /\ \A name, first : name \notin RoundNames => Precedes(first, name, todo)
               /\ ~Mentions(todo, "statefulSet")
    <2>1. \A i \in 1..Len(todo) : todo[i] \in RoundNames /\ todo[i] \in StepNames
      BY <1>1
    <2>2. todo \in Seq(StepNames)
      BY <2>1
    <2>3. ~Mentions(todo, "statefulSet")
      BY <2>1, <1>1 DEF Mentions
    <2>4. ASSUME NEW name, NEW first, name \notin RoundNames
          PROVE  Precedes(first, name, todo)
      BY <2>1, <2>4 DEF Precedes
    <2> QED BY <2>2, <2>3, <2>4
  <1> QED BY <1>3, <1>4 DEF ApplySteps

\* What Distribute hands to the round.
LEMMA DistributeTyped ==
  ASSUME TypesInv, Distribute
  PROVE  \/ Retry
         \/ \E d \in Shares, pods \in SUBSET Pods :
              /\ pods \subseteq Ordinals(worker.set)
              /\ worker' = [worker EXCEPT !.share = d, !.pods = pods,
                                          !.todo = ApplySteps(pods)]
  <1> SUFFICES ASSUME ~Retry
               PROVE  \E d \in Shares, pods \in SUBSET Pods :
              /\ pods \subseteq Ordinals(worker.set)
              /\ worker' = [worker EXCEPT !.share = d, !.pods = pods,
                                          !.todo = ApplySteps(pods)]
    OBVIOUS
  <1> DEFINE n == worker.set.replicas
  <1>1. worker.plan \in SUBSET Pipes
    BY PlanAtHand DEF Distribute
  <1>2. TargetsOf(worker.plan) \in SUBSET TargetsOf(Pipes)
    BY <1>1, PlanTyped
  <1>3. n \in 0..MaxPods
    BY DEF TypesInv, PlanFirst, Workers, StatefulSets
  <1>4. PICK d \in Distributions(worker.copy.spec, worker.plan, n) :
          worker' = [worker EXCEPT
            !.share = d, !.pods = UNION {d[t] : t \in DOMAIN d},
            !.todo = ApplySteps(UNION {d[t] : t \in DOMAIN d})]
    BY DEF Distribute
  <1>5. d \in [TargetsOf(worker.plan) -> SUBSET (0..(n - 1))]
    BY <1>4 DEF Distributions
  <1>6. 0..(n - 1) \subseteq Pods
    BY <1>3, PodsAssumption DEF Pods
  <1>7. d \in [TargetsOf(worker.plan) -> SUBSET Pods]
    BY <1>5, <1>6
  <1>8. d \in Shares
    BY <1>2, <1>7 DEF Shares
  <1>9. UNION {d[t] : t \in DOMAIN d} \subseteq 0..(n - 1)
    BY <1>5
  <1> QED BY <1>4, <1>6, <1>8, <1>9 DEF Ordinals

NamesWithPlan == {"configMap", "prometheus", "distribute", "matches"}

\* A worker whose list has one step less.
LEMMA TailTyped ==
  ASSUME PlanFirst, Busy
  PROVE  /\ Tail(worker.todo) \in Seq(StepNames)
         /\ Head(worker.todo) # "plan" =>
              \A name \in NamesWithPlan :
                worker.plan \subseteq Pipes \/ Precedes("plan", name, Tail(worker.todo))
         /\ Mentions(Tail(worker.todo), "statefulSet") => worker.pods = {}
  <1>1. worker.todo \in Seq(StepNames) /\ worker.todo # <<>>
    BY DEF PlanFirst, Workers, Busy
  <1>2. Tail(worker.todo) \in Seq(StepNames)
    BY <1>1
  <1>3. ASSUME Head(worker.todo) # "plan", NEW name \in NamesWithPlan,
               ~(worker.plan \subseteq Pipes)
        PROVE  Precedes("plan", name, Tail(worker.todo))
    <2>1. Precedes("plan", name, worker.todo)
      BY <1>3 DEF PlanFirst, NamesWithPlan
    <2> QED BY <1>1, <1>3, <2>1, PrecedesTail
  <1>4. Mentions(Tail(worker.todo), "statefulSet") => worker.pods = {}
    BY <1>1, MentionsTail DEF PlanFirst
  <1> QED BY <1>2, <1>3, <1>4

\* The steps keep their order, and every list starts with it.
LEMMA WorkerNext ==
  ASSUME TypesInv, [Next]_vars
  PROVE  PlanFirst' /\ worker'.pods \subseteq Ordinals(worker'.set)
  <1> DEFINE Goal == PlanFirst' /\ worker'.pods \subseteq Ordinals(worker'.set)
  <1> USE DEF NamesWithPlan
  <1>0. /\ worker \in Workers /\ PlanFirst
        /\ worker.pods \subseteq Ordinals(worker.set)
        /\ worker.todo \in Seq(StepNames) /\ (Busy <=> worker.todo # <<>>)
    BY DEF TypesInv, TypeOK, PlanFirst, Workers, Busy
  <1>1. CASE UNCHANGED worker
    BY <1>0, <1>1 DEF PlanFirst, Busy
  <1>2. CASE worker' = Idle
    BY <1>2, IdleTyped DEF PlanFirst, Busy, Precedes, Mentions
  <1>3. CASE Advances
    <2>1. /\ worker' = [worker EXCEPT !.todo = Tail(worker.todo)]
          /\ Head(worker.todo) # "plan" /\ Busy
      BY <1>3 DEF Advances, Done
    <2>2. /\ worker' \in Workers /\ worker'.todo = Tail(worker.todo)
          /\ worker'.pods = worker.pods /\ worker'.plan = worker.plan
          /\ worker'.set = worker.set /\ worker'.copy = worker.copy
      BY <1>0, <2>1, TailTyped DEF Workers
    <2> QED BY <1>0, <2>1, <2>2, TailTyped DEF PlanFirst, Busy
  <1>4. CASE StartReconcile
    <2>1. cluster \in Clusters
      BY DEF TypesInv, TypeOK, Clusters
    <2>2. CASE worker'.todo = LiveSteps(cluster.spec)
      BY <1>4, <2>1, <2>2, StartTyped, LiveStepsOrder DEF PlanFirst, Busy
    <2>3. CASE worker'.todo \in Seq(CleanupNames)
      <3>1. \A name \in NamesWithPlan \cup {"statefulSet"} : name \notin CleanupNames
        BY DEF CleanupNames
      <3>2. \A name \in NamesWithPlan : Precedes("plan", name, worker'.todo)
        BY <2>3, <3>1, PrecedesVacuously
      <3>3. ~Mentions(worker'.todo, "statefulSet")
        BY <2>3, <3>1, PrecedesVacuously
      <3> QED BY <1>4, <2>1, <3>2, <3>3, StartTyped DEF PlanFirst, Busy
    <2>4. CASE worker'.todo = <<"addFinalizer">>
      <3>1. \A name \in NamesWithPlan : Precedes("plan", name, worker'.todo)
        BY <2>4 DEF Precedes
      <3>2. ~Mentions(worker'.todo, "statefulSet")
        BY <2>4 DEF Mentions
      <3> QED BY <1>4, <2>1, <3>1, <3>2, StartTyped DEF PlanFirst, Busy
    <2> QED BY <1>4, <2>2, <2>3, <2>4, StartTyped
  <1>5. CASE BuildPlan
    <2> DEFINE plan == planOf(pipes, worker.copy.spec)
    <2>1. plan \in SUBSET Pipes
      BY PlanTyped DEF TypesInv, TypeOK
    <2>2. /\ worker' = [worker EXCEPT !.todo = Tail(worker.todo), !.plan = plan]
          /\ Busy
      BY <1>5 DEF BuildPlan, At
    <2> HIDE DEF plan
    <2>3. /\ worker' \in Workers /\ worker'.todo = Tail(worker.todo)
          /\ worker'.pods = worker.pods /\ worker'.plan = plan
          /\ worker'.set = worker.set /\ worker'.copy = worker.copy
      BY <1>0, <2>1, <2>2, TailTyped DEF Workers
    <2> QED BY <1>0, <2>1, <2>2, <2>3, TailTyped DEF PlanFirst, Busy
  <1>6. CASE reconcileStatefulSet
    <2>1. At("statefulSet") /\ Busy
      BY <1>6 DEF reconcileStatefulSet, At
    <2>2. worker.pods = {}
      <3>1. Mentions(worker.todo, "statefulSet")
        <4>1. 1 \in 1..Len(worker.todo) /\ worker.todo[1] = "statefulSet"
          BY <1>0, <2>1 DEF At
        <4> QED BY <4>1 DEF Mentions
      <3> QED BY <1>0, <3>1 DEF PlanFirst
    <2>3. ASSUME NEW set \in StatefulSets,
                 worker' = [worker EXCEPT !.todo = Tail(worker.todo), !.set = set]
          PROVE  Goal
      <3>1. /\ worker' \in Workers /\ worker'.todo = Tail(worker.todo)
            /\ worker'.pods = {} /\ worker'.plan = worker.plan
            /\ worker'.copy = worker.copy
        BY <1>0, <2>1, <2>2, <2>3, TailTyped DEF Workers
      <3>2. Head(worker.todo) # "plan"
        BY <2>1 DEF At
      <3> QED BY <1>0, <2>1, <3>1, <3>2, TailTyped DEF PlanFirst, Busy
    <2> QED BY <1>2, <1>6, <2>3, StatefulSetWritten DEF Retry
  <1>7. CASE Distribute
    <2>1. ASSUME NEW d \in Shares, NEW pods \in SUBSET Pods,
                 pods \subseteq Ordinals(worker.set),
                 worker' = [worker EXCEPT !.share = d, !.pods = pods,
                                          !.todo = ApplySteps(pods)]
          PROVE  Goal
      <3>1. worker.plan \in SUBSET Pipes
        BY <1>7, PlanAtHand DEF Distribute
      <3>2. /\ ApplySteps(pods) \in Seq(StepNames)
            /\ ~Mentions(ApplySteps(pods), "statefulSet")
        BY RoundTyped
      <3>3. /\ worker' \in Workers /\ worker'.todo = ApplySteps(pods)
            /\ worker'.pods = pods /\ worker'.plan = worker.plan
            /\ worker'.set = worker.set /\ worker'.copy = worker.copy
        BY <1>0, <2>1, <3>2 DEF Workers
      <3>4. Busy
        BY <1>7 DEF Distribute, At
      <3> QED BY <1>0, <2>1, <3>1, <3>2, <3>3, <3>4 DEF PlanFirst
    <2> QED BY <1>2, <1>7, <2>1, DistributeTyped DEF Retry
  <1>8. CASE Busy /\ GiveUp
    <2>1. /\ <<"status">> \in Seq(StepNames)
          /\ ~Mentions(<<"status">>, "statefulSet")
      BY RoundTyped
    <2>2. /\ worker' \in Workers /\ worker'.todo = <<"status">>
          /\ worker'.pods = worker.pods /\ worker'.plan = worker.plan
          /\ worker'.set = worker.set /\ worker'.copy = worker.copy
      BY <1>0, <1>8, <2>1 DEF GiveUp, Workers
    <2>3. \A name \in NamesWithPlan : Precedes("plan", name, <<"status">>)
      BY DEF Precedes
    <2> QED BY <1>0, <1>8, <2>1, <2>2, <2>3 DEF PlanFirst
  <1>9. CASE At("matches") /\ NextPod
    <2> DEFINE left == worker.pods \ {Serving}
    <2>1. /\ ApplySteps(left) \in Seq(StepNames)
          /\ ~Mentions(ApplySteps(left), "statefulSet")
      BY RoundTyped
    <2>2. /\ worker' \in Workers /\ worker'.todo = ApplySteps(left)
          /\ worker'.pods = left /\ worker'.plan = worker.plan
          /\ worker'.set = worker.set /\ worker'.copy = worker.copy
      BY <1>0, <1>9, <2>1 DEF NextPod, Workers
    <2>3. worker.plan \in SUBSET Pipes
      BY <1>9, PlanAtHand
    <2> QED BY <1>0, <1>9, <2>1, <2>2, <2>3 DEF PlanFirst, At
  <1> QED
    BY <1>1, <1>2, <1>3, <1>4, <1>5, <1>6, <1>7, <1>8, <1>9, MovesKnown
    DEF Moves, Ends

\* What is known of a pod.
PodRecs ==
  [state : {"absent", "up", "outdated", "lost"},
   plan : (SUBSET Pipes) \cup {NoPlan}, targets : SUBSET TargetsOf(Pipes),
   matches : Matches]

\* Pods are changed field by field.
LEMMA PodTyped ==
  /\ NoPod \in PodRecs
  /\ \A m \in Matches : [NoPod EXCEPT !.state = "up", !.matches = m] \in PodRecs
  /\ [NoPod EXCEPT !.state = "lost"] \in PodRecs
  /\ \A r \in PodRecs :
       /\ r.matches \in Matches
       /\ [r EXCEPT !.state = "outdated"] \in PodRecs
       /\ \A m \in Matches : [r EXCEPT !.matches = m] \in PodRecs
       /\ \A plan \in (SUBSET Pipes) \cup {NoPlan}, ts \in SUBSET TargetsOf(Pipes) :
            [r EXCEPT !.plan = plan, !.targets = ts] \in PodRecs
  BY DEF NoPod, PodRecs, Matches

\* An apply request leaves a pod with targets of pipelines.
LEMMA ConfigureTyped ==
  ASSUME TypesInv, NEW p
  PROVE  Configure(p) \in [Pods -> PodRecs]
  <1>1. pod \in [Pods -> PodRecs]
    BY DEF TypesInv, TypeOK, PodRecs
  <1>2. worker.plan \in (SUBSET Pipes) \cup {NoPlan} /\ worker.share \in Shares
    BY DEF TypesInv, PlanFirst, Workers
  <1> DEFINE ts == Share(worker.share, p)
  <1>3. ts \in SUBSET TargetsOf(Pipes)
    BY <1>2 DEF Shares, Share
  <1> HIDE DEF ts
  <1>4. [pod EXCEPT ![p] = [@ EXCEPT !.plan = worker.plan, !.targets = ts]]
          \in [Pods -> PodRecs]
    BY <1>1, <1>2, <1>3, PodTyped
  <1> QED BY <1>4 DEF Configure, ts

\* Every step keeps the pods well formed.
LEMMA PodsNext ==
  ASSUME TypesInv, [Next]_vars
  PROVE  pod' \in [Pods -> PodRecs]
  <1>1. pod \in [Pods -> PodRecs]
    BY DEF TypesInv, TypeOK, PodRecs
  <1>2. CASE sendApplyRequest \/ RequestFails
    BY <1>1, <1>2, ConfigureTyped DEF sendApplyRequest, RequestFails
  <1>3. CASE applyTunnelTargetMatches \/ MatchRequestFails \/ DeleteMatchFails
    <2> DEFINE desired == MatchesOf(worker.plan)
    <2>1. desired \in Matches
      BY <1>3, PlanAtHand, PlanTyped
      DEF applyTunnelTargetMatches, MatchRequestFails, DeleteMatchFails
    <2> HIDE DEF desired
    <2>2. ASSUME NEW sent \in SUBSET desired
          PROVE  [pod EXCEPT ![Serving].matches = (@ \cap desired) \cup sent]
                   \in [Pods -> PodRecs]
      <3>1. \A m : (m \cap desired) \cup sent \in Matches
        BY <2>1 DEF Matches
      <3> QED BY <1>1, <3>1, PodTyped
    <2>3. [pod EXCEPT ![Serving].matches = desired] \in [Pods -> PodRecs]
      BY <1>1, <2>1, PodTyped
    <2>4. [pod EXCEPT ![Serving].matches = @ \cup desired] \in [Pods -> PodRecs]
      <3>1. \A m \in Matches : m \cup desired \in Matches
        BY <2>1 DEF Matches
      <3> QED BY <1>1, <3>1, PodTyped
    <2> QED
      BY <1>1, <1>3, <2>2, <2>3, <2>4
      DEF applyTunnelTargetMatches, MatchRequestFails, DeleteMatchFails, desired
  <1>4. ASSUME NEW p \in Pods, LosePod(p) PROVE pod' \in [Pods -> PodRecs]
    BY <1>1, <1>4, PodTyped DEF LosePod
  <1>5. ASSUME NEW p \in Pods, StartPod(p) PROVE pod' \in [Pods -> PodRecs]
    <2>1. store.configMap \in Matches
      BY <1>5 DEF StartPod, TypesInv, TypeOK, Objects
    <2> QED BY <1>1, <1>5, <2>1, PodTyped DEF StartPod
  <1>6. CASE StatefulSetController
    BY <1>1, <1>6, PodTyped DEF StatefulSetController
  <1>7. CASE reconcileStatefulSet
    BY <1>1, <1>7, StatefulSetWritten, PodTyped
  <1> QED
    BY <1>1, <1>2, <1>3, <1>4, <1>5, <1>6, <1>7, WritersKnown DEF Writers

\* Every step keeps the cluster and its pipelines well formed.
LEMMA ClusterNext ==
  ASSUME TypesInv, [Next]_vars
  PROVE  cluster' \in Clusters /\ pipes' \subseteq Pipes
  <1>1. cluster \in Clusters /\ pipes \subseteq Pipes
    BY DEF TypesInv, TypeOK, Clusters
  <1>2. CASE AddFinalizer
    BY <1>1, <1>2 DEF AddFinalizer, Clusters
  <1>3. CASE RemoveFinalizer \/ DeleteCluster
    BY <1>1, <1>3, IdleTyped DEF RemoveFinalizer, DeleteCluster, Clusters
  <1>5. CASE CreateCluster
    <2>1. PICK spec \in Specs :
            cluster' = [phase |-> "live", finalizer |-> FALSE, spec |-> spec]
      BY <1>5 DEF CreateCluster
    <2> QED BY <1>1, <1>5, <2>1 DEF CreateCluster, Clusters
  <1>6. CASE EditCluster
    BY <1>1, <1>6 DEF EditCluster, Clusters
  <1>4. CASE EditPipelines
    BY <1>1, <1>4 DEF EditPipelines
  <1> QED BY <1>1, <1>2, <1>3, <1>4, <1>5, <1>6, WritersKnown DEF Writers

\* And the plan in the cache.
LEMMA PlansNext ==
  ASSUME TypesInv, [Next]_vars
  PROVE  plans' \in (SUBSET Pipes) \cup {NoPlan}
  <1>1. plans \in (SUBSET Pipes) \cup {NoPlan} /\ pipes \in SUBSET Pipes
    BY DEF TypesInv, TypeOK
  <1>2. CASE StartReconcile \/ cleanupPlan \/ Restart
    BY <1>1, <1>2 DEF StartReconcile, cleanupPlan, Restart
  <1>3. CASE BuildPlan
    BY <1>1, <1>3, PlanTyped DEF BuildPlan
  <1> QED BY <1>1, <1>2, <1>3, WritersKnown DEF Writers

\* And the conditions.
LEMMA StatusNext ==
  ASSUME TypesInv, [Next]_vars
  PROVE  status' \in [applied : BOOLEAN, exhausted : BOOLEAN, written : BOOLEAN]
  <1>1. status \in [applied : BOOLEAN, exhausted : BOOLEAN, written : BOOLEAN]
    BY DEF TypesInv, TypeOK
  <1>2. CASE UpdateStatus
    <2>1. CASE status' = [status EXCEPT !.written = FALSE]
      BY <1>1, <2>1
    <2>2. CASE status' = [applied |-> ~worker.failed, written |-> TRUE,
                          exhausted |-> ~worker.failed /\ LeftOut(worker.share) # {}]
      <3>1. (~worker.failed) \in BOOLEAN
            /\ (~worker.failed /\ LeftOut(worker.share) # {}) \in BOOLEAN
        BY Zenon
      <3> QED BY <2>2, <3>1
    <2> QED BY <1>2, <2>1, <2>2, Zenon DEF UpdateStatus
  <1>3. CASE CreateCluster
    BY <1>3 DEF CreateCluster, NoStatus
  <1> QED BY <1>1, <1>2, <1>3, WritersKnown DEF Writers

\* How the queue may change.
Queued ==
  \/ UNCHANGED dirty
  \/ dirty' = TRUE
  \/ dirty' = FALSE /\ StartReconcile
  \/ Restart \/ UpdateStatus \/ \E kind \in Informers : Sync(kind)

\* Every step is one of these for the queue.
LEMMA QueuedKnown == ASSUME [Next]_vars PROVE Queued
  <1>1. CASE UNCHANGED vars
    BY <1>1, Zenon DEF Queued, vars
  <1>2. CASE ReconcileStep
    <2>1. CASE ProceedOnly \/ Retry
       BY <2>1, Zenon DEF ProceedOnly, Retry, Queued
    <2>2. CASE \/ reconcileHeadlessService \/ reconcileTunnelService
               \/ reconcileControllerCA \/ reconcileConfigMap
               \/ ensureStatefulSetAbsent \/ ensureServiceAbsent
       BY <2>1, <2>2, Zenon
       DEF reconcileHeadlessService, reconcileTunnelService, ensureService,
           reconcileControllerCA, reconcileConfigMap, ensureStatefulSetAbsent,
           ensureServiceAbsent, Write
    <2>3. CASE \/ reconcileCertificates \/ reconcileTunnelCertificates
               \/ reconcileClientTLSCertificates
       BY <2>1, <2>3, Zenon
       DEF reconcileCertificates, reconcileTunnelCertificates,
           reconcileClientTLSCertificates, ensureCertificates
    <2>4. CASE reconcilePrometheusServices
       BY <2>1, <2>4, PrometheusProceeds, Zenon
    <2>5. CASE \/ cleanupPrometheusServices \/ cleanupCertificates
               \/ cleanupTunnelCertificates \/ cleanupClientTLSCertificates
               \/ cleanupTunnelService
      BY <2>1, <2>5, Zenon
      DEF cleanupPrometheusServices, cleanupCertificates,
          cleanupTunnelCertificates, cleanupClientTLSCertificates,
          cleanupTunnelService, DeleteAll
    <2>6. CASE cleanupControllerCA \/ cleanupPlan \/ RemoveFinalizer \/ AddFinalizer
       BY <2>1, <2>6, Zenon
       DEF cleanupControllerCA, cleanupPlan, RemoveFinalizer, AddFinalizer
    <2>7. CASE UpdateStatus
       BY <2>7, Zenon DEF Queued
    <2>8. CASE sendApplyRequest \/ applyTunnelTargetMatches \/ BuildPlan 
       BY <2>8, Zenon
       DEF sendApplyRequest, applyTunnelTargetMatches, BuildPlan, Queued
    <2>9. CASE reconcileStatefulSet
       BY <2>1, <2>9, Zenon DEF reconcileStatefulSet, Queued
    <2>10. CASE Distribute
       BY <2>1, <2>10, Zenon DEF Distribute, Queued
    <2> QED
      BY <1>2, <2>2, <2>3, <2>4, <2>5, <2>6, <2>7, <2>8, <2>9, <2>10
      DEF ReconcileStep
  <1>3. CASE StartReconcile BY <1>3, Zenon DEF StartReconcile, Queued
  <1>4. CASE Informer BY <1>4, Zenon DEF Informer, Queued
  <1>5. CASE Kubernetes
    BY <1>5, Zenon
    DEF Kubernetes, IssueCertificate, CollectGarbage, StatefulSetController,
        StartPod, Queued
  <1>6. CASE CallFails \/ Restart
    BY <1>6, Zenon DEF CallFails, Retry, Queued
  <1>7. CASE createHTTPClientFails \/ RequestFails \/ MatchRequestFails
       \/ DeleteMatchFails
    BY <1>7, Zenon
    DEF createHTTPClientFails, RequestFails, MatchRequestFails,
        DeleteMatchFails, Queued
  <1>8. CASE \E p \in Pods : LosePod(p)
    BY <1>8, Zenon DEF LosePod, Queued
  <1>9. CASE CreateCluster \/ EditCluster \/ DeleteCluster \/ EditPipelines
    BY <1>9, Zenon
    DEF CreateCluster, EditCluster, DeleteCluster, EditPipelines, Edit, Queued
  <1> QED
    BY <1>1, <1>2, <1>3, <1>4, <1>5, <1>6, <1>7, <1>8, <1>9, Zenon
    DEF Next, Reconcile

\* And the queue.
LEMMA QueueNext ==
  ASSUME TypesInv, [Next]_vars
  PROVE  dirty' \in BOOLEAN
  <1>1. dirty \in BOOLEAN
    BY DEF TypesInv, TypeOK
  <1>2. CASE Restart
    BY <1>2, Zenon DEF Restart
  <1>3. CASE UpdateStatus
    BY <1>3, Zenon DEF UpdateStatus
  <1>4. CASE \E kind \in Informers : Sync(kind)
    BY <1>4, Zenon DEF Sync
  <1> QED BY <1>1, <1>2, <1>3, <1>4, QueuedKnown, Zenon DEF Queued

\* Types and the order of the steps are kept by every step.
LEMMA TypesNext ==
  ASSUME TypesInv, [Next]_vars
  PROVE  TypesInv'
  <1>1. pod' \in [Pods -> PodRecs]
    BY PodsNext
  <1>2. cluster' \in Clusters /\ pipes' \subseteq Pipes
    BY ClusterNext
  <1>3. dirty' \in BOOLEAN
    BY QueueNext
  <1>4. PlanFirst' /\ worker'.pods \subseteq Ordinals(worker'.set)
    BY WorkerNext
  <1>5. TypeOK'
    BY <1>1, <1>2, <1>3, <1>4, StoreNext, PlansNext, StatusNext
    DEF TypeOK, PodRecs, Clusters
  <1> QED BY <1>4, <1>5 DEF TypesInv

\* They hold at the start.
LEMMA TypesInit == Init => TypesInv
  <1> SUFFICES ASSUME Init PROVE TypesInv
    OBVIOUS
  <1>1. dirty \in BOOLEAN
    BY Zenon DEF Init
  <1>2. status \in [applied : BOOLEAN, exhausted : BOOLEAN, written : BOOLEAN]
    BY DEF Init, NoStatus
  <1>3. pod \in [Pods -> PodRecs]
    BY PodTyped DEF Init
  <1>4. /\ store \in Objects /\ seen \in Objects /\ store.issued = {}
        /\ store.certificates = {} /\ secrets = {} 
    BY IdleTyped DEF Init, NothingStored
  <1>5. /\ cluster \in Clusters
        /\ pipes \subseteq Pipes
        /\ plans \in (SUBSET Pipes) \cup {NoPlan}
    BY IdleTyped, PipesAssumption DEF Init
  <1>6. worker \in Workers /\ worker.pods = {} /\ worker.todo = <<>>
    BY IdleTyped DEF Init
  <1>7. TypeOK
    BY <1>1, <1>2, <1>3, <1>4, <1>5, <1>6 DEF TypeOK, PodRecs, Clusters
  <1>8. PlanFirst
    BY <1>6 DEF PlanFirst, Busy, Mentions, Precedes
  <1> QED BY <1>7, <1>8 DEF TypesInv

\* Whatever users, faults and informers do between two steps of a reconcile,
\* the objects, the pods and the plan cache keep their shape: in particular no
\* step uses a plan before it is built, and a round serves replicas only.
THEOREM ClusterTypeCorrect == Spec => []TypeOK
  <1>1. TypesInv => TypeOK
    BY DEF TypesInv
  <1>2. TypesInv /\ [Next]_vars => TypesInv'
    BY TypesNext
  <1> QED BY <1>1, <1>2, TypesInit, PTL DEF Spec

-----------------------------------------------------------------------------
\* Certificates come first.

\* A certificate that was issued has its secret.
LEMMA SecretsNext ==
  ASSUME TypesInv, SecretsInv, [Next]_vars
  PROVE  store'.issued \subseteq secrets' /\ seen'.issued \subseteq secrets'
  <1>0. /\ store.issued \subseteq secrets /\ seen.issued \subseteq secrets
        /\ secrets \subseteq secrets' /\ store \in Objects /\ seen \in Objects
    BY StoreNext DEF SecretsInv, TypesInv, TypeOK
  <1>1. CASE StoreKept
    BY <1>0, <1>1 DEF StoreKept
  <1>2. CASE reconcileStatefulSet
    BY <1>0, <1>2, StatefulSetWritten DEF Objects
  <1>3. CASE ensureStatefulSetAbsent
    BY <1>0, <1>3
    DEF ensureStatefulSetAbsent, Write, ControllerOnly, Objects
  <1>4. CASE \E kind \in Informers : Sync(kind)
    <2>1. PICK kind \in Informers : Sync(kind)
      BY <1>4
    <2>2. store'.issued = store.issued
      BY <1>0, <2>1 DEF Sync, Objects
    <2>3. seen'.issued \in {seen.issued, store'.issued}
      BY <1>0, <2>1 DEF Sync, Objects
    <2> QED BY <1>0, <2>2, <2>3
  <1>5. CASE Restart
    BY <1>0, <1>5 DEF Restart, Objects
  <1>6. CASE IssueCertificate
    BY <1>0, <1>6 DEF IssueCertificate, Objects
  <1>7. CASE StatefulSetController
    BY <1>0, <1>7 DEF StatefulSetController, Objects
  <1> QED BY <1>1, <1>2, <1>3, <1>4, <1>5, <1>6, <1>7, StoreCases

\* The certificates of the spec are awaited before the stateful set is written.
LEMMA AwaitedNext ==
  ASSUME TypesInv, SecretsInv, [Next]_vars, Busy', NEW step \in CertificateSteps
  PROVE  \/ AwaitedBy(step, worker'.copy.spec) \subseteq secrets'
         \/ Precedes(step, "statefulSet", worker'.todo)
  <1> DEFINE Goal == \/ AwaitedBy(step, worker'.copy.spec) \subseteq secrets'
                     \/ Precedes(step, "statefulSet", worker'.todo)
  <1>0. /\ secrets \subseteq secrets' /\ worker \in Workers
        /\ worker.todo \in Seq(StepNames) /\ (Busy <=> worker.todo # <<>>)
    BY StoreNext DEF TypesInv, PlanFirst, Workers, Busy
  <1>1. CASE UNCHANGED worker
    BY <1>0, <1>1 DEF SecretsInv, Busy
  <1>2. CASE Ends
    BY <1>2, IdleTyped DEF Ends, Busy
  <1>3. ASSUME Busy, worker'.copy = worker.copy, worker'.todo = Tail(worker.todo),
               Head(worker.todo) = step =>
                 AwaitedBy(step, worker.copy.spec) \subseteq seen.issued
        PROVE  Goal
    <2>1. CASE AwaitedBy(step, worker.copy.spec) \subseteq secrets
      BY <1>0, <1>3, <2>1
    <2>2. CASE Precedes(step, "statefulSet", worker.todo) /\ Head(worker.todo) # step
      BY <1>0, <1>3, <2>2, PrecedesTail
    <2>3. CASE Head(worker.todo) = step
      BY <1>0, <1>3, <2>3 DEF SecretsInv
    <2> QED BY <1>3, <2>1, <2>2, <2>3 DEF SecretsInv
  <1>4. CASE Advances
    <2>1. worker'.copy = worker.copy /\ worker'.todo = Tail(worker.todo)
      BY <1>0, <1>4 DEF Advances, Workers
    <2> QED BY <1>3, <1>4, <2>1 DEF Advances, Done, AwaitedBy, CertificateSteps
  <1>5. CASE BuildPlan \/ reconcileStatefulSet
    <2>1. /\ Busy /\ Head(worker.todo) \notin CertificateSteps
          /\ worker'.copy = worker.copy /\ worker'.todo = Tail(worker.todo)
      <3>1. CASE BuildPlan
        BY <1>0, <3>1 DEF BuildPlan, At, Workers, CertificateSteps
      <3>2. CASE reconcileStatefulSet
        <4>1. worker' # Idle
          BY IdleTyped DEF Busy
        <4>2. worker' = [worker EXCEPT !.todo = Tail(@),
                           !.set = ResultOf(seen.statefulSet, worker.copy.spec)]
          BY <3>2, <4>1, StatefulSetWritten DEF Retry
        <4>3. At("statefulSet")
          BY <3>2 DEF reconcileStatefulSet
        <4> QED BY <1>0, <4>2, <4>3 DEF At, Workers, CertificateSteps
      <3> QED BY <1>5, <3>1, <3>2
    <2> QED BY <1>3, <2>1
  <1>6. CASE StartReconcile
    <2>1. CASE worker'.todo = LiveSteps(cluster.spec)
      <3>1. worker'.copy.spec = cluster.spec
        BY <1>6, StartTyped
      <3> QED
        BY <2>1, <3>1, LiveStepsOrder
        DEF AwaitedBy, CertificateSteps, apiCertificates, tunnelCertificates,
            clientCertificates
    <2>2. CASE worker'.todo \in Seq(CleanupNames)
      <3>1. "statefulSet" \notin CleanupNames
        BY DEF CleanupNames
      <3> QED BY <2>2, <3>1, PrecedesVacuously
    <2>3. CASE worker'.todo = <<"addFinalizer">>
      BY <2>3 DEF Precedes
    <2> QED BY <1>6, <2>1, <2>2, <2>3, StartTyped
  <1>7. CASE Distribute \/ (Busy /\ GiveUp) \/ (At("matches") /\ NextPod)
    <2>1. worker'.todo \in Seq(RoundNames)
      <3>1. worker' # Idle
        BY IdleTyped DEF Busy
      <3>2. CASE Distribute
        <4>1. PICK d \in Shares, pods \in SUBSET Pods :
                worker' = [worker EXCEPT !.share = d, !.pods = pods,
                                         !.todo = ApplySteps(pods)]
          BY <3>1, <3>2, DistributeTyped DEF Retry
        <4>2. worker'.todo = ApplySteps(pods)
          BY <1>0, <4>1 DEF Workers
        <4> QED BY <4>2, RoundTyped
      <3>3. CASE GiveUp
        BY <1>0, <3>3, RoundTyped DEF GiveUp, Workers
      <3>4. CASE NextPod
        BY <1>0, <3>4, RoundTyped DEF NextPod, Workers
      <3> QED BY <1>7, <3>2, <3>3, <3>4
    <2>2. "statefulSet" \notin RoundNames
      BY DEF RoundNames
    <2> QED BY <2>1, <2>2, RoundTyped
  <1> QED BY <1>1, <1>2, <1>4, <1>5, <1>6, <1>7, MovesKnown DEF Moves

\* What volumesEqual compares of volumes.
Compared(vs) == {<<v.name, v.kind = "projected", v.sources>> : v \in vs}

\* volumesEqual tells projected volumes from others.
LEMMA ProjectedCompared ==
  ASSUME NEW a \in SUBSET Volumes, NEW b \in SUBSET Volumes, volumesEqual(a, b),
         NEW v \in a, v.kind = "projected"
  PROVE  \E w \in b : w.name = v.name /\ w.kind = "projected"
  <1>1. <<v.name, v.kind = "projected", v.sources>> \in Compared(a)
    BY DEF Compared
  <1>2. Compared(a) = Compared(b)
    BY DEF Compared, volumesEqual
  <1>3. PICK w \in b : <<w.name, w.kind = "projected", w.sources>>
                         = <<v.name, v.kind = "projected", v.sources>>
    BY <1>1, <1>2 DEF Compared
  <1> QED BY <1>3


\* Which modes mount secrets.
LEMMA VolumeModes ==
  ASSUME NEW spec, NEW v \in volumes(spec)
  PROVE  /\ v.name = "tls-certs" /\ v.kind = "projected" => spec.api = "certs"
         /\ v.name = "tunnel-tls-certs" /\ v.kind = "projected" =>
              spec.tunnel = "certs"
         /\ v.name = "client-tls-certs" /\ v.kind = "secret" =>
              spec.client = "certs"
  BY DEF volumes, apiVolumes, tunnelVolumes, clientVolumes, CertificateVolume,
         Volume

\* The certificates a spec waits for.
Awaited(spec) == UNION {AwaitedBy(step, spec) : step \in CertificateSteps}

\* They are those of its replicas.
LEMMA AwaitedMembers ==
  ASSUME NEW spec \in Specs, NEW x \in Certificates
  PROVE  /\ x[1] = "api" /\ spec.api = "certs" /\ x[2] < spec.replicas =>
              x \in Awaited(spec)
         /\ x[1] = "tunnel" /\ spec.tunnel = "certs" /\ x[2] < spec.replicas =>
              x \in Awaited(spec)
         /\ x[1] = "client" /\ spec.client = "certs" => x \in Awaited(spec)
  <1>1. Awaited(spec) = apiCertificates(spec) \cup tunnelCertificates(spec)
                          \cup clientCertificates(spec)
    BY DEF Awaited, AwaitedBy, CertificateSteps
  <1>2. spec.replicas \in Nat
    BY SpecsAssumption, PodsAssumption
  <1>3. x[1] = "api" /\ spec.api = "certs" /\ x[2] < spec.replicas =>
          x \in apiCertificates(spec)
    BY <1>2, PodsAssumption DEF Certificates, Pods, apiCertificates, Ordinals
  <1>4. x[1] = "tunnel" /\ spec.tunnel = "certs" /\ x[2] < spec.replicas =>
          x \in tunnelCertificates(spec)
    BY <1>2, PodsAssumption DEF Certificates, Pods, tunnelCertificates, Ordinals
  <1>5. x[1] = "client" /\ spec.client = "certs" => x \in clientCertificates(spec)
    BY DEF Certificates, clientCertificates
  <1> QED BY <1>1, <1>3, <1>4, <1>5

\* A stateful set that was written mounts secrets of certificates that were
\* awaited, or the ones it mounted before.
LEMMA ResultMounts ==
  ASSUME NEW old \in StatefulSets, NEW spec \in Specs
  PROVE  MountedSecrets(ResultOf(old, spec))
           \subseteq Awaited(spec) \cup MountedSecrets(old)
  <1> DEFINE new == buildStatefulSet(spec)
             result == ResultOf(old, spec)
  <1> SUFFICES ASSUME NEW x \in MountedSecrets(result), x \notin MountedSecrets(old)
               PROVE  x \in Awaited(spec)
    OBVIOUS
  <1>1. /\ new.volumes = volumes(spec) /\ new.replicas = spec.replicas
        /\ new.volumes \in SUBSET Volumes /\ old.volumes \in SUBSET Volumes
    BY StatefulSetTyped DEF buildStatefulSet, StatefulSets, Volumes
  <1>2. /\ result.replicas = spec.replicas
        /\ \/ result.volumes = volumes(spec)
           \/ /\ result.volumes = old.volumes
              /\ volumesEqual(old.volumes, volumes(spec))
    <2>1. result # old
      OBVIOUS
    <2> HIDE DEF new
    <2> QED BY <1>1, <2>1 DEF ResultOf, Unseen, StatefulSets, new
  <1> HIDE DEF result
  <1>3. /\ x \in Certificates
        /\ \/ /\ x[1] = "api" /\ x[2] < spec.replicas
              /\ \E v \in result.volumes : v.name = "tls-certs" /\ v.kind = "projected"
           \/ /\ x[1] = "tunnel" /\ x[2] < spec.replicas
              /\ \E v \in result.volumes :
                   v.name = "tunnel-tls-certs" /\ v.kind = "projected"
           \/ /\ x[1] = "client"
              /\ \E v \in result.volumes :
                   v.name = "client-tls-certs" /\ v.kind = "secret"
    BY <1>2 DEF MountedSecrets
  <1>4. CASE result.volumes = volumes(spec)
    BY <1>3, <1>4, VolumeModes, AwaitedMembers
  <1>5. CASE /\ result.volumes = old.volumes
             /\ volumesEqual(old.volumes, volumes(spec))
    <2>1. x[1] # "client"
      BY <1>3, <1>5 DEF MountedSecrets
    <2>2. ASSUME NEW v \in result.volumes, v.kind = "projected"
          PROVE  \E w \in volumes(spec) : w.name = v.name /\ w.kind = "projected"
      BY <1>1, <1>5, <2>2, ProjectedCompared
    <2> QED BY <1>3, <2>1, <2>2, VolumeModes, AwaitedMembers
  <1> QED BY <1>2, <1>4, <1>5

\* The stateful set never asks for a pod before its certificates were issued.
LEMMA MountedNext ==
  ASSUME TypesInv, SecretsInv, CertificatesFirst, [Next]_vars
  PROVE  CertificatesFirst'
  <1>0. /\ MountedSecrets(store.statefulSet) \subseteq secrets
        /\ secrets \subseteq secrets' /\ store \in Objects /\ seen \in Objects
    BY StoreNext DEF CertificatesFirst, TypesInv, TypeOK
  <1>1. ASSUME store'.statefulSet.volumes = store.statefulSet.volumes,
               store'.statefulSet.replicas = store.statefulSet.replicas
        PROVE  CertificatesFirst'
    BY <1>0, <1>1 DEF CertificatesFirst, MountedSecrets
  <1>2. CASE StoreKept
    BY <1>1, <1>2 DEF StoreKept
  <1>3. CASE reconcileStatefulSet
    <2> DEFINE result == ResultOf(seen.statefulSet, worker.copy.spec)
    <2>1. CASE UNCHANGED store
      BY <1>1, <2>1
    <2>2. CASE /\ seen.statefulSet = store.statefulSet
               /\ store' = [store EXCEPT !.statefulSet = result]
      <3>1. worker.todo \in Seq(StepNames) /\ worker.todo # <<>> /\ Busy
            /\ Head(worker.todo) = "statefulSet"
        BY <1>3 DEF reconcileStatefulSet, At, Busy, TypesInv, PlanFirst, Workers
      <3>2. ASSUME NEW step \in CertificateSteps
            PROVE  AwaitedBy(step, worker.copy.spec) \subseteq secrets
        <4>1. ~Precedes(step, "statefulSet", worker.todo)
          <5>1. 1 \in 1..Len(worker.todo) /\ worker.todo[1] = "statefulSet"
            BY <3>1
          <5> QED BY <5>1 DEF Precedes
        <4> QED BY <3>1, <4>1 DEF SecretsInv
      <3>3. Awaited(worker.copy.spec) \subseteq secrets
        BY <3>2 DEF Awaited
      <3>4. worker.copy.spec \in Specs /\ seen.statefulSet \in StatefulSets
        BY <1>0, <3>1, CopyAtHand DEF Objects
      <3>5. MountedSecrets(result) \subseteq secrets
        BY <1>0, <2>2, <3>3, <3>4, ResultMounts
      <3>6. store'.statefulSet = result
        BY <1>0, <2>2 DEF Objects
      <3> QED BY <1>0, <3>5, <3>6 DEF CertificatesFirst
    <2> QED BY <1>3, <2>1, <2>2, StatefulSetWritten
  <1>4. CASE ensureStatefulSetAbsent
    <2>1. CASE UNCHANGED store
      BY <1>1, <2>1
    <2>2. CASE store' = [store EXCEPT !.statefulSet = Unseen(NoStatefulSet)]
      <3>1. store'.statefulSet.volumes = {}
        BY <1>0, <2>2 DEF Objects, Unseen, NoStatefulSet
      <3> QED BY <3>1 DEF CertificatesFirst, MountedSecrets
    <2> QED BY <1>4, <2>1, <2>2 DEF ensureStatefulSetAbsent, Write
  <1>5. CASE \E kind \in Informers : Sync(kind)
    BY <1>0, <1>1, <1>5 DEF Sync, Objects, StatefulSets
  <1>6. CASE Restart
    BY <1>0, <1>1, <1>6 DEF Restart, Objects, StatefulSets
  <1>7. CASE IssueCertificate
    BY <1>0, <1>1, <1>7 DEF IssueCertificate, Objects
  <1>8. CASE StatefulSetController
    BY <1>0, <1>1, <1>8 DEF StatefulSetController, Unseen, Objects, StatefulSets
  <1> QED BY <1>2, <1>3, <1>4, <1>5, <1>6, <1>7, <1>8, StoreCases

\* The invariant is inductive.
LEMMA CertificatesNext ==
  ASSUME CertificatesInv, [Next]_vars
  PROVE  CertificatesInv'
  <1>1. TypesInv /\ SecretsInv /\ CertificatesFirst
    BY DEF CertificatesInv, TypesInv
  <1>2. TypeOK' /\ PlanFirst'
    BY <1>1, TypesNext DEF TypesInv
  <1>3. SecretsInv'
    BY <1>1, SecretsNext, AwaitedNext DEF SecretsInv
  <1> QED BY <1>1, <1>2, <1>3, MountedNext DEF CertificatesInv

\* Only the order of the reconcile keeps a pod from starting without its
\* certificate, since its secrets are optional to the kubelet. Whatever the
\* replicas, the modes and the interleaving: a secret the stateful set mounts
\* was issued before.
THEOREM CertificatesBeforePods == Spec => []CertificatesFirst
  <1>1. Init => CertificatesInv
    <2> SUFFICES ASSUME Init PROVE CertificatesInv
      OBVIOUS
    <2>1. TypesInv
      BY TypesInit
    <2>2. SecretsInv
      BY IdleTyped DEF Init, SecretsInv, NothingStored, Busy
    <2>3. CertificatesFirst
      BY DEF Init, NothingStored, NoStatefulSet, CertificatesFirst,
             MountedSecrets
    <2> QED BY <2>1, <2>2, <2>3 DEF CertificatesInv, TypesInv
  <1>2. CertificatesInv => CertificatesFirst
    BY DEF CertificatesInv
  <1>3. CertificatesInv /\ [Next]_vars => CertificatesInv'
    BY CertificatesNext
  <1> QED BY <1>1, <1>2, <1>3, PTL DEF Spec

-----------------------------------------------------------------------------
\* Cleanups are complete.

\* A list that mentions a step begins with it or mentions it later.
LEMMA MentionsHead ==
  ASSUME NEW S, NEW s \in Seq(S), s # <<>>, NEW x, Mentions(s, x)
  PROVE  Head(s) = x \/ Mentions(Tail(s), x)
  <1>1. PICK i \in 1..Len(s) : s[i] = x
    BY DEF Mentions
  <1>2. CASE i = 1
    BY <1>1, <1>2
  <1>3. CASE i # 1
    <2>1. i - 1 \in 1..Len(Tail(s)) /\ Tail(s)[i - 1] = x
      BY <1>1, <1>3
    <2> QED BY <2>1 DEF Mentions
  <1> QED BY <1>2, <1>3

\* Steps at the end of a list are at the end of the rest of it.
LEMMA LastTail ==
  ASSUME NEW S, NEW s \in Seq(S), s # <<>>, NEW T,
         \A i \in 1..Len(s) : s[i] \in T => i = Len(s)
  PROVE  \A i \in 1..Len(Tail(s)) : Tail(s)[i] \in T => i = Len(Tail(s))
  <1> SUFFICES ASSUME NEW i \in 1..Len(Tail(s)), Tail(s)[i] \in T
               PROVE  i = Len(Tail(s))
    OBVIOUS
  <1>1. i + 1 \in 1..Len(s) /\ s[i + 1] \in T
    OBVIOUS
  <1> QED BY <1>1

\* The steps of a reconcile that is no cleanup.
LiveNames == StepNames \ CleanupNames

\* A reconcile of a live cluster has only those.
LEMMA LiveStepsTyped ==
  ASSUME NEW spec
  PROVE  LiveSteps(spec) \in Seq(LiveNames)
  <1> DEFINE w1 == When(spec.api = "certs", "apiCertificates")
             w2 == When(spec.api # "off", "controllerCA")
             w3 == When(spec.tunnel = "certs", "tunnelCertificates")
             w4 == When(spec.client = "certs", "clientCertificates")
             w5 == When(spec.tunnel # "off", "tunnelService")
             first == <<"headless">>
             late == <<"plan", "configMap", "statefulSet", "prometheus",
                       "distribute">>
  <1>1. /\ w1 \in Seq(LiveNames)
        /\ w2 \in Seq(LiveNames)
        /\ w3 \in Seq(LiveNames)
        /\ w4 \in Seq(LiveNames) /\ w5 \in Seq(LiveNames)
    <2>1. /\ "apiCertificates" \in LiveNames /\ "controllerCA" \in LiveNames
          /\ "tunnelCertificates" \in LiveNames
          /\ "clientCertificates" \in LiveNames /\ "tunnelService" \in LiveNames
      BY DEF LiveNames, StepNames, CleanupNames
    <2> QED BY <2>1 DEF When
  <1>2. first \in Seq(LiveNames) /\ late \in Seq(LiveNames)
    BY DEF LiveNames, StepNames, CleanupNames
  <1>3. LiveSteps(spec) = first \o w1 \o w2 \o w3 \o w4 \o w5 \o late
    BY DEF LiveSteps
  <1> HIDE DEF first, late, w1, w2, w3, w4, w5
  <1>4. first \o w1 \o w2 \o w3 \o w4 \o w5 \o late \in Seq(LiveNames)
    BY <1>1, <1>2
  <1> QED BY <1>3, <1>4

\* A cleanup starts with the deletions that the cache decides about and ends
\* with the finalizer or, when the cluster is gone, with the plan.
CleanupList(todo) ==
  /\ Mentions(todo, "deleteStatefulSet") /\ Mentions(todo, "deleteHeadless")
  /\ Mentions(todo, "deletePrometheus")
  /\ \A i \in 1..Len(todo) : todo[i] \in LastSteps => i = Len(todo)

\* Both lists are of this form.
LEMMA CleanupStepsOrder ==
  ASSUME NEW spec
  PROVE  /\ CleanupList(CleanupSteps(spec)) /\ CleanupList(GoneSteps)
         /\ Mentions(GoneSteps, "dropPlan")
         /\ ~Mentions(GoneSteps, "removeFinalizer")
  <1> DEFINE Names == CleanupNames \ LastSteps
             w1 == When(spec.api = "certs", "deleteApiCertificates")
             w2 == When(spec.api # "off", "deleteControllerCA")
             w3 == When(spec.tunnel = "certs", "deleteTunnelCertificates")
             w4 == When(spec.client = "certs", "deleteClientCertificate")
             w5 == When(spec.tunnel # "off", "deleteTunnelService")
             first == <<"deleteStatefulSet", "deleteHeadless", "deletePrometheus">>
             b1 == first \o w1
             b2 == b1 \o w2
             b3 == b2 \o w3
             b4 == b3 \o w4
             body == b4 \o w5
             last == <<"removeFinalizer">>
  <1>1. /\ w1 \in Seq(Names) /\ w2 \in Seq(Names) /\ w3 \in Seq(Names)
        /\ w4 \in Seq(Names) /\ w5 \in Seq(Names)
    <2>1. /\ "deleteApiCertificates" \in Names /\ "deleteControllerCA" \in Names
          /\ "deleteTunnelCertificates" \in Names
          /\ "deleteClientCertificate" \in Names /\ "deleteTunnelService" \in Names
      BY DEF CleanupNames, LastSteps
    <2> HIDE DEF Names
    <2> QED BY <2>1 DEF When
  <1>2. first \in Seq(Names)
    <2>1. /\ "deleteStatefulSet" \in Names /\ "deleteHeadless" \in Names
          /\ "deletePrometheus" \in Names
      BY DEF CleanupNames, LastSteps
    <2> HIDE DEF Names
    <2> QED BY <2>1
  <1>3. CleanupSteps(spec) = first \o w1 \o w2 \o w3 \o w4 \o w5 \o last
    BY DEF CleanupSteps
  <1>4. /\ Mentions(first, "deleteStatefulSet")
        /\ Mentions(first, "deleteHeadless")
        /\ Mentions(first, "deletePrometheus")
    BY DEF Mentions
  <1>5. \A name \in Names : name \notin LastSteps
    OBVIOUS
  <1> HIDE DEF Names, w1, w2, w3, w4, w5, first, last
  <1>6. /\ b1 \in Seq(Names) /\ b2 \in Seq(Names) /\ b3 \in Seq(Names)
        /\ b4 \in Seq(Names) /\ body \in Seq(Names)
    BY <1>1, <1>2
  <1>7. last \in Seq(LastSteps) /\ Len(last) = 1
    BY DEF last, LastSteps
  <1>8. CleanupSteps(spec) = body \o last
    BY <1>3
  <1>9. ASSUME NEW x, Mentions(first, x)
        PROVE  Mentions(body \o last, x)
    <2>1. Mentions(b1, x)
      BY <1>1, <1>2, <1>9, MentionsConcat
    <2> HIDE DEF b1
    <2>2. Mentions(b2, x)
      BY <1>1, <1>6, <2>1, MentionsConcat
    <2> HIDE DEF b2
    <2>3. Mentions(b3, x)
      BY <1>1, <1>6, <2>2, MentionsConcat
    <2> HIDE DEF b3
    <2>4. Mentions(b4, x)
      BY <1>1, <1>6, <2>3, MentionsConcat
    <2> HIDE DEF b4
    <2>5. Mentions(body, x)
      BY <1>1, <1>6, <2>4, MentionsConcat
    <2> HIDE DEF body
    <2>6. PICK i \in 1..Len(body) : body[i] = x
      BY <2>5 DEF Mentions
    <2>7. i \in 1..Len(body \o last) /\ (body \o last)[i] = x
      BY <1>6, <1>7, <2>6
    <2> QED BY <2>7 DEF Mentions
  <1> HIDE DEF b1, b2, b3, b4, body
  <1>10. ASSUME NEW i \in 1..Len(body \o last), (body \o last)[i] \in LastSteps
         PROVE  i = Len(body \o last)
    <2>1. ASSUME i \in 1..Len(body) PROVE FALSE
      <3>1. (body \o last)[i] = body[i] /\ body[i] \in Names
        BY <1>6, <1>7, <2>1
      <3> QED BY <1>5, <1>10, <3>1
    <2>2. Len(body \o last) = Len(body) + 1 /\ Len(body) \in Nat
      <3>1. /\ body \in Seq(Names \cup LastSteps)
            /\ last \in Seq(Names \cup LastSteps)
        BY <1>6, <1>7
      <3> QED BY <1>7, <3>1, ConcatProperties
    <2> QED BY <2>1, <2>2
  <1>11. CleanupList(CleanupSteps(spec))
    BY <1>4, <1>8, <1>9, <1>10 DEF CleanupList
  <1>12. CleanupList(GoneSteps)
    BY DEF CleanupList, GoneSteps, Mentions, LastSteps
  <1>13. /\ Mentions(GoneSteps, "dropPlan")
         /\ ~Mentions(GoneSteps, "removeFinalizer")
    BY DEF GoneSteps, Mentions
  <1> QED BY <1>11, <1>12, <1>13

\* Only these steps create or delete services.
LEMMA ServicesWritten ==
  ASSUME TypesInv, [Next]_vars
  PROVE  \/ store'.services = store.services
         \/ reconcileHeadlessService \/ reconcileTunnelService
         \/ reconcilePrometheusServices
         \/ ensureServiceAbsent \/ cleanupPrometheusServices
         \/ cleanupTunnelService \/ CollectGarbage
  <1>0. store \in Objects
    BY DEF TypesInv, TypeOK
  <1>1. CASE UNCHANGED store
    BY <1>1
  <1>2. CASE reconcileControllerCA
    BY <1>0, <1>2 DEF reconcileControllerCA, Write, Objects
  <1>3. CASE \/ reconcileCertificates \/ reconcileTunnelCertificates
             \/ reconcileClientTLSCertificates
    BY <1>0, <1>3
    DEF reconcileCertificates, reconcileTunnelCertificates,
        reconcileClientTLSCertificates, ensureCertificates, Objects
  <1>4. CASE reconcileConfigMap
    BY <1>0, <1>4 DEF reconcileConfigMap, Write, Objects
  <1>5. CASE reconcileStatefulSet
    BY <1>0, <1>5, StatefulSetWritten DEF Objects
  <1>6. CASE ensureStatefulSetAbsent
    BY <1>0, <1>6 DEF ensureStatefulSetAbsent, Write, Objects
  <1>8. CASE \/ cleanupCertificates \/ cleanupTunnelCertificates
             \/ cleanupClientTLSCertificates
    BY <1>0, <1>8
    DEF cleanupCertificates, cleanupTunnelCertificates,
        cleanupClientTLSCertificates, DeleteAll, Objects
  <1>9. CASE cleanupControllerCA
    BY <1>0, <1>9 DEF cleanupControllerCA, Objects
  <1>10. CASE Restart \/ Informer
    BY <1>0, <1>10 DEF Restart, Informer, Sync, Objects
  <1>11. CASE Kubernetes
    <2>1. CASE IssueCertificate
      BY <1>0, <2>1 DEF IssueCertificate, Objects
    <2>3. CASE StatefulSetController
      BY <1>0, <2>3 DEF StatefulSetController, Objects
    <2>4. CASE \E p \in Pods : StartPod(p)
      BY <1>1, <2>4 DEF StartPod
    <2> QED BY <1>11, <2>1, <2>3, <2>4 DEF Kubernetes
  <1>12. CASE \/ AddFinalizer \/ BuildPlan \/ Distribute \/ sendApplyRequest
              \/ applyTunnelTargetMatches \/ UpdateStatus \/ RemoveFinalizer
              \/ cleanupPlan
    BY <1>1, <1>12
    DEF AddFinalizer, BuildPlan, Distribute, sendApplyRequest,
        applyTunnelTargetMatches, UpdateStatus, RemoveFinalizer, cleanupPlan
  <1>13. CASE \/ StartReconcile \/ CallFails \/ createHTTPClientFails
              \/ RequestFails \/ MatchRequestFails \/ DeleteMatchFails
              \/ (\E p \in Pods : LosePod(p))
              \/ CreateCluster \/ EditCluster \/ DeleteCluster \/ EditPipelines
              \/ UNCHANGED vars
    BY <1>1, <1>13
    DEF StartReconcile, CallFails, createHTTPClientFails, RequestFails,
        MatchRequestFails, DeleteMatchFails, LosePod, CreateCluster,
        EditCluster, DeleteCluster, EditPipelines, vars
  <1> QED
    BY <1>2, <1>3, <1>4, <1>5, <1>6, <1>8, <1>9, <1>10, <1>11, <1>12,
       <1>13
    DEF Next, Reconcile, ReconcileStep

\* Only the first three create them.
LEMMA ServicesNext ==
  ASSUME TypesInv, [Next]_vars
  PROVE  \/ store'.services \subseteq store.services
         \/ reconcileHeadlessService \/ reconcileTunnelService
         \/ reconcilePrometheusServices
  <1>0. store \in Objects
    BY DEF TypesInv, TypeOK
  <1>1. CASE ensureServiceAbsent
    BY <1>0, <1>1 DEF ensureServiceAbsent, Write, Objects
  <1>2. CASE cleanupPrometheusServices \/ cleanupTunnelService
    BY <1>0, <1>2
    DEF cleanupPrometheusServices, cleanupTunnelService, DeleteAll, Objects
  <1>3. CASE CollectGarbage
    BY <1>0, <1>3 DEF CollectGarbage, Objects
  <1> QED BY <1>1, <1>2, <1>3, ServicesWritten

\* Only this step creates the stateful set.
LEMMA ExistsNext ==
  ASSUME TypesInv, [Next]_vars, store'.statefulSet.exists
  PROVE  store.statefulSet.exists \/ reconcileStatefulSet
  <1>0. store \in Objects
    BY DEF TypesInv, TypeOK
  <1>1. CASE StoreKept
    BY <1>1 DEF StoreKept
  <1>2. CASE ensureStatefulSetAbsent
    BY <1>0, <1>2
    DEF ensureStatefulSetAbsent, Write, Unseen, NoStatefulSet, Objects
  <1>3. CASE \E kind \in Informers : Sync(kind)
    BY <1>0, <1>3 DEF Sync, Objects, StatefulSets
  <1>4. CASE Restart
    BY <1>0, <1>4 DEF Restart, Objects, StatefulSets
  <1>5. CASE IssueCertificate
    BY <1>0, <1>5 DEF IssueCertificate, Objects
  <1>6. CASE StatefulSetController
    BY <1>0, <1>6 DEF StatefulSetController, Unseen, Objects, StatefulSets
  <1> QED BY <1>1, <1>2, <1>3, <1>4, <1>5, <1>6, StoreCases

\* In the queue the cluster stays until a reconcile starts.
LEMMA DirtyKept ==
  ASSUME TypesInv, [Next]_vars, dirty, ~StartReconcile, ~Restart
  PROVE  dirty'
  <1>1. CASE UpdateStatus
    BY <1>1, Zenon DEF UpdateStatus
  <1>2. CASE \E kind \in Informers : Sync(kind)
    BY <1>2, Zenon DEF Sync
  <1> QED BY <1>1, <1>2, QueuedKnown, Zenon DEF Queued

\* A cleanup takes no other step.
LEMMA OnlyCleanup ==
  ASSUME worker.todo \in Seq(CleanupNames), NEW name, name \notin CleanupNames
  PROVE  ~At(name)
  <1> SUFFICES ASSUME worker.todo # <<>> PROVE Head(worker.todo) \in CleanupNames
    BY DEF At, Busy
  <1> QED OBVIOUS

\* Neither between two reconciles nor during a cleanup does anything appear
\* that the cache shows, but its arrival in the cache.
LEMMA HiddenNext ==
  ASSUME TypesInv, [Next]_vars, worker.todo \in Seq(CleanupNames),
         ~StartReconcile, ~Restart, NEW CONSTANT S
  PROVE  /\ StatefulSetHidden => StatefulSetHidden'
         /\ ServicesHidden(S) => ServicesHidden(S)'
  <1>1. ~reconcileHeadlessService /\ ~reconcileTunnelService
        /\ ~reconcilePrometheusServices /\ ~reconcileStatefulSet
    <2>1. /\ "headless" \notin CleanupNames
          /\ "tunnelService" \notin CleanupNames
          /\ "prometheus" \notin CleanupNames /\ "statefulSet" \notin CleanupNames
      BY DEF CleanupNames
    <2> QED
      BY <2>1, OnlyCleanup
      DEF reconcileHeadlessService, reconcileTunnelService, ensureService,
          reconcilePrometheusServices, reconcileStatefulSet
  <1>2. store'.services \subseteq store.services
    BY <1>1, ServicesNext
  <1>3. store'.statefulSet.exists => store.statefulSet.exists
    BY <1>1, ExistsNext
  <1>4. dirty => dirty'
    BY DirtyKept
  <1>5. \/ dirty'
        \/ seen'.services = seen.services /\ seen'.statefulSet = seen.statefulSet
    <2>1. CASE UNCHANGED seen
      BY <2>1
    <2>2. ASSUME NEW kind \in Informers, Sync(kind), kind = "configMaps"
          PROVE  seen'.services = seen.services /\ seen'.statefulSet = seen.statefulSet
      BY <2>2 DEF Sync, Fields, TypesInv, TypeOK, Objects
    <2>3. ASSUME NEW kind \in Informers, Sync(kind), kind # "configMaps"
          PROVE  dirty'
      BY <2>3, Zenon DEF Sync
    <2> QED BY <2>1, <2>2, <2>3, WritersKnown DEF Writers
  <1>6. StatefulSetHidden => StatefulSetHidden'
    BY <1>3, <1>4, <1>5 DEF StatefulSetHidden
  <1>7. ServicesHidden(S) => ServicesHidden(S)'
    BY <1>2, <1>4, <1>5 DEF ServicesHidden
  <1> QED BY <1>6, <1>7

\* A deletion leaves nothing that the cache shows.
LEMMA HiddenByDeletion ==
  ASSUME TypesInv, Done, Len(worker.todo) # 1
  PROVE  /\ Head(worker.todo) = "deleteStatefulSet" /\ worker' # Idle =>
              StatefulSetHidden'
         /\ Head(worker.todo) = "deleteHeadless" /\ worker' # Idle =>
              ServicesHidden({"headless"})'
         /\ Head(worker.todo) = "deletePrometheus" => ServicesHidden(AllPrometheus)'
  <1>0. store \in Objects /\ seen \in Objects
    BY DEF TypesInv, TypeOK
  <1>1. ASSUME Head(worker.todo) = "deleteStatefulSet", worker' # Idle
        PROVE  StatefulSetHidden'
    <2>1. ensureStatefulSetAbsent
      BY <1>1 DEF Done
    <2>2. seen' = seen
      BY <2>1 DEF ensureStatefulSetAbsent, ControllerOnly
    <2>3. ~Retry
      BY <1>1 DEF Retry
    <2>4. (UNCHANGED store /\ ~seen.statefulSet.exists)
          \/ store' = [store EXCEPT !.statefulSet = Unseen(NoStatefulSet)]
      BY <2>1, <2>3 DEF ensureStatefulSetAbsent, Write
    <2>5. ~(store'.statefulSet.exists /\ seen'.statefulSet.exists)
      BY <1>0, <2>2, <2>4 DEF Objects, Unseen, NoStatefulSet
    <2> QED BY <2>5, Zenon DEF StatefulSetHidden
  <1>2. ASSUME Head(worker.todo) = "deleteHeadless", worker' # Idle
        PROVE  ServicesHidden({"headless"})'
    <2>1. ensureServiceAbsent
      BY <1>2 DEF Done
    <2>2. seen' = seen
      BY <2>1 DEF ensureServiceAbsent, ControllerOnly
    <2>3. ~Retry
      BY <1>2 DEF Retry
    <2>4. (UNCHANGED store /\ "headless" \notin seen.services)
          \/ store' = [store EXCEPT !.services = @ \ {"headless"}]
      BY <2>1, <2>3 DEF ensureServiceAbsent, Write
    <2>5. ~("headless" \in store'.services /\ "headless" \in seen'.services)
      BY <1>0, <2>2, <2>4 DEF Objects
    <2> QED BY <2>5, Zenon DEF ServicesHidden
  <1>3. ASSUME Head(worker.todo) = "deletePrometheus"
        PROVE  ServicesHidden(AllPrometheus)'
    <2>1. cleanupPrometheusServices
      BY <1>3 DEF Done
    <2>2. seen' = seen
      BY <2>1 DEF cleanupPrometheusServices, DeleteAll, ControllerOnly
    <2>3. store'.services = store.services \ PrometheusServices(seen.services)
      BY <1>0, <2>1 DEF cleanupPrometheusServices, DeleteAll, Objects
    <2>4. \A name \in AllPrometheus :
            ~(name \in store'.services /\ name \in seen'.services)
      BY <2>2, <2>3 DEF AllPrometheus, PrometheusServices
    <2> QED BY <2>4, Zenon DEF ServicesHidden
  <1> QED BY <1>1, <1>2, <1>3

\* All that a cleanup takes care of is hidden.
AllHidden == /\ StatefulSetHidden /\ ServicesHidden({"headless"})
             /\ ServicesHidden(AllPrometheus)

\* The last step of a cleanup: everything before it is done.
LEMMA LastStep ==
  ASSUME CleanupInv, Busy, Head(worker.todo) \in LastSteps
  PROVE  Len(worker.todo) = 1 /\ AllHidden
  <1>1. worker.todo \in Seq(StepNames) /\ worker.todo # <<>>
    BY DEF CleanupInv, PlanFirst, Workers, Busy
  <1>2. 1 \in 1..Len(worker.todo) /\ worker.todo[1] = Head(worker.todo)
    BY <1>1
  <1>3. Len(worker.todo) = 1
    BY <1>2 DEF CleanupInv, CleanupOrder
  <1>4. Mentions(worker.todo, Head(worker.todo))
    BY <1>2 DEF Mentions
  <1>5. /\ ~Mentions(worker.todo, "deleteStatefulSet")
        /\ ~Mentions(worker.todo, "deleteHeadless")
        /\ ~Mentions(worker.todo, "deletePrometheus")
    BY <1>1, <1>3 DEF Mentions, LastSteps
  <1> QED BY <1>3, <1>4, <1>5 DEF CleanupInv, CleanupOrder, AllHidden

\* Between two reconciles there is no step to promise anything about.
LEMMA IdleOrder ==
  ASSUME worker'.todo = <<>>
  PROVE  CleanupOrder' /\ ~Busy'
  BY DEF CleanupOrder, Mentions, Busy

\* A step that is no deletion belongs to a reconcile that cleans nothing up.
LEMMA NoCleanup ==
  ASSUME CleanupInv, Busy, Head(worker.todo) \notin CleanupNames
  PROVE  /\ \A name \in LastSteps : ~Mentions(worker.todo, name)
         /\ ~(cluster.phase = "absent" /\ ~dirty)
  <1>1. ~(worker.todo \in Seq(CleanupNames))
    BY DEF Busy
  <1>2. \A name \in LastSteps : ~Mentions(worker.todo, name)
    BY <1>1 DEF CleanupInv, CleanupOrder
  <1> QED BY <1>2, Zenon DEF CleanupInv, LastSteps

\* What a cluster that is gone promises.
GoneInv ==
  cluster.phase = "absent" /\ ~dirty =>
    \/ Mentions(worker.todo, "dropPlan")
    \/ ~Busy /\ plans = NoPlan /\ AllHidden

\* The finalizer goes last.
LEMMA KeptByRemoveFinalizer ==
  ASSUME CleanupInv, RemoveFinalizer
  PROVE  CleanupOrder' /\ GoneInv'
  <1>1. At("removeFinalizer") /\ Busy
    BY DEF RemoveFinalizer, At
  <1>2. Len(worker.todo) = 1 /\ AllHidden
    BY <1>1, LastStep DEF At, LastSteps
  <1>3. worker.todo \in Seq(StepNames) /\ worker.todo # <<>>
    BY <1>1 DEF CleanupInv, PlanFirst, Workers, Busy
  <1>4. Mentions(worker.todo, "removeFinalizer")
    <2>1. 1 \in 1..Len(worker.todo) /\ worker.todo[1] = "removeFinalizer"
      BY <1>1, <1>3 DEF At
    <2> QED BY <2>1 DEF Mentions
  <1>5. plans = NoPlan
    BY <1>4 DEF CleanupInv, CleanupOrder
  <1>6. worker' = Idle
    BY <1>2 DEF RemoveFinalizer, ProceedOnly, Proceed, Retry
  <1>7. CleanupOrder' /\ ~Busy'
    BY <1>6, IdleTyped, IdleOrder
  <1>8. UNCHANGED <<store, seen, plans>>
    BY DEF RemoveFinalizer
  <1>9. dirty' = TRUE \/ UNCHANGED dirty
    BY Zenon DEF RemoveFinalizer, ProceedOnly, Retry
  <1>10. dirty' = TRUE \/ AllHidden'
    <2>1. CASE UNCHANGED dirty
      BY <1>2, <1>8, <2>1
      DEF AllHidden, StatefulSetHidden, ServicesHidden
    <2> QED BY <1>9, <2>1, Zenon
  <1> QED BY <1>5, <1>7, <1>8, <1>10, Zenon DEF GoneInv

\* The caches are filled anew; what they show puts the cluster into the queue.
LEMMA KeptByRestart ==
  ASSUME CleanupInv, Restart
  PROVE  CleanupOrder' /\ GoneInv'
  <1>1. CleanupOrder' /\ ~Busy'
    BY IdleTyped, IdleOrder DEF Restart
  <1>2. plans' = NoPlan
    BY DEF Restart
  <1>3. store \in Objects
    BY DEF CleanupInv, TypeOK
  <1>4. /\ store'.services = store.services
        /\ store'.statefulSet.exists = store.statefulSet.exists
    BY <1>3 DEF Restart, Objects, StatefulSets
  <1>5. /\ store.services # {} => dirty'
        /\ store.statefulSet.exists => dirty'
    BY Zenon DEF Restart
  <1>6. AllHidden'
    <2>1. StatefulSetHidden'
      BY <1>4, <1>5 DEF StatefulSetHidden
    <2>2. ServicesHidden({"headless"})' /\ ServicesHidden(AllPrometheus)'
      BY <1>4, <1>5 DEF ServicesHidden
    <2> QED BY <2>1, <2>2 DEF AllHidden
  <1> QED BY <1>1, <1>2, <1>6 DEF GoneInv

\* A reconcile starts with a list of one of the three forms.
LEMMA KeptByStart ==
  ASSUME CleanupInv, StartReconcile
  PROVE  CleanupOrder' /\ GoneInv'
  <1> DEFINE todo == worker'.todo
  <1>0. cluster.phase \in {"absent", "live", "deleting"} /\ cluster' = cluster
    BY DEF CleanupInv, TypeOK, StartReconcile
  <1>1. /\ cluster.phase = "absent" => todo = GoneSteps
        /\ cluster.phase = "deleting" => todo = CleanupSteps(cluster.spec)
        /\ cluster.phase = "live" =>
             todo = LiveSteps(cluster.spec) \/ todo = <<"addFinalizer">>
    BY <1>0, IdleTyped DEF StartReconcile, Workers
  <1>2. cluster.phase = "deleting" => plans' = NoPlan
    BY DEF StartReconcile
  <1> HIDE DEF todo
  <1>3. CASE cluster.phase = "live"
    <2>1. todo \in Seq(LiveNames)
      <3>1. "addFinalizer" \in LiveNames
        BY DEF LiveNames, StepNames, CleanupNames
      <3>2. <<"addFinalizer">> \in Seq(LiveNames)
        BY <3>1
      <3> QED BY <1>1, <1>3, <3>2, LiveStepsTyped
    <2>2. \A name \in LiveNames : name \notin LastSteps
      BY DEF LiveNames, LastSteps, CleanupNames
    <2>3. \A i \in 1..Len(todo) : todo[i] \notin LastSteps
      BY <2>1, <2>2
    <2>4. \A name \in LastSteps : ~Mentions(todo, name)
      BY <2>3 DEF Mentions
    <2>5. CleanupOrder'
      BY <2>3, <2>4 DEF CleanupOrder, LastSteps, todo
    <2>6. cluster'.phase # "absent"
      BY <1>0, <1>3
    <2> QED BY <2>5, <2>6 DEF GoneInv
  <1>4. CASE cluster.phase \in {"absent", "deleting"}
    <2>1. CleanupList(todo) /\ todo \in Seq(CleanupNames)
      BY <1>1, <1>4, CleanupStepsOrder, CleanupStepsTyped
    <2>2. Mentions(todo, "removeFinalizer") => plans' = NoPlan
      BY <1>1, <1>2, <1>4, CleanupStepsOrder
    <2>3. CleanupOrder'
      BY <2>1, <2>2 DEF CleanupOrder, CleanupList, todo
    <2>4. cluster'.phase = "absent" => Mentions(worker'.todo, "dropPlan")
      BY <1>0, <1>1, CleanupStepsOrder DEF todo
    <2> QED BY <2>3, <2>4 DEF GoneInv
  <1> QED BY <1>0, <1>3, <1>4

\* A cluster is gone since before, or with its finalizer, or it is in the queue.
LEMMA GoneBefore ==
  ASSUME TypesInv, [Next]_vars, ~StartReconcile, ~Restart, ~RemoveFinalizer,
         cluster'.phase = "absent", ~dirty'
  PROVE  cluster.phase = "absent" /\ ~dirty
  <1>1. ~dirty
    BY DirtyKept
  <1>2. cluster \in Clusters
    BY DEF TypesInv, TypeOK, Clusters
  <1>3. CASE AddFinalizer
    <2>1. cluster'.phase = cluster.phase
      BY <1>2, <1>3 DEF AddFinalizer, Clusters
    <2> QED BY <1>1, <2>1
  <1>4. CASE CreateCluster
    BY <1>4 DEF CreateCluster
  <1>5. CASE EditCluster \/ DeleteCluster \/ EditPipelines
    <2>1. dirty'
      BY <1>5, Zenon DEF EditCluster, DeleteCluster, EditPipelines, Edit
    <2> QED BY <2>1
  <1> QED BY <1>1, <1>3, <1>4, <1>5, WritersKnown DEF Writers

\* The plan is dropped at the start of a cleanup, and not built again.
LEMMA PlanDropped ==
  ASSUME TypesInv, [Next]_vars, ~StartReconcile, worker.todo \in Seq(CleanupNames),
         plans = NoPlan
  PROVE  plans' = NoPlan
  <1>1. ~BuildPlan
    <2>1. "plan" \notin CleanupNames
      BY DEF CleanupNames
    <2> QED BY <2>1, OnlyCleanup DEF BuildPlan
  <1> QED BY <1>1, WritersKnown DEF Writers, cleanupPlan, Restart

\* A step of a cleanup is done.
LEMMA KeptByAdvance ==
  ASSUME CleanupInv, [Next]_vars, Advances, ~StartReconcile, ~Restart,
         ~RemoveFinalizer
  PROVE  CleanupOrder' /\ GoneInv'
  <1> DEFINE todo == worker.todo
             rest == Tail(worker.todo)
  <1>0. TypesInv /\ CleanupOrder
    BY DEF CleanupInv, TypesInv
  <1>1. /\ todo \in Seq(StepNames) /\ todo # <<>> /\ Len(todo) # 1 /\ Busy
        /\ worker \in Workers
    BY <1>0 DEF TypesInv, PlanFirst, Workers, Advances, Done, Busy
  <1>2. worker'.todo = rest /\ rest \in Seq(StepNames) /\ rest # <<>>
    <2>1. worker'.todo = rest
      BY <1>1 DEF Advances, Workers
    <2>2. /\ rest \in Seq(StepNames) /\ Len(rest) = Len(todo) - 1
          /\ Len(todo) \in Nat \ {0, 1}
      BY <1>1, HeadTailProperties, EmptySeq, LenProperties
    <2> HIDE DEF rest
    <2>3. rest # <<>>
      <3>1. Len(<<>>) = 0
        BY EmptySeq
      <3>2. Len(rest) # 0
        BY <2>2
      <3> QED BY <3>1, <3>2, Zenon
    <2> QED BY <2>1, <2>2, <2>3
  <1>3. worker' # Idle
    BY <1>2, IdleTyped
  <1>4. \A i \in 1..Len(rest) : rest[i] \in LastSteps => i = Len(rest)
    <2>1. \A i \in 1..Len(todo) : todo[i] \in LastSteps => i = Len(todo)
      BY <1>0 DEF CleanupOrder
    <2> QED BY <1>1, <2>1, LastTail
  <1>5. \A x : Mentions(rest, x) => Mentions(todo, x)
    BY <1>1, MentionsTail
  <1>6. \A x : Mentions(todo, x) => Head(todo) = x \/ Mentions(rest, x)
    BY <1>1, MentionsHead
  <1>7. ASSUME NEW name \in LastSteps, Mentions(rest, name)
        PROVE  /\ rest \in Seq(CleanupNames)
               /\ Mentions(rest, "deleteStatefulSet") \/ StatefulSetHidden'
               /\ Mentions(rest, "deleteHeadless") \/ ServicesHidden({"headless"})'
               /\ Mentions(rest, "deletePrometheus") \/ ServicesHidden(AllPrometheus)'
    <2>1. /\ todo \in Seq(CleanupNames)
          /\ Mentions(todo, "deleteStatefulSet") \/ StatefulSetHidden
          /\ Mentions(todo, "deleteHeadless") \/ ServicesHidden({"headless"})
          /\ Mentions(todo, "deletePrometheus") \/ ServicesHidden(AllPrometheus)
      BY <1>0, <1>5, <1>7 DEF CleanupOrder
    <2>2. rest \in Seq(CleanupNames)
      BY <1>1, <2>1
    <2>3. /\ StatefulSetHidden => StatefulSetHidden'
          /\ ServicesHidden({"headless"}) => ServicesHidden({"headless"})'
          /\ ServicesHidden(AllPrometheus) => ServicesHidden(AllPrometheus)'
      BY <1>0, <2>1, HiddenNext
    <2>4. Done /\ Len(worker.todo) # 1
      BY DEF Advances
    <2> HIDE DEF todo, rest
    <2>5. Mentions(rest, "deleteStatefulSet") \/ StatefulSetHidden'
      BY <1>0, <1>3, <1>6, <2>1, <2>3, <2>4, HiddenByDeletion DEF todo
    <2>6. Mentions(rest, "deleteHeadless") \/ ServicesHidden({"headless"})'
      BY <1>0, <1>3, <1>6, <2>1, <2>3, <2>4, HiddenByDeletion DEF todo
    <2>7. Mentions(rest, "deletePrometheus") \/ ServicesHidden(AllPrometheus)'
      BY <1>0, <1>6, <2>1, <2>3, <2>4, HiddenByDeletion DEF todo
    <2> QED BY <2>2, <2>5, <2>6, <2>7
  <1>8. Mentions(rest, "removeFinalizer") => plans' = NoPlan
    <2> SUFFICES ASSUME Mentions(rest, "removeFinalizer") PROVE plans' = NoPlan
      OBVIOUS
    <2>1. plans = NoPlan /\ todo \in Seq(CleanupNames)
      BY <1>0, <1>5 DEF CleanupOrder, LastSteps
    <2> QED BY <1>0, <2>1, PlanDropped
  <1>9. CleanupOrder'
    <2> HIDE DEF rest
    <2> QED BY <1>2, <1>4, <1>7, <1>8 DEF CleanupOrder
  <1>10. ASSUME cluster'.phase = "absent", ~dirty' PROVE Mentions(rest, "dropPlan")
    <2>1. cluster.phase = "absent" /\ ~dirty
      BY <1>0, <1>10, GoneBefore
    <2>2. Mentions(todo, "dropPlan")
      BY <1>1, <2>1, Zenon DEF CleanupInv
    <2>3. Head(todo) # "dropPlan"
      BY <1>1, LastStep DEF LastSteps
    <2> QED BY <1>6, <2>2, <2>3
  <1> HIDE DEF rest
  <1> QED BY <1>2, <1>9, <1>10 DEF GoneInv

\* A reconcile ends.
LEMMA KeptByEnd ==
  ASSUME CleanupInv, [Next]_vars, Ends, ~StartReconcile, ~Restart,
         ~RemoveFinalizer
  PROVE  CleanupOrder' /\ GoneInv'
  <1>0. TypesInv /\ CleanupOrder
    BY DEF CleanupInv, TypesInv
  <1>1. CleanupOrder' /\ ~Busy'
    BY IdleTyped, IdleOrder DEF Ends
  <1> SUFFICES ASSUME cluster'.phase = "absent", ~dirty'
               PROVE  plans' = NoPlan /\ AllHidden'
    BY <1>1 DEF GoneInv
  <1>2. cluster.phase = "absent" /\ ~dirty
    BY <1>0, GoneBefore
  <1>3. CASE UpdateStatus
    <2>1. Busy /\ Head(worker.todo) = "status" /\ "status" \notin CleanupNames
      BY <1>3 DEF UpdateStatus, At, CleanupNames
    <2> QED BY <1>2, <2>1, NoCleanup
  <1>4. CASE Done /\ Len(worker.todo) = 1
    <2>1. Busy /\ worker.todo \in Seq(StepNames) /\ worker.todo # <<>>
      BY <1>0, <1>4 DEF TypesInv, PlanFirst, Workers, Done, Busy
    <2>2. Mentions(worker.todo, "dropPlan")
      BY <1>2, <2>1, Zenon DEF CleanupInv
    <2>3. Head(worker.todo) = "dropPlan"
      BY <1>4, <2>1, <2>2 DEF Mentions
    <2>4. cleanupPlan /\ AllHidden
      BY <1>4, <2>1, <2>3, LastStep DEF Done, LastSteps
    <2>5. UNCHANGED <<store, seen>> /\ plans' = NoPlan
      BY <2>4 DEF cleanupPlan
    <2>6. UNCHANGED dirty
      BY <2>4, Zenon DEF cleanupPlan, ProceedOnly
    <2> QED
      BY <2>4, <2>5, <2>6 DEF AllHidden, StatefulSetHidden, ServicesHidden
  <1>5. dirty' # TRUE
    BY Zenon
  <1> QED BY <1>3, <1>4, <1>5, Zenon DEF Ends

\* The other steps of a reconcile are taken by one that cleans nothing up.
LEMMA KeptByOthers ==
  ASSUME CleanupInv, [Next]_vars, ~StartReconcile, ~Restart, ~RemoveFinalizer,
         Busy, Head(worker.todo) \notin CleanupNames,
         \/ worker'.todo = <<>> \/ worker'.todo = Tail(worker.todo)
         \/ worker'.todo \in Seq(RoundNames)
  PROVE  CleanupOrder' /\ GoneInv'
  <1>0. TypesInv /\ worker.todo \in Seq(StepNames) /\ worker.todo # <<>>
    BY DEF CleanupInv, TypesInv, PlanFirst, Workers, Busy
  <1>1. \A name \in LastSteps : ~Mentions(worker'.todo, name)
    <2>1. CASE worker'.todo = <<>>
      BY <2>1 DEF Mentions
    <2>2. CASE worker'.todo = Tail(worker.todo)
      BY <1>0, <2>2, NoCleanup, MentionsTail
    <2>3. CASE worker'.todo \in Seq(RoundNames)
      <3>1. \A name \in LastSteps : name \notin RoundNames
        BY DEF LastSteps, RoundNames
      <3> QED BY <2>3, <3>1, PrecedesVacuously
    <2> QED BY <2>1, <2>2, <2>3
  <1>2. CleanupOrder'
    BY <1>1 DEF CleanupOrder, Mentions, LastSteps
  <1>3. ~(cluster'.phase = "absent" /\ ~dirty')
    BY <1>0, GoneBefore, NoCleanup
  <1> QED BY <1>2, <1>3 DEF GoneInv

\* Steps of others.
LEMMA KeptByWorld ==
  ASSUME CleanupInv, [Next]_vars, UNCHANGED worker, ~StartReconcile, ~Restart,
         ~RemoveFinalizer
  PROVE  CleanupOrder' /\ GoneInv'
  <1>0. TypesInv /\ CleanupOrder
    BY DEF CleanupInv, TypesInv
  <1>1. worker.todo \in Seq(CleanupNames) =>
          /\ StatefulSetHidden => StatefulSetHidden'
          /\ ServicesHidden({"headless"}) => ServicesHidden({"headless"})'
          /\ ServicesHidden(AllPrometheus) => ServicesHidden(AllPrometheus)'
          /\ plans = NoPlan => plans' = NoPlan
    BY <1>0, HiddenNext, PlanDropped
  <1>2. CleanupOrder'
    BY <1>0, <1>1 DEF CleanupOrder, LastSteps
  <1>3. ASSUME cluster'.phase = "absent", ~dirty'
        PROVE  \/ Mentions(worker'.todo, "dropPlan")
               \/ ~Busy' /\ plans' = NoPlan /\ AllHidden'
    <2>1. cluster.phase = "absent" /\ ~dirty
      BY <1>0, <1>3, GoneBefore
    <2>2. CASE Mentions(worker.todo, "dropPlan")
      BY <2>2
    <2>3. CASE /\ ~Busy /\ plans = NoPlan /\ StatefulSetHidden
               /\ ServicesHidden({"headless"}) /\ ServicesHidden(AllPrometheus)
      <3>1. worker.todo \in Seq(CleanupNames)
        <4>1. worker.todo = <<>>
          BY <2>3, Zenon DEF Busy
        <4> QED BY <4>1
      <3> QED BY <1>1, <2>3, <3>1 DEF Busy, AllHidden
    <2> QED BY <2>1, <2>2, <2>3, Zenon DEF CleanupInv
  <1> QED BY <1>2, <1>3 DEF GoneInv

\* The invariant is inductive.
LEMMA CleanupNext ==
  ASSUME CleanupInv, [Next]_vars
  PROVE  CleanupInv'
  <1>0. TypesInv /\ worker \in Workers
    BY DEF CleanupInv, TypesInv, PlanFirst
  <1>1. TypeOK' /\ PlanFirst'
    BY <1>0, TypesNext DEF TypesInv
  <1>2. CleanupOrder' /\ GoneInv'
    <2>1. CASE StartReconcile
      BY <2>1, KeptByStart
    <2>2. CASE Restart
      BY <2>2, KeptByRestart
    <2>3. CASE RemoveFinalizer
      BY <2>3, KeptByRemoveFinalizer
    <2> SUFFICES ASSUME ~StartReconcile, ~Restart, ~RemoveFinalizer
                 PROVE  CleanupOrder' /\ GoneInv'
      BY <2>1, <2>2, <2>3
    <2>4. CASE BuildPlan \/ reconcileStatefulSet
      <3>1. /\ Busy /\ Head(worker.todo) \notin CleanupNames
        BY <2>4 DEF BuildPlan, reconcileStatefulSet, At, CleanupNames
      <3>2. worker' = Idle \/ worker'.todo = Tail(worker.todo)
        <4>1. CASE BuildPlan
          BY <1>0, <4>1 DEF BuildPlan, Workers
        <4>2. CASE reconcileStatefulSet
          BY <1>0, <4>2, StatefulSetWritten DEF Retry, Workers
        <4> QED BY <2>4, <4>1, <4>2
      <3> QED BY <3>1, <3>2, IdleTyped, KeptByOthers
    <2>5. CASE Distribute
      <3>1. /\ Busy /\ Head(worker.todo) \notin CleanupNames
        BY <2>5 DEF Distribute, At, CleanupNames
      <3>2. worker' = Idle \/ worker'.todo \in Seq(RoundNames)
        <4>1. ASSUME NEW d \in Shares, NEW pods \in SUBSET Pods,
                     worker' = [worker EXCEPT !.share = d, !.pods = pods,
                                              !.todo = ApplySteps(pods)]
              PROVE  worker'.todo = ApplySteps(pods)
          BY <1>0, <4>1 DEF Workers
        <4> QED BY <1>0, <2>5, <4>1, DistributeTyped, RoundTyped DEF Retry
      <3> QED BY <3>1, <3>2, IdleTyped, KeptByOthers
    <2>6. CASE \/ /\ Busy /\ Head(worker.todo) \in {"distribute", "apply", "matches"}
                  /\ GiveUp
               \/ At("matches") /\ NextPod
      <3>1. /\ Busy /\ Head(worker.todo) \notin CleanupNames
        BY <2>6 DEF At, CleanupNames
      <3>2. worker'.todo \in Seq(RoundNames)
        BY <1>0, <2>6, RoundTyped DEF GiveUp, NextPod, Workers
      <3> QED BY <3>1, <3>2, KeptByOthers
    <2> QED
      BY <2>4, <2>5, <2>6, MovesKnown, KeptByWorld, KeptByEnd, KeptByAdvance
      DEF Moves
  <1> QED BY <1>1, <1>2 DEF CleanupInv, GoneInv, AllHidden

\* A cluster that is gone leaves no stateful set, no headless or Prometheus
\* service and no plan behind once nothing is under way any more, whatever the
\* cache of the reconcile that removed the finalizer did not show yet.
THEOREM CleanupIsComplete == Spec => []CleanupComplete
  <1>1. Init => CleanupInv
    <2> SUFFICES ASSUME Init PROVE CleanupInv
      OBVIOUS
    <2>1. TypesInv
      BY TypesInit
    <2>2. worker.todo = <<>> /\ plans = NoPlan
      BY IdleTyped DEF Init
    <2>3. ~store.statefulSet.exists /\ store.services = {}
      BY DEF Init, NothingStored, NoStatefulSet
    <2> QED
      BY <2>1, <2>2, <2>3
      DEF CleanupInv, TypesInv, CleanupOrder, Mentions, Busy, StatefulSetHidden,
          ServicesHidden
  <1>2. CleanupInv => CleanupComplete
    <2> SUFFICES ASSUME CleanupInv, cluster.phase = "absent", Settled PROVE Clean
      BY DEF CleanupComplete
    <2>1. ~dirty /\ ~Busy
      BY DEF Settled
    <2>2. ~Mentions(worker.todo, "dropPlan")
      BY <2>1 DEF Busy, Mentions
    <2>3. plans = NoPlan /\ AllHidden
      BY <2>1, <2>2, Zenon DEF CleanupInv, AllHidden
    <2>4. seen.statefulSet = store.statefulSet /\ seen.services = store.services
          /\ store \in Objects
      BY DEF Settled, CleanupInv, TypeOK, Objects
    <2>5. ~store.statefulSet.exists
      BY <2>1, <2>3, <2>4 DEF AllHidden, StatefulSetHidden
    <2>6. ASSUME NEW name \in store.services PROVE name = "tunnel"
      <3>1. name \in ServiceNames
        BY <2>4 DEF Objects
      <3>2. name \notin {"headless"} /\ name \notin AllPrometheus
        BY <2>1, <2>3, <2>4 DEF AllHidden, ServicesHidden
      <3> QED BY <3>1, <3>2 DEF ServiceNames, AllPrometheus, PrometheusServices
    <2> QED BY <2>3, <2>5, <2>6 DEF Clean
  <1>3. CleanupInv /\ [Next]_vars => CleanupInv'
    BY CleanupNext
  <1> QED BY <1>1, <1>2, <1>3, PTL DEF Spec

-----------------------------------------------------------------------------
\* What is settled is applied.

\* The steps that change the stateful set leave a version to be delivered.
LEMMA SetNext ==
  ASSUME TypesInv, [Next]_vars
  PROVE  \/ store'.statefulSet = store.statefulSet
         \/ reconcileStatefulSet \/ ensureStatefulSetAbsent
         \/ Restart \/ Sync("statefulSets")
         \/ StatefulSetController /\ store'.statefulSet.unseen
  <1>0. store \in Objects
    BY DEF TypesInv, TypeOK
  <1>1. CASE StoreKept
    BY <1>1 DEF StoreKept
  <1>2. ASSUME NEW kind \in Informers, Sync(kind), kind # "statefulSets"
        PROVE  store' = store
    BY <1>2 DEF Sync
  <1>3. CASE IssueCertificate
    BY <1>0, <1>3 DEF IssueCertificate, Objects
  <1>4. CASE StatefulSetController
    <2>1. store' = store \/ \E set \in StatefulSets :
            store' = [store EXCEPT !.statefulSet = Unseen(set)]
      <3>1. ASSUME NEW n \in 0..MaxPods
            PROVE  [store.statefulSet EXCEPT !.ready = n] \in StatefulSets
        BY <1>0 DEF Objects, StatefulSets
      <3>2. \A pods : Cardinality({p \in Pods : pods[p].state \in {"up", "outdated"}})
                        \in 0..MaxPods
        BY ReadyTyped
      <3> QED BY <1>4, <3>1, <3>2 DEF StatefulSetController
    <2> QED BY <1>0, <1>4, <2>1 DEF Unseen, Objects, StatefulSets
  <1> QED BY <1>1, <1>2, <1>3, <1>4, StoreCases

\* What reconcileStatefulSet writes is a new version.
LEMMA ResultUnseen ==
  ASSUME NEW old \in StatefulSets, NEW spec \in Specs, ResultOf(old, spec) # old
  PROVE  ResultOf(old, spec).unseen
  <1> DEFINE new == buildStatefulSet(spec)
  <1>1. new \in StatefulSets /\ new.unseen
    BY StatefulSetTyped DEF buildStatefulSet
  <1>2. ASSUME NEW vs \in SUBSET Volumes, NEW n
        PROVE  Unseen([old EXCEPT !.replicas = n, !.volumes = vs]).unseen
    BY DEF Unseen, StatefulSets
  <1>3. new.volumes \in SUBSET Volumes /\ old.volumes \in SUBSET Volumes
    BY <1>1 DEF StatefulSets, Volumes
  <1> HIDE DEF new
  <1> QED BY <1>1, <1>2, <1>3 DEF ResultOf, new

\* The cache of the stateful set follows its versions.
LEMMA VersionNext ==
  ASSUME TypesInv, VersionInv, [Next]_vars
  PROVE  VersionInv'
  <1>0. store \in Objects /\ seen \in Objects /\ store' \in Objects
    BY StoreNext DEF TypesInv, TypeOK
  <1>1. CASE Restart
    BY <1>0, <1>1 DEF Restart, VersionInv, Objects, StatefulSets
  <1>2. CASE Sync("statefulSets")
    BY <1>0, <1>2 DEF Sync, Fields, VersionInv, Objects, StatefulSets
  <1> SUFFICES ASSUME ~Restart, ~Sync("statefulSets") PROVE VersionInv'
    BY <1>1, <1>2
  <1>3. seen'.statefulSet = seen.statefulSet
    <2>1. ASSUME NEW kind \in Informers, Sync(kind), kind # "statefulSets"
          PROVE  seen'.statefulSet = seen.statefulSet
      BY <1>0, <2>1 DEF Sync, Fields, Informers, Objects
    <2> QED BY <2>1, WritersKnown DEF Writers
  <1>4. CASE reconcileStatefulSet
    <2>1. seen.statefulSet \in StatefulSets /\ worker.copy.spec \in Specs
      BY <1>0, <1>4, CopyAtHand DEF Objects, reconcileStatefulSet, At
    <2> DEFINE result == ResultOf(seen.statefulSet, worker.copy.spec)
    <2>2. \/ store' = store
          \/ store' = [store EXCEPT !.statefulSet = result]
      BY <1>4, StatefulSetWritten
    <2>3. result = seen.statefulSet \/ result.unseen
      BY <2>1, ResultUnseen
    <2> HIDE DEF result
    <2> QED BY <1>0, <1>3, <2>2, <2>3 DEF VersionInv, Objects
  <1>5. CASE ensureStatefulSetAbsent
    BY <1>0, <1>3, <1>5
    DEF ensureStatefulSetAbsent, Write, Unseen, NoStatefulSet, VersionInv,
        Objects
  <1>6. CASE store'.statefulSet = store.statefulSet \/ store'.statefulSet.unseen
    BY <1>3, <1>6 DEF VersionInv
  <1> QED BY <1>4, <1>5, <1>6, SetNext

\* Only the start of a reconcile makes it calm. Otherwise it was calm before,
\* and neither the cluster nor its pipelines nor what the cache shows of
\* services, certificates and stateful set has changed.
LEMMA CalmBefore ==
  ASSUME TypesInv, [Next]_vars, Calm', ~StartReconcile
  PROVE  /\ Calm /\ ~Restart /\ ~Sync("statefulSets") /\ ~AddFinalizer
         /\ ~CreateCluster
         /\ UNCHANGED <<cluster, pipes>>
         /\ seen'.services = seen.services /\ seen'.issued = seen.issued
         /\ seen'.statefulSet = seen.statefulSet
  <1>0. seen \in Objects /\ ~dirty' /\ cluster'.phase = "live"
    BY DEF TypesInv, TypeOK, Calm
  <1>1. ~Restart
    BY <1>0, Zenon DEF Restart
  <1>2. /\ ~AddFinalizer
        /\ ~CreateCluster
        /\ ~EditCluster
        /\ ~DeleteCluster
        /\ ~EditPipelines
    BY <1>0, Zenon
    DEF AddFinalizer, Retry, CreateCluster, EditCluster, DeleteCluster,
        EditPipelines, Edit
  <1>3. ~RemoveFinalizer
    <2> SUFFICES ASSUME RemoveFinalizer PROVE FALSE
      OBVIOUS
    <2>1. cluster' = NoCluster
      BY <1>0, Zenon DEF RemoveFinalizer, Retry
    <2> QED BY <1>0, <2>1 DEF NoCluster
  <1>4. UNCHANGED <<cluster, pipes>>
    BY <1>2, <1>3, WritersKnown DEF Writers
  <1>5. ASSUME NEW kind \in Informers, Sync(kind) PROVE kind = "configMaps"
    BY <1>0, <1>5, Zenon DEF Sync
  <1>6. ~dirty
    BY <1>0, <1>1, DirtyKept, Zenon
  <1>7. "statefulSets" \in Informers /\ "statefulSets" # "configMaps"
    BY DEF Informers
  <1>8. ~Sync("statefulSets")
    BY <1>5, <1>7, Zenon
  <1>9. /\ seen'.services = seen.services /\ seen'.issued = seen.issued
        /\ seen'.statefulSet = seen.statefulSet
    <2>1. ASSUME Sync("configMaps")
          PROVE  /\ seen'.services = seen.services /\ seen'.issued = seen.issued
                 /\ seen'.statefulSet = seen.statefulSet
      BY <1>0, <2>1 DEF Sync, Fields, Objects
    <2> QED BY <1>1, <1>5, <2>1, WritersKnown DEF Writers
  <1> QED BY <1>0, <1>1, <1>2, <1>4, <1>6, <1>8, <1>9, Zenon DEF Calm

\* A step at the end of the second list only is at the end of both.
LEMMA LastConcat ==
  ASSUME NEW S, NEW s \in Seq(S), NEW t \in Seq(S), NEW x,
         \A i \in 1..Len(s) : s[i] # x,
         \A i \in 1..Len(t) : t[i] = x => i = Len(t)
  PROVE  \A i \in 1..Len(s \o t) : (s \o t)[i] = x => i = Len(s \o t)
  <1> SUFFICES ASSUME NEW i \in 1..Len(s \o t), (s \o t)[i] = x
               PROVE  i = Len(s \o t)
    OBVIOUS
  <1>1. CASE i <= Len(s)
    BY <1>1
  <1>2. CASE ~(i <= Len(s))
    <2>1. i - Len(s) \in 1..Len(t) /\ t[i - Len(s)] = x
      BY <1>2
    <2>2. i - Len(s) = Len(t)
      BY <2>1
    <2> QED BY <2>2
  <1> QED BY <1>1, <1>2

\* A list of steps of which the last and only the last distributes.
Plain(steps) ==
  /\ steps \in Seq(PlainNames) /\ Mentions(steps, "distribute")
  /\ \A i \in 1..Len(steps) : steps[i] = "distribute" => i = Len(steps)

\* A reconcile of a live cluster has all steps that its spec asks for, and
\* the round comes last.
LEMMA LiveStepsPlain ==
  ASSUME NEW spec
  PROVE  /\ Plain(LiveSteps(spec))
         /\ \A name \in {"headless", "plan", "statefulSet", "prometheus"} :
              Mentions(LiveSteps(spec), name)
         /\ spec.api = "certs" => Mentions(LiveSteps(spec), "apiCertificates")
         /\ spec.tunnel = "certs" => Mentions(LiveSteps(spec), "tunnelCertificates")
         /\ spec.client = "certs" => Mentions(LiveSteps(spec), "clientCertificates")
         /\ spec.tunnel # "off" => Mentions(LiveSteps(spec), "tunnelService")
  <1> DEFINE w1 == When(spec.api = "certs", "apiCertificates")
             w2 == When(spec.api # "off", "controllerCA")
             w3 == When(spec.tunnel = "certs", "tunnelCertificates")
             w4 == When(spec.client = "certs", "clientCertificates")
             w5 == When(spec.tunnel # "off", "tunnelService")
             s0 == <<"headless">>
             s1 == s0 \o w1
             s2 == s1 \o w2
             s3 == s2 \o w3
             s4 == s3 \o w4
             s5 == s4 \o w5
             late == <<"plan", "configMap", "statefulSet", "prometheus",
                       "distribute">>
  <1>1. EarlySteps \subseteq PlainNames /\ "distribute" \notin EarlySteps
    BY DEF EarlySteps, PlainNames
  <1>2. /\ s0 \in Seq(EarlySteps)
        /\ w1 \in Seq(EarlySteps) /\ w2 \in Seq(EarlySteps)
        /\ w3 \in Seq(EarlySteps) /\ w4 \in Seq(EarlySteps)
        /\ w5 \in Seq(EarlySteps)
    <2>1. /\ "headless" \in EarlySteps /\ "apiCertificates" \in EarlySteps
          /\ "controllerCA" \in EarlySteps
          /\ "tunnelCertificates" \in EarlySteps
          /\ "clientCertificates" \in EarlySteps
          /\ "tunnelService" \in EarlySteps
      BY DEF EarlySteps
    <2> QED BY <2>1 DEF When
  <1>3. /\ Mentions(s0, "headless")
        /\ spec.api = "certs" => Mentions(w1, "apiCertificates")
        /\ spec.tunnel = "certs" => Mentions(w3, "tunnelCertificates")
        /\ spec.client = "certs" => Mentions(w4, "clientCertificates")
        /\ spec.tunnel # "off" => Mentions(w5, "tunnelService")
    BY DEF When, Mentions
  <1>4. late \in Seq(PlainNames) /\ Len(late) = 5
    BY DEF PlainNames
  <1>5. \A name \in {"plan", "statefulSet", "prometheus", "distribute"} :
          Mentions(late, name)
    <2>1. late[1] = "plan" /\ late[3] = "statefulSet" /\ late[4] = "prometheus"
          /\ late[5] = "distribute"
      OBVIOUS
    <2>2. /\ 1 \in 1..Len(late)
          /\ 3 \in 1..Len(late)
          /\ 4 \in 1..Len(late)
          /\ 5 \in 1..Len(late)
      BY <1>4
    <2> HIDE DEF late
    <2> QED BY <2>1, <2>2 DEF Mentions
  <1>6. \A i \in 1..Len(late) : late[i] = "distribute" => i = Len(late)
    BY <1>4
  <1>7. LiveSteps(spec) = s5 \o late
    BY DEF LiveSteps
  <1> HIDE DEF w1, w2, w3, w4, w5, s0, late
  <1>8. /\ s1 \in Seq(EarlySteps) /\ s2 \in Seq(EarlySteps)
        /\ s3 \in Seq(EarlySteps) /\ s4 \in Seq(EarlySteps)
        /\ s5 \in Seq(EarlySteps)
    BY <1>2
  <1>9. /\ Mentions(s1, "headless")
        /\ spec.api = "certs" => Mentions(s1, "apiCertificates")
    BY <1>2, <1>3, MentionsConcat
  <1> HIDE DEF s1
  <1>10. /\ Mentions(s2, "headless")
         /\ spec.api = "certs" => Mentions(s2, "apiCertificates")
    BY <1>2, <1>8, <1>9, MentionsConcat
  <1> HIDE DEF s2
  <1>11. /\ Mentions(s3, "headless")
         /\ spec.api = "certs" => Mentions(s3, "apiCertificates")
         /\ spec.tunnel = "certs" => Mentions(s3, "tunnelCertificates")
    BY <1>2, <1>3, <1>8, <1>10, MentionsConcat
  <1> HIDE DEF s3
  <1>12. /\ Mentions(s4, "headless")
         /\ spec.api = "certs" => Mentions(s4, "apiCertificates")
         /\ spec.tunnel = "certs" => Mentions(s4, "tunnelCertificates")
         /\ spec.client = "certs" => Mentions(s4, "clientCertificates")
    BY <1>2, <1>3, <1>8, <1>11, MentionsConcat
  <1> HIDE DEF s4
  <1>13. /\ Mentions(s5, "headless")
         /\ spec.api = "certs" => Mentions(s5, "apiCertificates")
         /\ spec.tunnel = "certs" => Mentions(s5, "tunnelCertificates")
         /\ spec.client = "certs" => Mentions(s5, "clientCertificates")
         /\ spec.tunnel # "off" => Mentions(s5, "tunnelService")
    BY <1>2, <1>3, <1>8, <1>12, MentionsConcat
  <1> HIDE DEF s5
  <1>a. s5 \in Seq(EarlySteps)
    BY <1>8
  <1>14. s5 \in Seq(PlainNames)
    <2>1. \A i \in 1..Len(s5) : s5[i] \in PlainNames
      BY <1>1, <1>a
    <2> QED BY <1>a, <2>1
  <1>15. \A name : Mentions(s5, name) \/ Mentions(late, name) => Mentions(s5 \o late, name)
    BY <1>4, <1>14, MentionsConcat
  <1>16. \A i \in 1..Len(s5 \o late) :
           (s5 \o late)[i] = "distribute" => i = Len(s5 \o late)
    <2>1. \A i \in 1..Len(s5) : s5[i] # "distribute"
      BY <1>1, <1>a
    <2> QED BY <1>4, <1>6, <1>14, <2>1, LastConcat
  <1>17. s5 \o late \in Seq(PlainNames)
    BY <1>4, <1>14
  <1>18. Plain(s5 \o late)
    BY <1>5, <1>15, <1>16, <1>17 DEF Plain
  <1> QED BY <1>5, <1>7, <1>13, <1>15, <1>18

\* What is left of such a list, and a round.
LEMMA PlainTail ==
  ASSUME NEW s, Plain(s)
  PROVE  /\ s # <<>> /\ Head(s) \in PlainNames
         /\ Head(s) = "distribute" <=> Len(s) = 1
         /\ Head(s) # "distribute" => Plain(Tail(s)) /\ Tail(s) # <<>>
         /\ Head(s) = "distribute" => \A name : Mentions(s, name) => name = "distribute"
  <1>0. s \in Seq(PlainNames) /\ Mentions(s, "distribute")
    BY DEF Plain
  <1>1. s # <<>> /\ 1 \in 1..Len(s) /\ Head(s) = s[1]
    BY <1>0 DEF Mentions
  <1>2. Head(s) \in PlainNames
    BY <1>0, <1>1
  <1>3. Head(s) = "distribute" => Len(s) = 1
    BY <1>0, <1>1 DEF Plain
  <1>4. Len(s) = 1 => Head(s) = "distribute"
    BY <1>0, <1>1 DEF Mentions
  <1>5. ASSUME Head(s) # "distribute"
        PROVE  Plain(Tail(s)) /\ Tail(s) # <<>>
    <2>1. Mentions(Tail(s), "distribute")
      BY <1>0, <1>1, <1>5, MentionsHead
    <2>2. Tail(s) \in Seq(PlainNames)
      BY <1>0, <1>1
    <2>3. Tail(s) # <<>>
      <3>1. PICK i \in 1..Len(Tail(s)) : Tail(s)[i] = "distribute"
        BY <2>1 DEF Mentions
      <3>2. Len(<<>>) = 0
        OBVIOUS
      <3> QED BY <3>1, <3>2
    <2>4. \A i \in 1..Len(s) : s[i] \in {"distribute"} => i = Len(s)
      BY DEF Plain
    <2>5. \A i \in 1..Len(Tail(s)) : Tail(s)[i] \in {"distribute"} => i = Len(Tail(s))
      BY <1>0, <1>1, <2>4, LastTail
    <2> QED BY <2>1, <2>2, <2>3, <2>5 DEF Plain
  <1>6. ASSUME Head(s) = "distribute", NEW name, Mentions(s, name)
        PROVE  name = "distribute"
    BY <1>0, <1>1, <1>3, <1>6 DEF Mentions
  <1> QED BY <1>1, <1>2, <1>3, <1>4, <1>5, <1>6

\* A round mentions requests and the status only.
LEMMA RoundsTyped ==
  ASSUME NEW todo \in Rounds
  PROVE  /\ todo \in Seq(RoundNames)
         /\ \A name \in PlainNames : ~Mentions(todo, name)
         /\ todo # <<>> => Head(todo) \in RoundNames
         /\ todo # <<>> /\ Head(todo) = "status" => todo = <<"status">>
         /\ todo # <<>> /\ Head(todo) = "matches" => todo = <<"matches", "status">>
         /\ todo # <<>> /\ Head(todo) = "apply" =>
              todo = <<"apply", "matches", "status">> /\ Tail(todo) = <<"matches", "status">>
  <1>1. /\ "apply" \in RoundNames
        /\ "matches" \in RoundNames
        /\ "status" \in RoundNames
        /\ \A name \in PlainNames : name \notin RoundNames
    BY DEF RoundNames, PlainNames
  <1>2. todo \in Seq(RoundNames)
    <2>1. CASE todo = <<>> BY <2>1
    <2>2. CASE todo = <<"apply", "matches", "status">> BY <1>1, <2>2
    <2>3. CASE todo = <<"matches", "status">> BY <1>1, <2>3
    <2>4. CASE todo = <<"status">> BY <1>1, <2>4
    <2> QED BY <2>1, <2>2, <2>3, <2>4 DEF Rounds
  <1>3. \A name \in PlainNames : ~Mentions(todo, name)
    BY <1>1, <1>2, PrecedesVacuously
  <1>4. todo # <<>> => Head(todo) \in RoundNames
    BY <1>2
  <1>5. todo # <<>> /\ Head(todo) = "status" => todo = <<"status">>
    BY DEF Rounds
  <1>6. todo # <<>> /\ Head(todo) = "matches" => todo = <<"matches", "status">>
    BY DEF Rounds
  <1>7. todo # <<>> /\ Head(todo) = "apply" =>
          todo = <<"apply", "matches", "status">> /\ Tail(todo) = <<"matches", "status">>
    <2>1. todo # <<>> /\ Head(todo) = "apply" => todo = <<"apply", "matches", "status">>
      BY DEF Rounds
    <2>2. Tail(<<"apply", "matches", "status">>) = <<"matches", "status">>
      OBVIOUS
    <2> QED BY <2>1, <2>2
  <1> QED BY <1>2, <1>3, <1>4, <1>5, <1>6, <1>7

\* What a reconcile in order may do next.
LEMMA OrderedHead ==
  ASSUME TypesInv, OrderInv, Busy
  PROVE  /\ Plain(worker.todo) \/ worker.todo \in Rounds
         /\ Plain(worker.todo) => Head(worker.todo) \in PlainNames
         /\ worker.todo \in Rounds => Head(worker.todo) \in RoundNames
         /\ Head(worker.todo) \in PlainNames \cup RoundNames
         /\ Head(worker.todo) \notin CleanupNames \cup {"addFinalizer"}
         /\ Head(worker.todo) \in PlainNames <=> Plain(worker.todo)
  <1>1. worker.todo # <<>>
    BY Zenon DEF Busy
  <1>2. Plain(worker.todo) \/ worker.todo \in Rounds
    BY DEF OrderInv, Plain, Still
  <1>3. Plain(worker.todo) => Head(worker.todo) \in PlainNames
    BY PlainTail
  <1>4. worker.todo \in Rounds => Head(worker.todo) \in RoundNames
    BY <1>1, RoundsTyped
  <1>5. /\ \A name \in PlainNames : name \notin RoundNames
        /\ \A name \in PlainNames \cup RoundNames :
             name \notin CleanupNames \cup {"addFinalizer"}
    BY DEF PlainNames, RoundNames, CleanupNames
  <1> QED BY <1>2, <1>3, <1>4, <1>5

\* How the worker moves while it stays calm.
CalmMove ==
  \/ UNCHANGED worker
  \/ /\ Plain(worker.todo) /\ Advances
     /\ Head(worker.todo) \notin {"plan", "statefulSet", "distribute"}
  \/ /\ worker.todo = <<"apply", "matches", "status">>
     /\ worker' = [worker EXCEPT !.todo = <<"matches", "status">>]
     /\ sendApplyRequest /\ Running(Serving)
  \/ BuildPlan /\ Plain(worker.todo)
  \/ reconcileStatefulSet /\ Plain(worker.todo)
  \/ Distribute /\ Plain(worker.todo)
  \/ /\ Busy /\ Head(worker.todo) \in {"distribute", "apply", "matches"}
     /\ GiveUp
  \/ /\ worker.todo = <<"matches", "status">> /\ NextPod
     /\ applyTunnelTargetMatches \/ DeleteMatchFails
  \/ /\ UpdateStatus /\ worker.todo = <<"status">> /\ ~worker.failed
     /\ worker' = Idle

\* These are all moves: neither an error nor a restart leaves it calm.
LEMMA CalmMoves ==
  ASSUME TypesInv, [Next]_vars, Calm', ~StartReconcile, OrderInv
  PROVE  CalmMove /\ ~Retry
  <1>0. /\ ~dirty' /\ ~Restart /\ worker \in Workers
        /\ worker.todo \in Seq(StepNames)
    BY CalmBefore DEF Calm, TypesInv, PlanFirst, Workers
  <1>1. ~Retry
    BY <1>0, Zenon DEF Retry
  <1>2. CASE Advances
    <2>1. Busy /\ Head(worker.todo) \notin {"plan", "statefulSet", "distribute",
                                            "matches", "status"}
      BY <1>2 DEF Advances, Done
    <2>2. CASE Plain(worker.todo)
      <3>1. Head(worker.todo) \notin {"plan", "statefulSet", "distribute"}
        BY <2>1
      <3> QED BY <1>1, <1>2, <2>2, <3>1, Zenon DEF CalmMove
    <2>3. CASE worker.todo \in Rounds
      <3>1. Head(worker.todo) = "apply"
        BY <2>1, <2>3, OrderedHead DEF RoundNames
      <3>2. /\ worker.todo = <<"apply", "matches", "status">>
            /\ Tail(worker.todo) = <<"matches", "status">>
        BY <2>1, <2>3, <3>1, RoundsTyped DEF Busy
      <3>3. sendApplyRequest /\ Running(Serving)
        BY <1>2, <3>1 DEF Advances, Done
      <3>4. worker' = [worker EXCEPT !.todo = <<"matches", "status">>]
        BY <1>2, <3>2 DEF Advances
      <3> QED BY <1>1, <3>2, <3>3, <3>4, Zenon DEF CalmMove
    <2> QED BY <2>1, <2>2, <2>3, OrderedHead
  <1>3. CASE Done /\ Len(worker.todo) = 1
    <2>1. Busy /\ Head(worker.todo) \notin {"distribute", "status"}
      BY <1>3 DEF Done
    <2>2. CASE Plain(worker.todo)
      BY <1>3, <2>1, <2>2, PlainTail
    <2>3. CASE worker.todo \in Rounds
      <3>1. worker.todo # <<>> /\ Len(worker.todo) = 1
        BY <1>3, <2>1 DEF Busy
      <3>2. worker.todo = <<"status">>
        BY <2>3, <3>1 DEF Rounds
      <3> QED BY <2>1, <3>2
    <2> QED BY <2>1, <2>2, <2>3, OrderedHead
  <1>4. CASE UpdateStatus /\ worker' = Idle
    <2>1. Busy /\ Head(worker.todo) = "status"
      BY <1>4 DEF UpdateStatus, At
    <2>2. ~worker.failed
      BY <1>0, <1>4, Zenon DEF UpdateStatus
    <2>3. "status" \notin PlainNames
      BY DEF PlainNames
    <2>4. worker.todo \in Rounds
      BY <2>1, <2>3, OrderedHead
    <2>5. worker.todo = <<"status">>
      BY <2>1, <2>4, RoundsTyped DEF Busy
    <2> QED BY <1>1, <1>4, <2>2, <2>5, Zenon DEF CalmMove
  <1>5. CASE Ends
    BY <1>0, <1>3, <1>4, <1>5, Zenon DEF Ends
  <1>6. CASE BuildPlan \/ reconcileStatefulSet \/ Distribute
    <2>1. Busy /\ Head(worker.todo) \in PlainNames
      BY <1>6 DEF BuildPlan, reconcileStatefulSet, Distribute, At, PlainNames
    <2>2. Plain(worker.todo)
      BY <2>1, OrderedHead
    <2> QED BY <1>1, <1>6, <2>2, Zenon DEF CalmMove
  <1>7. CASE At("matches") /\ NextPod /\ (applyTunnelTargetMatches \/ DeleteMatchFails)
    <2>1. Busy /\ Head(worker.todo) = "matches"
      BY <1>7 DEF At
    <2>2. "matches" \notin PlainNames
      BY DEF PlainNames
    <2>3. worker.todo \in Rounds
      BY <2>1, <2>2, OrderedHead
    <2>4. worker.todo = <<"matches", "status">>
      BY <2>1, <2>3, RoundsTyped DEF Busy
    <2> QED BY <1>1, <1>7, <2>4, Zenon DEF CalmMove
  <1>8. CASE \/ UNCHANGED worker
             \/ /\ Busy /\ Head(worker.todo) \in {"distribute", "apply", "matches"}
                /\ GiveUp
    BY <1>1, <1>8, Zenon DEF CalmMove
  <1> QED
    BY <1>2, <1>5, <1>6, <1>7, <1>8, MovesKnown, Zenon DEF Moves

\* The list shrinks from the front, or a round goes on or begins.
LEMMA TodoNext ==
  ASSUME TypesInv, [Next]_vars, Calm', ~StartReconcile, OrderInv
  PROVE  /\ \/ worker'.todo = worker.todo
            \/ /\ Plain(worker.todo) /\ Head(worker.todo) # "distribute"
               /\ worker'.todo = Tail(worker.todo)
            \/ /\ worker'.todo \in Rounds
               /\ \/ worker.todo \in Rounds
                  \/ Plain(worker.todo) /\ Head(worker.todo) = "distribute"
         /\ worker'.todo # <<>> => worker.todo # <<>> /\ worker'.copy = worker.copy
         /\ worker'.failed => worker'.todo = <<"status">>
  <1>0. /\ worker \in Workers /\ worker.todo \in Seq(StepNames)
        /\ (worker.failed => worker.todo = <<"status">>)
    BY DEF TypesInv, PlanFirst, Workers, OrderInv
  <1> DEFINE Goal ==
         /\ \/ worker'.todo = worker.todo
            \/ /\ Plain(worker.todo) /\ Head(worker.todo) # "distribute"
               /\ worker'.todo = Tail(worker.todo)
            \/ /\ worker'.todo \in Rounds
               /\ \/ worker.todo \in Rounds
                  \/ Plain(worker.todo) /\ Head(worker.todo) = "distribute"
         /\ worker'.todo # <<>> => worker.todo # <<>> /\ worker'.copy = worker.copy
         /\ worker'.failed => worker'.todo = <<"status">>
  <1>1. CASE UNCHANGED worker
    BY <1>0, <1>1
  <1>2. ASSUME Plain(worker.todo), Head(worker.todo) # "distribute",
               worker'.todo = Tail(worker.todo), worker'.copy = worker.copy,
               worker'.failed = worker.failed
        PROVE  Goal
    <2>1. ~worker.failed
      <3> SUFFICES ASSUME worker.todo = <<"status">> PROVE FALSE
        BY <1>0
      <3>1. "status" \notin PlainNames
        BY DEF PlainNames
      <3> QED BY <1>2, <3>1, PlainTail
    <2>2. worker.todo # <<>>
      BY <1>2, PlainTail
    <2> QED BY <1>2, <2>1, <2>2
  <1>3. CASE /\ Plain(worker.todo) /\ Advances
             /\ Head(worker.todo) \notin {"plan", "statefulSet", "distribute"}
    <2>1. /\ worker'.todo = Tail(worker.todo) /\ worker'.copy = worker.copy
          /\ worker'.failed = worker.failed
      BY <1>0, <1>3 DEF Advances, Workers
    <2> QED BY <1>2, <1>3, <2>1
  <1>4. CASE BuildPlan /\ Plain(worker.todo)
    <2>1. /\ worker'.todo = Tail(worker.todo) /\ worker'.copy = worker.copy
          /\ worker'.failed = worker.failed /\ Head(worker.todo) # "distribute"
      BY <1>0, <1>4 DEF BuildPlan, At, Workers
    <2> QED BY <1>2, <1>4, <2>1
  <1>5. CASE reconcileStatefulSet /\ Plain(worker.todo)
    <2>1. PICK set : worker' = [worker EXCEPT !.todo = Tail(@), !.set = set]
      BY <1>5, CalmMoves, StatefulSetWritten
    <2>2. /\ worker'.todo = Tail(worker.todo) /\ worker'.copy = worker.copy
          /\ worker'.failed = worker.failed
      BY <1>0, <2>1 DEF Workers
    <2>3. Head(worker.todo) # "distribute"
      BY <1>5 DEF reconcileStatefulSet, At
    <2> QED BY <1>2, <1>5, <2>2, <2>3
  <1>6. \A pods : ApplySteps(pods) \in Rounds
    BY DEF ApplySteps, Rounds
  <1>7. CASE /\ worker.todo = <<"apply", "matches", "status">>
             /\ worker' = [worker EXCEPT !.todo = <<"matches", "status">>]
    <2>1. /\ worker'.todo = <<"matches", "status">>
          /\ worker'.copy = worker.copy
          /\ worker'.failed = worker.failed
      BY <1>0, <1>7 DEF Workers
    <2>2. /\ worker'.todo \in Rounds
          /\ worker.todo \in Rounds
          /\ worker.todo # <<>>
      BY <1>7, <2>1 DEF Rounds
    <2>3. ~worker.failed
      BY <1>0, <1>7
    <2> QED BY <2>1, <2>2, <2>3
  <1>8. CASE Distribute /\ Plain(worker.todo)
    <2>1. PICK d, pods : worker' = [worker EXCEPT !.share = d, !.pods = pods,
                                                  !.todo = ApplySteps(pods)]
      BY <1>8, CalmMoves, DistributeTyped
    <2>2. /\ worker'.todo = ApplySteps(pods) /\ worker'.copy = worker.copy
          /\ worker'.failed = worker.failed
      BY <1>0, <2>1 DEF Workers
    <2>3. Head(worker.todo) = "distribute" /\ worker.todo # <<>>
      BY <1>8, PlainTail DEF Distribute, At
    <2>4. ~worker.failed
      <3>1. <<"status">> # worker.todo
        BY <2>3
      <3> QED BY <1>0, <3>1
    <2> QED BY <1>6, <1>8, <2>2, <2>3, <2>4
  <1>9. CASE /\ Busy /\ Head(worker.todo) \in {"distribute", "apply", "matches"}
             /\ GiveUp
    <2>1. worker'.todo = <<"status">> /\ worker'.copy = worker.copy
      BY <1>0, <1>9 DEF GiveUp, Workers
    <2>2. worker'.todo \in Rounds
      BY <2>1 DEF Rounds
    <2>3. \/ worker.todo \in Rounds
          \/ Plain(worker.todo) /\ Head(worker.todo) = "distribute"
      <3>1. "apply" \notin PlainNames /\ "matches" \notin PlainNames
        BY DEF PlainNames
      <3> QED BY <1>9, <3>1, OrderedHead
    <2> QED BY <1>9, <2>1, <2>2, <2>3 DEF Busy
  <1>10. CASE worker.todo = <<"matches", "status">> /\ NextPod
    <2>1. PICK left : worker' = [worker EXCEPT !.pods = left, !.todo = ApplySteps(left)]
      BY <1>10 DEF NextPod
    <2>2. /\ worker'.todo = ApplySteps(left) /\ worker'.copy = worker.copy
          /\ worker'.failed = worker.failed
      BY <1>0, <2>1 DEF Workers
    <2>3. /\ worker.todo \in Rounds
          /\ worker.todo # <<>>
          /\ worker.todo # <<"status">>
      BY <1>10 DEF Rounds
    <2> QED BY <1>0, <1>6, <2>2, <2>3
  <1>11. CASE worker.todo = <<"status">> /\ worker' = Idle
    <2>1. worker'.todo = <<>> /\ ~worker'.failed
      BY <1>11, IdleTyped DEF Idle
    <2>2. worker'.todo \in Rounds /\ worker.todo \in Rounds
      BY <1>11, <2>1 DEF Rounds
    <2> QED BY <2>1, <2>2
  <1>12. CalmMove
    BY CalmMoves
  <1> QED
    BY <1>1, <1>3, <1>4, <1>5, <1>7, <1>8, <1>9, <1>10, <1>11, <1>12, Zenon
    DEF CalmMove

\* The order is kept.
LEMMA OrderNext ==
  ASSUME TypesInv, [Next]_vars, Calm', ~StartReconcile, OrderInv
  PROVE  OrderInv'
  <1>0. UNCHANGED cluster
    BY CalmBefore
  <1>1. /\ Busy' => worker'.copy = cluster'
        /\ worker'.failed => worker'.todo = <<"status">>
    <2>1. /\ worker'.todo # <<>> => worker.todo # <<>> /\ worker'.copy = worker.copy
          /\ worker'.failed => worker'.todo = <<"status">>
      BY TodoNext
    <2>2. worker.todo # <<>> => worker.copy = cluster
      BY DEF OrderInv, Busy
    <2> QED BY <1>0, <2>1, <2>2 DEF Busy
  <1>3. cluster'.finalizer
    BY <1>0 DEF OrderInv
  <1>2. worker'.todo \in Rounds \/ Plain(worker'.todo)
    <2>1. worker.todo \in Rounds \/ Plain(worker.todo)
      BY DEF OrderInv, Plain, Still
    <2> QED BY <2>1, TodoNext, PlainTail
  <1> QED BY <1>1, <1>2, <1>3 DEF OrderInv, Plain, Still

\* A step that is no longer due has been taken.
LEMMA StepTaken ==
  ASSUME TypesInv, [Next]_vars, Calm', ~StartReconcile, OrderInv,
         NEW name \in PlainNames, Still(name), ~Still(name)'
  PROVE  /\ At(name) /\ Plain(worker.todo)
         /\ name \notin {"plan", "statefulSet", "distribute"} => Advances
         /\ name = "plan" => BuildPlan
         /\ name = "statefulSet" => reconcileStatefulSet
         /\ name = "distribute" => Distribute \/ GiveUp
  <1>0. worker.todo # <<>> /\ worker.todo \in Seq(StepNames)
    BY DEF TypesInv, PlanFirst, Workers, Still, Mentions
  <1>1. worker'.todo # worker.todo
    BY DEF Still
  <1>2. worker.todo \notin Rounds
    BY RoundsTyped DEF Still
  <1>3. Plain(worker.todo)
    BY <1>2, OrderedHead, <1>0 DEF Busy
  <1>4. Head(worker.todo) = name
    <2>1. CASE Head(worker.todo) # "distribute" /\ worker'.todo = Tail(worker.todo)
      BY <1>0, <2>1, MentionsHead DEF Still
    <2>2. CASE Head(worker.todo) = "distribute"
      BY <1>3, <2>2, PlainTail DEF Still
    <2> QED BY <1>1, <1>2, <2>1, <2>2, TodoNext
  <1>5. At(name)
    BY <1>0, <1>4 DEF At, Busy
  <1>6. ~(UNCHANGED worker)
    BY <1>1
  <1>7. ~UpdateStatus
    <2>1. "status" \notin PlainNames
      BY DEF PlainNames
    <2> QED BY <1>4, <2>1 DEF UpdateStatus, At
  <1>8. /\ worker.todo # <<"apply", "matches", "status">>
        /\ worker.todo # <<"matches", "status">>
    BY <1>2 DEF Rounds
  <1>9. /\ BuildPlan => name = "plan"
        /\ reconcileStatefulSet => name = "statefulSet"
        /\ Distribute => name = "distribute"
    BY <1>4 DEF BuildPlan, reconcileStatefulSet, Distribute, At
  <1>10. "apply" \notin PlainNames /\ "matches" \notin PlainNames
    BY DEF PlainNames
  <1>11. \/ Advances /\ name \notin {"plan", "statefulSet", "distribute"}
         \/ BuildPlan \/ reconcileStatefulSet \/ Distribute
         \/ name \in {"distribute", "apply", "matches"} /\ GiveUp
    BY <1>4, <1>6, <1>7, <1>8, CalmMoves, Zenon DEF CalmMove
  <1> QED BY <1>3, <1>5, <1>9, <1>10, <1>11

\* While it stays calm, no cleanup takes services away.
LEMMA CalmServices ==
  ASSUME TypesInv, [Next]_vars, Calm', ~StartReconcile, OrderInv
  PROVE  /\ store.services \cap {"headless", "tunnel"} \subseteq store'.services
         /\ ~At("prometheus") =>
              /\ store.services \subseteq store'.services
              /\ store'.services \subseteq store.services \cup {"headless", "tunnel"}
  <1>0. store \in Objects /\ Calm
    BY CalmBefore DEF TypesInv, TypeOK
  <1>1. \A name \in CleanupNames : ~At(name)
    BY OrderedHead DEF At
  <1>2. /\ ~ensureServiceAbsent
        /\ ~cleanupPrometheusServices
        /\ ~cleanupTunnelService
    <2>1. /\ "deleteHeadless" \in CleanupNames
          /\ "deletePrometheus" \in CleanupNames
          /\ "deleteTunnelService" \in CleanupNames
      BY DEF CleanupNames
    <2>2. /\ ~At("deleteHeadless") /\ ~At("deletePrometheus")
          /\ ~At("deleteTunnelService")
      BY <1>1, <2>1
    <2> QED
      BY <2>2, Zenon
      DEF ensureServiceAbsent, cleanupPrometheusServices, cleanupTunnelService,
          DeleteAll
  <1>3. ~CollectGarbage
    BY <1>0 DEF CollectGarbage, Calm
  <1>4. CASE store'.services = store.services
    BY <1>4
  <1>5. ASSUME NEW step, NEW name \in {"headless", "tunnel"}, ensureService(step, name)
        PROVE  /\ store.services \subseteq store'.services
               /\ store'.services \subseteq store.services \cup {"headless", "tunnel"}
    BY <1>0, <1>5 DEF ensureService, Write, Objects
  <1>6. CASE reconcileHeadlessService \/ reconcileTunnelService
    BY <1>5, <1>6 DEF reconcileHeadlessService, reconcileTunnelService
  <1>7. CASE reconcilePrometheusServices
    <2>1. At("prometheus")
      BY <1>7 DEF reconcilePrometheusServices
    <2>2. PICK more, less : /\ store' = [store EXCEPT !.services = (@ \cup more) \ less]
                            /\ less \cap {"headless", "tunnel"} = {}
      <3>1. CASE \E created : store' = reconcilePrometheusService(created)
        <4>1. PICK created : store' = [store EXCEPT !.services = @ \cup created]
          BY <3>1 DEF reconcilePrometheusService
        <4>2. store' = [store EXCEPT !.services = (@ \cup created) \ {}]
          BY <4>1
        <4>3. {} \cap {"headless", "tunnel"} = {}
          OBVIOUS
        <4> QED BY <4>2, <4>3, Zenon
      <3>2. CASE \E missing : store' = [reconcilePrometheusService(missing) EXCEPT
                   !.services = @ \ (PrometheusServices(seen.services)
                                       \ PrometheusOf(worker.plan))]
        <4> DEFINE less == PrometheusServices(seen.services) \ PrometheusOf(worker.plan)
        <4>1. less \cap {"headless", "tunnel"} = {}
          BY DEF PrometheusServices
        <4>2. PICK missing : store' = [reconcilePrometheusService(missing) EXCEPT
                                         !.services = @ \ less]
          BY <3>2
        <4> HIDE DEF less
        <4>3. store' = [store EXCEPT !.services = (@ \cup missing) \ less]
          BY <1>0, <4>2 DEF reconcilePrometheusService, Objects
        <4> QED BY <4>1, <4>3
      <3> QED BY <1>7, <3>1, <3>2 DEF reconcilePrometheusServices
    <2> QED BY <1>0, <2>1, <2>2 DEF Objects
  <1> QED BY <1>2, <1>3, <1>4, <1>6, <1>7, ServicesWritten

\* The services that the collectors need stay or appear.
LEMMA NeededServices ==
  ASSUME TypesInv, [Next]_vars, Calm', ~StartReconcile, OrderInv, ServicesInv
  PROVE  ServicesInv'
  <1>0. /\ UNCHANGED cluster
        /\ seen'.services = seen.services
        /\ store \in Objects
        /\ worker.todo \in Seq(StepNames)
    BY CalmBefore DEF TypesInv, TypeOK, PlanFirst, Workers
  <1>1. ASSUME NEW step, NEW name, ensureService(step, name), ~Retry
        PROVE  name \in seen.services \cup store'.services
    BY <1>0, <1>1 DEF ensureService, Write, Objects
  <1>2. "headless" \in PlainNames /\ "tunnelService" \in PlainNames
    BY DEF PlainNames
  <1>3. ~Retry
    BY CalmMoves
  <1>4. Still("headless")' \/ "headless" \in seen'.services \cup store'.services
    <2>1. CASE "headless" \in seen.services \cup store.services
      BY <1>0, <2>1, CalmServices
    <2>2. CASE Still("headless") /\ ~Still("headless")'
      <3>1. At("headless") /\ Advances
        BY <1>2, <2>2, StepTaken
      <3>2. reconcileHeadlessService
        BY <3>1 DEF At, Advances, Done
      <3> QED BY <1>0, <1>1, <1>3, <3>2 DEF reconcileHeadlessService
    <2> QED BY <2>1, <2>2 DEF ServicesInv
  <1>5. ASSUME cluster.spec.tunnel # "off"
        PROVE  Still("tunnelService")' \/ "tunnel" \in seen'.services \cup store'.services
    <2>1. CASE "tunnel" \in seen.services \cup store.services
      BY <1>0, <2>1, CalmServices
    <2>2. CASE Still("tunnelService") /\ ~Still("tunnelService")'
      <3>1. At("tunnelService") /\ Advances
        BY <1>2, <2>2, StepTaken
      <3>2. reconcileTunnelService
        BY <3>1 DEF At, Advances, Done
      <3> QED BY <1>0, <1>1, <1>3, <3>2 DEF reconcileTunnelService
    <2> QED BY <1>5, <2>1, <2>2 DEF ServicesInv
  <1> QED BY <1>0, <1>4, <1>5 DEF ServicesInv

\* The certificates of the spec are there once they have been waited for.
LEMMA IssuedNext ==
  ASSUME TypesInv, [Next]_vars, Calm', ~StartReconcile, OrderInv, IssuedInv
  PROVE  IssuedInv'
  <1>0. UNCHANGED cluster /\ seen'.issued = seen.issued
    BY CalmBefore
  <1> SUFFICES ASSUME NEW step \in CertificateSteps, ~Still(step)'
               PROVE  AwaitedBy(step, cluster'.spec) \subseteq seen'.issued
    BY DEF IssuedInv
  <1>1. CASE AwaitedBy(step, cluster.spec) \subseteq seen.issued
    BY <1>0, <1>1
  <1>2. CASE Still(step)
    <2>1. /\ step \in PlainNames
          /\ step \notin {"plan", "statefulSet", "distribute"}
      BY DEF CertificateSteps, PlainNames
    <2>2. At(step) /\ Advances
      BY <1>2, <2>1, StepTaken
    <2>3. worker.copy = cluster
      BY <2>2 DEF At, OrderInv
    <2>4. AwaitedBy(step, worker.copy.spec) \subseteq seen.issued
      BY <2>2 DEF At, Advances, Done, AwaitedBy, CertificateSteps
    <2> QED BY <1>0, <2>3, <2>4
  <1> QED BY <1>1, <1>2 DEF IssuedInv

\* A reconcile in order works on the present cluster.
LEMMA PresentCopy ==
  ASSUME TypesInv, OrderInv, Busy
  PROVE  worker.copy = cluster /\ cluster \in Clusters /\ cluster.spec \in Specs
  BY DEF TypesInv, TypeOK, OrderInv, Clusters

\* A step that comes after the plan has the present one.
LEMMA PresentPlanAtHand ==
  ASSUME TypesInv, PlanInv, NEW name \in {"prometheus", "distribute"}, At(name)
  PROVE  worker.plan = PresentPlan
  <1>1. worker.todo # <<>> /\ worker.todo \in Seq(StepNames)
    BY DEF TypesInv, PlanFirst, Workers, At, Busy
  <1>2. worker.todo[1] = name /\ 1 \in 1..Len(worker.todo)
    BY <1>1 DEF At
  <1>3. ~Precedes("plan", name, worker.todo)
    BY <1>2 DEF Precedes
  <1> QED BY <1>3 DEF PlanInv

\* What a round leaves in the worker.
LEMMA PlanKept ==
  ASSUME TypesInv, [Next]_vars, Calm', ~StartReconcile, OrderInv
  PROVE  \/ worker'.todo \in Rounds
         \/ /\ worker'.plan = worker.plan
            /\ \/ worker'.todo = worker.todo
               \/ /\ worker.todo # <<>> /\ Head(worker.todo) # "plan"
                  /\ worker'.todo = Tail(worker.todo)
         \/ BuildPlan
  <1>0. worker \in Workers
    BY DEF TypesInv, PlanFirst
  <1>1. CASE UNCHANGED worker
    BY <1>1
  <1>2. CASE Plain(worker.todo) /\ Advances
    BY <1>0, <1>2, PlainTail DEF Advances, Done, Workers
  <1>3. CASE reconcileStatefulSet /\ Plain(worker.todo)
    <2>1. PICK set : worker' = [worker EXCEPT !.todo = Tail(@), !.set = set]
      BY <1>3, CalmMoves, StatefulSetWritten
    <2>2. Head(worker.todo) # "plan" /\ worker.todo # <<>>
      BY <1>3, PlainTail DEF reconcileStatefulSet, At
    <2> QED BY <1>0, <2>1, <2>2 DEF Workers
  <1>4. CASE Distribute /\ Plain(worker.todo)
    <2>1. PICK d, pods : worker' = [worker EXCEPT !.share = d, !.pods = pods,
                                                  !.todo = ApplySteps(pods)]
      BY <1>4, CalmMoves, DistributeTyped
    <2>2. worker'.todo = ApplySteps(pods)
      BY <1>0, <2>1 DEF Workers
    <2> QED BY <2>2 DEF ApplySteps, Rounds
  <1>5. CASE GiveUp
    <2>1. worker'.todo = <<"status">>
      BY <1>0, <1>5 DEF GiveUp, Workers
    <2> QED BY <2>1 DEF Rounds
  <1>6. CASE NextPod
    <2>1. PICK left : worker' = [worker EXCEPT !.pods = left, !.todo = ApplySteps(left)]
      BY <1>6 DEF NextPod
    <2>2. worker'.todo = ApplySteps(left)
      BY <1>0, <2>1 DEF Workers
    <2> QED BY <2>2 DEF ApplySteps, Rounds
  <1>7. CASE worker' = Idle
    <2>1. worker'.todo = <<>>
      BY <1>7, IdleTyped
    <2> QED BY <2>1 DEF Rounds
  <1>8. CASE worker' = [worker EXCEPT !.todo = <<"matches", "status">>]
    <2>1. worker'.todo = <<"matches", "status">>
      BY <1>0, <1>8 DEF Workers
    <2> QED BY <2>1 DEF Rounds
  <1>9. CalmMove
    BY CalmMoves
  <1> QED
    BY <1>1, <1>2, <1>3, <1>4, <1>5, <1>6, <1>7, <1>8, <1>9, Zenon DEF CalmMove

\* The plan behind the plan API and the one of the reconcile are the present one.
LEMMA PlanNext ==
  ASSUME TypesInv, [Next]_vars, Calm', ~StartReconcile, OrderInv, PlanInv
  PROVE  PlanInv'
  <1>0. /\ UNCHANGED <<cluster, pipes>> /\ ~Restart /\ worker \in Workers
        /\ worker.todo \in Seq(StepNames) /\ PresentPlan' = PresentPlan
    BY CalmBefore DEF TypesInv, PlanFirst, Workers, PresentPlan
  <1>1. BuildPlan => plans' = PresentPlan /\ worker'.plan = PresentPlan
    <2> SUFFICES ASSUME BuildPlan PROVE plans' = PresentPlan /\ worker'.plan = PresentPlan
      OBVIOUS
    <2>1. worker.copy = cluster
      BY PresentCopy DEF BuildPlan, At
    <2> DEFINE plan == planOf(pipes, cluster.spec)
    <2>2. /\ plans' = plan
          /\ worker' = [worker EXCEPT !.todo = Tail(@), !.plan = plan]
      BY <2>1 DEF BuildPlan
    <2> HIDE DEF plan
    <2>3. plans' = plan /\ worker'.plan = plan
      BY <1>0, <2>2 DEF Workers
    <2> QED BY <2>3 DEF plan, PresentPlan
  <1>2. ~cleanupPlan
    <2>1. "dropPlan" \in CleanupNames
      BY DEF CleanupNames
    <2> QED BY <2>1, OrderedHead DEF cleanupPlan, At
  <1>3. Still("plan")' \/ plans' = PresentPlan'
    <2>1. CASE BuildPlan
      BY <1>0, <1>1, <2>1
    <2>2. CASE UNCHANGED plans /\ plans = PresentPlan
      BY <1>0, <2>2
    <2>3. "plan" \in PlainNames
      BY DEF PlainNames
    <2>4. CASE Still("plan")
      BY <2>1, <2>3, <2>4, StepTaken
    <2>5. BuildPlan \/ UNCHANGED plans
      BY <1>0, <1>2, WritersKnown, Zenon DEF Writers
    <2>6. Still("plan") \/ plans = PresentPlan
      BY DEF PlanInv
    <2> QED BY <2>1, <2>2, <2>4, <2>5, <2>6, Zenon
  <1>4. ASSUME NEW name \in {"prometheus", "distribute"}
        PROVE  Precedes("plan", name, worker'.todo) \/ worker'.plan = PresentPlan'
    <2>1. CASE worker'.todo \in Rounds
      <3>1. name \notin RoundNames
        BY DEF RoundNames
      <3> QED BY <2>1, <3>1, RoundsTyped, RoundTyped
    <2>2. CASE BuildPlan
      BY <1>0, <1>1, <2>2
    <2>3. Precedes("plan", name, worker.todo) \/ worker.plan = PresentPlan
      BY DEF PlanInv
    <2>4. CASE worker'.plan = worker.plan /\ worker'.todo = worker.todo
      BY <1>0, <2>3, <2>4
    <2>5. CASE /\ worker'.plan = worker.plan /\ worker.todo # <<>>
               /\ Head(worker.todo) # "plan" /\ worker'.todo = Tail(worker.todo)
      BY <1>0, <2>3, <2>5, PrecedesTail
    <2> QED BY <2>1, <2>2, <2>4, <2>5, PlanKept
  <1> QED BY <1>3, <1>4 DEF PlanInv

\* The services of Prometheus outputs are those of the present plan.
LEMMA PrometheusNext ==
  ASSUME TypesInv, [Next]_vars, Calm', ~StartReconcile, OrderInv, PlanInv,
         PrometheusInv
  PROVE  PrometheusInv'
  <1>0. /\ seen'.services = seen.services /\ PresentPlan' = PresentPlan
        /\ store \in Objects /\ worker.todo \in Seq(StepNames)
    BY CalmBefore DEF TypesInv, TypeOK, PlanFirst, Workers, PresentPlan
  <1> DEFINE wanted == PrometheusOf(PresentPlan)
  <1> SUFFICES ASSUME ~Still("prometheus")'
               PROVE  /\ wanted \subseteq seen.services \cup store'.services
                      /\ PrometheusServices(seen.services \cap store'.services)
                           \subseteq wanted
    BY <1>0 DEF PrometheusInv
  <1>1. CASE ~Still("prometheus")
    <2>1. ~At("prometheus")
      <3> SUFFICES ASSUME At("prometheus") PROVE Still("prometheus")
        BY <1>1
      <3>1. worker.todo # <<>> /\ Head(worker.todo) = "prometheus"
        BY DEF At, Busy
      <3>2. 1 \in 1..Len(worker.todo) /\ worker.todo[1] = "prometheus"
        BY <1>0, <3>1
      <3> QED BY <3>2 DEF Still, Mentions
    <2>2. /\ wanted \subseteq seen.services \cup store.services
          /\ PrometheusServices(seen.services \cap store.services) \subseteq wanted
      BY <1>1 DEF PrometheusInv
    <2>3. /\ store.services \subseteq store'.services
          /\ store'.services \subseteq store.services \cup {"headless", "tunnel"}
      BY <2>1, CalmServices
    <2> HIDE DEF wanted
    <2> QED BY <2>2, <2>3 DEF PrometheusServices
  <1>2. CASE Still("prometheus")
    <2>1. "prometheus" \in PlainNames
      BY DEF PlainNames
    <2>2. At("prometheus") /\ Advances
      BY <1>2, <2>1, StepTaken
    <2>3. reconcilePrometheusServices
      BY <2>2 DEF At, Advances, Done
    <2>4. worker.plan = PresentPlan
      BY <2>2, PresentPlanAtHand
    <2> DEFINE missing == wanted \ seen.services
               unused == PrometheusServices(seen.services) \ wanted
    <2>5. store' = [reconcilePrometheusService(missing) EXCEPT !.services = @ \ unused]
      <3>1. ~Retry
        BY CalmMoves
      <3> QED BY <2>3, <2>4, <3>1 DEF reconcilePrometheusServices
    <2>6. missing = wanted \ seen.services
          /\ unused = PrometheusServices(seen.services) \ wanted
      OBVIOUS
    <2> HIDE DEF missing, unused, wanted
    <2>7. store'.services = (store.services \cup missing) \ unused
      BY <1>0, <2>5 DEF reconcilePrometheusService, Objects
    <2> QED BY <2>6, <2>7 DEF PrometheusServices
  <1> QED BY <1>1, <1>2

\* Without the step that writes it only the stateful set controller changes
\* the stateful set.
LEMMA SetKept ==
  ASSUME TypesInv, [Next]_vars, Calm', ~StartReconcile, OrderInv,
         ~Still("statefulSet")
  PROVE  /\ ~reconcileStatefulSet
         /\ \/ store'.statefulSet = store.statefulSet
            \/ StatefulSetController /\ store'.statefulSet.unseen
         /\ store.statefulSet.unseen => store'.statefulSet.unseen
  <1>1. ~reconcileStatefulSet
    <2> SUFFICES ASSUME reconcileStatefulSet PROVE Still("statefulSet")
      OBVIOUS
    <2>1. /\ worker.todo # <<>> /\ worker.todo \in Seq(StepNames)
          /\ Head(worker.todo) = "statefulSet"
      BY DEF reconcileStatefulSet, At, Busy, TypesInv, PlanFirst, Workers
    <2>2. 1 \in 1..Len(worker.todo) /\ worker.todo[1] = "statefulSet"
      BY <2>1
    <2> QED BY <2>2 DEF Still, Mentions
  <1>2. ~ensureStatefulSetAbsent
    <2>1. "deleteStatefulSet" \in CleanupNames
      BY DEF CleanupNames
    <2> QED BY <2>1, OrderedHead DEF ensureStatefulSetAbsent, At
  <1>3. ~Restart /\ ~Sync("statefulSets")
    BY CalmBefore
  <1> QED BY <1>1, <1>2, <1>3, SetNext

\* The worker keeps the stateful set it has read or written.
LEMMA WorkerSetKept ==
  ASSUME TypesInv, [Next]_vars, Calm', ~StartReconcile, OrderInv,
         ~reconcileStatefulSet, Busy'
  PROVE  worker'.set = worker.set /\ Busy
  <1>0. worker \in Workers
    BY DEF TypesInv, PlanFirst
  <1>1. CASE UNCHANGED worker
    BY <1>1 DEF Busy
  <1>2. CASE Advances \/ BuildPlan
    BY <1>0, <1>2 DEF Advances, Done, BuildPlan, At, Workers
  <1>3. CASE Distribute
    <2>1. PICK d, pods : worker' = [worker EXCEPT !.share = d, !.pods = pods,
                                                  !.todo = ApplySteps(pods)]
      BY <1>3, CalmMoves, DistributeTyped
    <2> QED BY <1>0, <1>3, <2>1 DEF Distribute, At, Workers
  <1>4. CASE Busy /\ GiveUp
    BY <1>0, <1>4 DEF GiveUp, Workers
  <1>5. CASE worker.todo = <<"matches", "status">> /\ NextPod
    <2>1. PICK left : worker' = [worker EXCEPT !.pods = left, !.todo = ApplySteps(left)]
      BY <1>5 DEF NextPod
    <2>2. worker'.set = worker.set
      BY <1>0, <2>1 DEF Workers
    <2> QED BY <1>5, <2>2 DEF Busy
  <1>6. worker' # Idle
    BY IdleTyped DEF Busy
  <1>7. CASE /\ worker.todo = <<"apply", "matches", "status">>
             /\ worker' = [worker EXCEPT !.todo = <<"matches", "status">>]
    BY <1>0, <1>7 DEF Busy, Workers
  <1>8. CalmMove
    BY CalmMoves
  <1> QED
    BY <1>1, <1>2, <1>3, <1>4, <1>5, <1>6, <1>7, <1>8, Zenon DEF CalmMove

\* What reconcileStatefulSet leaves is what the spec asks for.
LEMMA ResultAsked ==
  ASSUME NEW old \in StatefulSets, NEW spec \in Specs
  PROVE  LET result == ResultOf(old, spec)
         IN  /\ result.exists /\ result.replicas = spec.replicas
             /\ volumesEqual(result.volumes, volumes(spec))
  <1> DEFINE new == buildStatefulSet(spec)
             result == ResultOf(old, spec)
  <1>1. /\ new \in StatefulSets /\ new.exists /\ new.replicas = spec.replicas
        /\ new.volumes = volumes(spec)
    BY StatefulSetTyped DEF buildStatefulSet
  <1>2. \A vs : volumesEqual(vs, vs)
    BY DEF volumesEqual
  <1>3. new.volumes \in SUBSET Volumes /\ old.volumes \in SUBSET Volumes
    BY <1>1 DEF StatefulSets, Volumes
  <1>4. CASE ~old.exists
    BY <1>1, <1>2, <1>4 DEF ResultOf
  <1>5. CASE old.exists
    <2> DEFINE vs == IF ~volumesEqual(old.volumes, new.volumes)
                       THEN new.volumes ELSE old.volumes
    <2>1. vs \in SUBSET Volumes /\ volumesEqual(vs, volumes(spec))
      BY <1>1, <1>2, <1>3
    <2>2. CASE old.replicas = new.replicas /\ volumesEqual(old.volumes, new.volumes)
      BY <1>1, <1>5, <2>2 DEF ResultOf
    <2>3. CASE ~(old.replicas = new.replicas /\ volumesEqual(old.volumes, new.volumes))
      <3>1. result = Unseen([old EXCEPT !.replicas = new.replicas, !.volumes = vs])
        BY <1>5, <2>3 DEF ResultOf
      <3> HIDE DEF vs, new, result
      <3>2. /\ result.exists
            /\ result.replicas = new.replicas
            /\ result.volumes = vs
        BY <1>5, <3>1 DEF Unseen, StatefulSets
      <3>3. result.exists /\ result.replicas = spec.replicas
            /\ volumesEqual(result.volumes, volumes(spec))
        BY <1>1, <2>1, <3>2
      <3> QED BY <3>3 DEF result
    <2> QED BY <2>2, <2>3
  <1> QED BY <1>4, <1>5 DEF StatefulSets

\* The stateful set is the one that the spec asks for, or another reconcile
\* will see to it.
LEMMA SetInvNext ==
  ASSUME TypesInv, VersionInv, [Next]_vars, Calm', ~StartReconcile, OrderInv,
         SetInv
  PROVE  SetInv'
  <1>0. /\ UNCHANGED cluster
        /\ store \in Objects
        /\ seen.statefulSet \in StatefulSets
        /\ worker \in Workers
    BY CalmBefore DEF TypesInv, TypeOK, PlanFirst, Objects
  <1> SUFFICES ASSUME ~Still("statefulSet")'
               PROVE  /\ store'.statefulSet.unseen \/ Asked(store'.statefulSet)
                      /\ Busy' =>
                           /\ Asked(worker'.set)
                           /\ \/ store'.statefulSet.unseen
                              \/ worker'.set = store'.statefulSet
    BY <1>0 DEF SetInv, Asked
  <1>1. CASE ~Still("statefulSet")
    <2>1. /\ store.statefulSet.unseen \/ Asked(store.statefulSet)
          /\ Busy => /\ Asked(worker.set)
                     /\ store.statefulSet.unseen \/ worker.set = store.statefulSet
      BY <1>1 DEF SetInv
    <2>2. /\ ~reconcileStatefulSet
          /\ store'.statefulSet = store.statefulSet \/ store'.statefulSet.unseen
          /\ store.statefulSet.unseen => store'.statefulSet.unseen
      BY <1>1, SetKept
    <2>3. Busy' => worker'.set = worker.set /\ Busy
      BY <2>2, WorkerSetKept
    <2> QED BY <2>1, <2>2, <2>3
  <1>2. CASE Still("statefulSet")
    <2>1. "statefulSet" \in PlainNames
      BY DEF PlainNames
    <2>2. reconcileStatefulSet /\ Busy
      BY <1>2, <2>1, StepTaken DEF At
    <2>3. worker.copy = cluster /\ cluster.spec \in Specs
      BY <2>2, PresentCopy
    <2> DEFINE result == ResultOf(seen.statefulSet, cluster.spec)
    <2>4. /\ worker' = [worker EXCEPT !.todo = Tail(@), !.set = result]
          /\ \/ result = seen.statefulSet /\ UNCHANGED store
             \/ /\ seen.statefulSet = store.statefulSet
                /\ store' = [store EXCEPT !.statefulSet = result]
      BY <2>2, <2>3, StatefulSetWritten, CalmMoves
    <2>5. Asked(result)
      BY <1>0, <2>3, ResultAsked DEF Asked
    <2>6. result # seen.statefulSet => result.unseen
      BY <1>0, <2>3, ResultUnseen
    <2> HIDE DEF result
    <2>7. worker'.set = result
      BY <1>0, <2>4 DEF Workers
    <2>8. \/ result = seen.statefulSet /\ store'.statefulSet = store.statefulSet
          \/ store'.statefulSet = result
      BY <1>0, <2>4 DEF Objects
    <2> QED BY <2>5, <2>6, <2>7, <2>8 DEF VersionInv
  <1> QED BY <1>1, <1>2

\* The steps by which pods come and go.
PodsMove ==
  \/ UNCHANGED pod \/ StatefulSetController
  \/ \E p \in Pods : LosePod(p) \/ StartPod(p)

\* A pod that has its targets keeps what it has, or the stateful set has
\* still to report about it.
LEMMA PodKept ==
  ASSUME TypesInv, [Next]_vars, Calm', ~StartReconcile, OrderInv, SetInv,
         ~Still("statefulSet"), PodsMove, NEW p \in Pods, NEW d,
         Excused(p) \/ HasTargets(p, d)
  PROVE  Excused(p)' \/ pod'[p] = pod[p]
  <1>0. /\ pod \in [Pods -> PodRecs] /\ store \in Objects
        /\ store.statefulSet.unseen => store'.statefulSet.unseen
    BY SetKept DEF TypesInv, TypeOK, PodRecs
  <1>1. CASE StatefulSetController
    <2>1. CASE store'.statefulSet.unseen
      BY <2>1 DEF Excused
    <2>2. CASE ~store.statefulSet.exists
      <3>1. store.statefulSet.unseen
        BY <2>2 DEF SetInv, Asked
      <3> QED BY <1>0, <2>1, <3>1
    <2>3. CASE store.statefulSet.exists
      <3>1. PICK n : store' = [store EXCEPT !.statefulSet = Unseen([@ EXCEPT !.ready = n])]
        BY <1>1, <2>3 DEF StatefulSetController
      <3>2. store'.statefulSet.unseen
        BY <1>0, <3>1 DEF Unseen, Objects, StatefulSets
      <3> QED BY <2>1, <3>2
    <2> QED BY <2>2, <2>3
  <1>2. ASSUME NEW q \in Pods, LosePod(q)
        PROVE  Excused(p)' \/ pod'[p] = pod[p]
    <2>1. pod' = [pod EXCEPT ![q] = [NoPod EXCEPT !.state = "lost"]]
      BY <1>2 DEF LosePod
    <2>2. CASE p = q
      <3>1. pod'[p].state = "lost"
        BY <1>0, <2>1, <2>2 DEF NoPod
      <3> QED BY <3>1 DEF Excused
    <2>3. CASE p # q
      BY <1>0, <2>1, <2>3
    <2> QED BY <2>2, <2>3
  <1>3. ASSUME NEW q \in Pods, StartPod(q)
        PROVE  Excused(p)' \/ pod'[p] = pod[p]
    <2>1. CASE p = q
      <3>1. pod[p].state = "absent"
        BY <1>3, <2>1 DEF StartPod, NoPod
      <3>2. store.statefulSet.unseen
        BY <3>1 DEF Excused, HasTargets, Running
      <3> QED BY <1>0, <3>2 DEF Excused
    <2>2. CASE p # q
      BY <1>0, <1>3, <2>2 DEF StartPod
    <2> QED BY <2>1, <2>2
  <1> QED BY <1>1, <1>2, <1>3 DEF PodsMove

\* What an unchanged pod has, it keeps.
LEMMA SamePod ==
  ASSUME TypesInv, [Next]_vars, Calm', ~StartReconcile, OrderInv,
         ~Still("statefulSet"), NEW p, NEW d, pod'[p] = pod[p]
  PROVE  /\ Excused(p) => Excused(p)'
         /\ HasTargets(p, d) => HasTargets(p, d)'
         /\ Configured(p, d) => Configured(p, d)'
  <1>1. /\ store.statefulSet.unseen => store'.statefulSet.unseen
        /\ PresentPlan' = PresentPlan
    BY SetKept, CalmBefore DEF PresentPlan
  <1>2. Excused(p) => Excused(p)'
    BY <1>1 DEF Excused
  <1>3. HasTargets(p, d) => HasTargets(p, d)'
    BY <1>1 DEF HasTargets, Running
  <1>4. Configured(p, d) => Configured(p, d)'
    BY <1>1, <1>3 DEF Configured
  <1> QED BY <1>2, <1>3, <1>4

\* The ordinals of the spec are pods.
LEMMA OrdinalsArePods ==
  ASSUME NEW spec \in Specs
  PROVE  Ordinals(spec) \subseteq Pods /\ spec.replicas \in 1..MaxPods
  BY SpecsAssumption, PodsAssumption DEF Ordinals, Pods

\* Pods that come and go leave the others configured.
LEMMA ConfiguredKept ==
  ASSUME TypesInv, [Next]_vars, Calm', ~StartReconcile, OrderInv, SetInv,
         ~Still("statefulSet"), PodsMove, NEW left, NEW d, ConfiguredBut(left, d)
  PROVE  ConfiguredBut(left, d)'
  <1>0. UNCHANGED cluster /\ cluster.spec \in Specs
    BY CalmBefore DEF TypesInv, TypeOK
  <1> SUFFICES ASSUME NEW p \in Ordinals(cluster.spec) \ left,
                      Share(d, p) # {}
               PROVE  Excused(p)' \/ Configured(p, d)'
    BY <1>0 DEF ConfiguredBut
  <1>1. p \in Pods
    BY <1>0, OrdinalsArePods
  <1>2. Excused(p) \/ Configured(p, d)
    BY DEF ConfiguredBut
  <1>3. Excused(p) \/ HasTargets(p, d)
    BY <1>2 DEF Configured
  <1>4. Excused(p)' \/ pod'[p] = pod[p]
    BY <1>1, <1>3, PodKept
  <1> QED BY <1>2, <1>4, SamePod

\* A step that leaves the worker alone is no request.
LEMMA PodsMoved ==
  ASSUME TypesInv, [Next]_vars, Calm', ~StartReconcile, OrderInv,
         ~Still("statefulSet"), UNCHANGED worker, ~worker.failed
  PROVE  PodsMove
  <1>0. worker \in Workers /\ ~reconcileStatefulSet
    BY SetKept DEF TypesInv, PlanFirst
  <1>1. ~GiveUp
    <2> SUFFICES ASSUME GiveUp PROVE FALSE
      OBVIOUS
    <2>1. worker'.failed
      BY <1>0 DEF GiveUp, Workers
    <2> QED BY <2>1
  <1>2. ~(At("matches") /\ NextPod)
    <2> SUFFICES ASSUME At("matches"), NextPod PROVE FALSE
      OBVIOUS
    <2>1. PICK left : worker' = [worker EXCEPT !.pods = left, !.todo = ApplySteps(left)]
      BY DEF NextPod
    <2>2. worker.todo = ApplySteps(left)
      BY <1>0, <2>1 DEF Workers
    <2>3. Head(worker.todo) = "matches"
      BY DEF At
    <2> QED BY <2>2, <2>3 DEF ApplySteps
  <1>3. ~(At("apply") /\ Proceed)
    <2> SUFFICES ASSUME At("apply"), Proceed PROVE FALSE
      OBVIOUS
    <2>1. worker.todo # <<>> /\ worker.todo \in Seq(StepNames)
      BY <1>0 DEF At, Busy, Workers
    <2>2. worker' = Idle \/ worker'.todo = Tail(worker.todo)
      BY <1>0 DEF Proceed, Workers
    <2>3. worker' # Idle
      BY <2>1, IdleTyped
    <2>4. Tail(worker.todo) # worker.todo
      <3>1. Len(Tail(worker.todo)) # Len(worker.todo)
        BY <2>1
      <3> QED BY <3>1
    <2> QED BY <2>2, <2>3, <2>4
  <1>4. /\ ~sendApplyRequest /\ ~applyTunnelTargetMatches /\ ~RequestFails
        /\ ~MatchRequestFails /\ ~DeleteMatchFails
    BY <1>1, <1>2, <1>3, Zenon
    DEF sendApplyRequest, applyTunnelTargetMatches, RequestFails,
        MatchRequestFails, DeleteMatchFails
  <1> QED BY <1>0, <1>4, WritersKnown DEF Writers, PodsMove

\* A round that is in progress, and one that is over.
Held == IF Busy THEN ServedInv ELSE StatusInv

\* While the worker rests, pods that come and go are excused.
LEMMA KeptByRest ==
  ASSUME TypesInv, [Next]_vars, Calm', ~StartReconcile, OrderInv, SetInv,
         ~Still("statefulSet"), UNCHANGED worker, ~worker.failed, Held
  PROVE  Held'
  <1>0. /\ UNCHANGED <<cluster, pipes>>
        /\ PresentPlan' = PresentPlan
        /\ PodsMove
        /\ cluster.spec \in Specs /\ ~CreateCluster
    BY CalmBefore, PodsMoved DEF PresentPlan, TypesInv, TypeOK
  <1>1. Busy' <=> Busy
    BY DEF Busy
  <1>2. CASE Busy
    <2> SUFFICES ServedInv'
      BY <1>1, <1>2 DEF Held
    <2>0. ServedInv
      BY <1>2 DEF Held
    <2>1. PICK d, left, q : d = worker.share /\ left = worker.pods /\ q = Serving
      OBVIOUS
    <2>2. d = worker'.share /\ left = worker'.pods /\ q = Serving'
      BY <2>1 DEF Serving
    <2>3. ConfiguredBut(left, d)'
      <3>1. ConfiguredBut(left, d)
        BY <2>0, <2>1 DEF ServedInv
      <3> QED BY <1>0, <3>1, ConfiguredKept
    <2>4. ASSUME NEW p \in Ordinals(cluster.spec),
                 worker.todo = <<"matches", "status">>, p = q
          PROVE  Excused(p)' \/ HasTargets(p, d)'
      <3>1. p \in Pods
        BY <1>0, OrdinalsArePods
      <3>2. Excused(p) \/ HasTargets(p, d)
        BY <2>0, <2>1, <2>4 DEF ServedInv
      <3>3. Excused(p)' \/ pod'[p] = pod[p]
        BY <1>0, <3>1, <3>2, PodKept
      <3> QED BY <3>2, <3>3, SamePod
    <2>5. /\ worker'.plan = PresentPlan'
          /\ worker'.share \in Distributions(cluster'.spec, PresentPlan', cluster'.spec.replicas)
          /\ worker'.todo = <<"status">> => worker'.pods = {}
      BY <1>0, <2>0 DEF ServedInv
    <2>6. ConfiguredBut(worker.pods, worker.share)'
      BY <2>2, <2>3
    <2>7. \A p \in Ordinals(cluster'.spec) :
            worker'.todo = <<"matches", "status">> /\ p = Serving' =>
              Excused(p)' \/ HasTargets(p, worker.share)'
      BY <1>0, <2>2, <2>4
    <2> QED BY <2>5, <2>6, <2>7 DEF ServedInv
  <1>3. CASE ~Busy
    <2>1. UNCHANGED status
      <3>1. ~UpdateStatus
        BY <1>3 DEF UpdateStatus, At
      <3> QED BY <1>0, <3>1, WritersKnown DEF Writers
    <2>2. StatusInv
      BY <1>3 DEF Held
    <2>3. PICK d \in Distributions(cluster.spec, PresentPlan, cluster.spec.replicas) :
            Told(d) /\ ConfiguredBut({}, d)
      BY <2>2, Zenon DEF StatusInv
    <2>4. ConfiguredBut({}, d)'
      BY <1>0, <2>3, ConfiguredKept
    <2>5. Told(d)'
      BY <2>1, <2>3, Zenon DEF Told
    <2>6. d \in Distributions(cluster'.spec, PresentPlan', cluster'.spec.replicas)
      BY <1>0
    <2>7. StatusInv'
      BY <2>4, <2>5, <2>6, Zenon DEF StatusInv
    <2> QED BY <1>1, <1>3, <2>7 DEF Held
  <1> QED BY <1>2, <1>3

\* A pod that has got its request has its targets.
LEMMA KeptByApply ==
  ASSUME TypesInv, [Next]_vars, Calm', ~StartReconcile, OrderInv,
         ~Still("statefulSet"), ServedInv, sendApplyRequest, Running(Serving),
         worker.todo = <<"apply", "matches", "status">>,
         worker' = [worker EXCEPT !.todo = <<"matches", "status">>]
  PROVE  ServedInv'
  <1>0. /\ UNCHANGED <<cluster, pipes>> /\ PresentPlan' = PresentPlan
        /\ cluster.spec \in Specs /\ worker \in Workers
        /\ pod \in [Pods -> PodRecs]
        /\ store.statefulSet.unseen => store'.statefulSet.unseen
    BY CalmBefore, SetKept DEF PresentPlan, TypesInv, TypeOK, PlanFirst, PodRecs
  <1>1. PICK d, left, q : d = worker.share /\ left = worker.pods /\ q = Serving
    OBVIOUS
  <1>2. /\ worker'.share = d
        /\ worker'.pods = left
        /\ worker'.plan = worker.plan
        /\ worker'.todo = <<"matches", "status">>
    BY <1>0, <1>1 DEF Workers
  <1>3. Serving' = q
    BY <1>1, <1>2 DEF Serving
  <1>4. pod' = [pod EXCEPT ![q] = [@ EXCEPT !.plan = worker.plan,
                  !.targets = Share(d, q)]]
    BY <1>1 DEF sendApplyRequest, Configure
  <1>5. worker.plan = PresentPlan /\ Running(q)
    BY <1>1 DEF ServedInv
  <1>6. ASSUME q \in Pods
        PROVE  /\ pod'[q].state = pod[q].state /\ pod'[q].matches = pod[q].matches
               /\ pod'[q].plan = PresentPlan
               /\ pod'[q].targets = Share(d, q)
    BY <1>0, <1>4, <1>5, <1>6 DEF PodRecs
  <1>7. ASSUME q \in Pods PROVE HasTargets(q, d)'
    BY <1>0, <1>5, <1>6, <1>7 DEF HasTargets, Running
  <1>8. ASSUME NEW p \in Ordinals(cluster.spec) \ left, Share(d, p) # {}
        PROVE  Excused(p)' \/ Configured(p, d)'
    <2>1. p \in Pods
      BY <1>0, OrdinalsArePods
    <2>2. Excused(p) \/ Configured(p, d)
      BY <1>1, <1>8 DEF ServedInv, ConfiguredBut
    <2>3. CASE p = q
      <3>1. Excused(p) => Excused(p)'
        BY <1>0, <1>6, <2>1, <2>3 DEF Excused
      <3>2. Configured(p, d) => Configured(p, d)'
        BY <1>0, <1>6, <1>7, <2>1, <2>3 DEF Configured
      <3> QED BY <2>2, <3>1, <3>2
    <2>4. CASE p # q
      <3>1. pod'[p] = pod[p]
        BY <1>0, <1>4, <2>1, <2>4
      <3> QED BY <2>2, <3>1, SamePod
    <2> QED BY <2>3, <2>4
  <1>9. ConfiguredBut(left, d)'
    BY <1>0, <1>8 DEF ConfiguredBut
  <1>10. ConfiguredBut(worker.pods, worker.share)'
    BY <1>2, <1>9
  <1>11. \A p \in Ordinals(cluster'.spec) :
           worker'.todo = <<"matches", "status">> /\ p = Serving' =>
             Excused(p)' \/ HasTargets(p, worker.share)'
    BY <1>0, <1>2, <1>3, <1>7, OrdinalsArePods
  <1>12. /\ worker'.plan = PresentPlan'
         /\ worker'.share \in Distributions(cluster'.spec, PresentPlan', cluster'.spec.replicas)
    BY <1>0, <1>1, <1>2, <1>5 DEF ServedInv
  <1>13. worker'.todo # <<"status">>
    BY <1>2
  <1> QED BY <1>10, <1>11, <1>12, <1>13 DEF ServedInv

\* A pod that has got its matches is configured, and the next one is served.
LEMMA KeptByMatches ==
  ASSUME TypesInv, [Next]_vars, Calm', ~StartReconcile, OrderInv,
         ~Still("statefulSet"), ServedInv, NextPod,
         applyTunnelTargetMatches \/ DeleteMatchFails,
         worker.todo = <<"matches", "status">>, ~worker'.failed
  PROVE  ServedInv' /\ Busy'
  <1>0. /\ UNCHANGED <<cluster, pipes>> /\ PresentPlan' = PresentPlan
        /\ cluster.spec \in Specs /\ worker \in Workers
        /\ pod \in [Pods -> PodRecs]
        /\ store.statefulSet.unseen => store'.statefulSet.unseen
    BY CalmBefore, SetKept DEF PresentPlan, TypesInv, TypeOK, PlanFirst, PodRecs
  <1>1. PICK d, q : d = worker.share /\ q = Serving
    OBVIOUS
  <1>2. PICK left : left = worker.pods \ {q}
    OBVIOUS
  <1>3. /\ worker'.share = d
        /\ worker'.pods = left
        /\ worker'.plan = worker.plan
        /\ worker'.todo = ApplySteps(left)
    BY <1>0, <1>1, <1>2 DEF NextPod, Workers
  <1>4. /\ worker'.todo # <<>> /\ worker'.todo # <<"matches", "status">>
        /\ worker'.todo = <<"status">> => left = {}
    BY <1>3 DEF ApplySteps
  <1>5. worker.plan = PresentPlan
    BY DEF ServedInv
  <1>6. PICK m : /\ pod' = [pod EXCEPT ![q].matches = m]
                 /\ MatchesOf(PresentPlan) \subseteq m
    <2>1. CASE applyTunnelTargetMatches
      <3>1. ~GiveUp
        <4> SUFFICES ASSUME GiveUp PROVE FALSE
          OBVIOUS
        <4>1. worker'.failed
          BY <1>0 DEF GiveUp, Workers
        <4> QED BY <4>1
      <3>2. pod' = [pod EXCEPT ![q].matches = MatchesOf(PresentPlan)]
        BY <1>1, <1>5, <2>1, <3>1 DEF applyTunnelTargetMatches
      <3> QED BY <3>2
    <2>2. CASE DeleteMatchFails
      <3>1. pod' = [pod EXCEPT ![q].matches = pod[q].matches \cup MatchesOf(PresentPlan)]
        BY <1>1, <1>5, <2>2 DEF DeleteMatchFails
      <3>2. MatchesOf(PresentPlan) \subseteq pod[q].matches \cup MatchesOf(PresentPlan)
        OBVIOUS
      <3> QED BY <3>1, <3>2
    <2> QED BY <2>1, <2>2
  <1>7. ASSUME q \in Pods
        PROVE  /\ pod'[q].state = pod[q].state /\ pod'[q].matches = m
               /\ pod'[q].plan = pod[q].plan /\ pod'[q].targets = pod[q].targets
    BY <1>0, <1>6, <1>7 DEF PodRecs
  <1>8. ASSUME NEW p \in Ordinals(cluster.spec) \ left, Share(d, p) # {}
        PROVE  Excused(p)' \/ Configured(p, d)'
    <2>1. p \in Pods
      BY <1>0, OrdinalsArePods
    <2>2. CASE p = q
      <3>1. Excused(p) \/ HasTargets(p, d)
        BY <1>1, <1>8, <2>2 DEF ServedInv
      <3>2. Excused(p) => Excused(p)'
        BY <1>0, <1>7, <2>1, <2>2 DEF Excused
      <3>3. HasTargets(p, d) => HasTargets(p, d)'
        BY <1>0, <1>7, <2>1, <2>2 DEF HasTargets, Running
      <3>4. (MatchesOf(PresentPlan) \subseteq pod[p].matches)'
        BY <1>0, <1>6, <1>7, <2>1, <2>2
      <3> QED BY <3>1, <3>2, <3>3, <3>4 DEF Configured
    <2>3. CASE p # q
      <3>1. Excused(p) \/ Configured(p, d)
        BY <1>1, <1>2, <1>8, <2>3 DEF ServedInv, ConfiguredBut
      <3>2. pod'[p] = pod[p]
        BY <1>0, <1>6, <2>1, <2>3
      <3> QED BY <3>1, <3>2, SamePod
    <2> QED BY <2>2, <2>3
  <1>9. ConfiguredBut(left, d)'
    BY <1>0, <1>8 DEF ConfiguredBut
  <1>10. ConfiguredBut(worker.pods, worker.share)'
    BY <1>3, <1>9
  <1>11. /\ worker'.plan = PresentPlan'
         /\ worker'.share \in Distributions(cluster'.spec, PresentPlan', cluster'.spec.replicas)
    BY <1>0, <1>1, <1>3, <1>5 DEF ServedInv
  <1> QED BY <1>3, <1>4, <1>10, <1>11 DEF ServedInv, Busy

\* The status is written when all pods have been served.
LEMMA KeptByStatus ==
  ASSUME TypesInv, [Next]_vars, Calm', ~StartReconcile, OrderInv,
         ~Still("statefulSet"), ServedInv, UpdateStatus, ~worker.failed,
         worker.todo = <<"status">>
  PROVE  StatusInv'
  <1>0. /\ UNCHANGED <<cluster, pipes, pod, store>>
        /\ PresentPlan' = PresentPlan
        /\ worker.copy = cluster
    <2>1. UNCHANGED <<cluster, pipes, pod, store>>
      BY DEF UpdateStatus
    <2>2. worker.copy = cluster
      BY PresentCopy DEF UpdateStatus, At
    <2> QED BY <2>1, <2>2 DEF PresentPlan
  <1>1. PICK d : d = worker.share
    OBVIOUS
  <1>2. /\ ConfiguredBut({}, d)
        /\ d \in Distributions(cluster.spec, PresentPlan, cluster.spec.replicas)
    BY <1>1 DEF ServedInv
  <1>3. ConfiguredBut({}, d)'
    BY <1>0, <1>2
    DEF ConfiguredBut, Excused, Configured, HasTargets, Running
  <1>4. d \in Distributions(cluster'.spec, PresentPlan', cluster'.spec.replicas)
    BY <1>0, <1>2
  <1>5. CASE status' = [status EXCEPT !.written = FALSE]
    <2>1. ~status'.written
      BY <1>5 DEF TypesInv, TypeOK
    <2>2. Told(d)'
      BY <2>1, Zenon DEF Told
    <2> QED BY <1>3, <1>4, <2>2, Zenon DEF StatusInv
  <1>6. CASE status' = [applied |-> ~worker.failed, written |-> TRUE,
                        exhausted |-> ~worker.failed /\ LeftOut(worker.share) # {}]
    <2>1. /\ status'.applied <=> ~worker.failed
          /\ status'.exhausted <=> (~worker.failed /\ LeftOut(d) # {})
      BY <1>1, <1>6
    <2>2. Told(d)'
      BY <2>1, Zenon DEF Told
    <2> QED BY <1>3, <1>4, <2>2, Zenon DEF StatusInv
  <1> QED BY <1>5, <1>6, Zenon DEF UpdateStatus

\* A round begins with all replicas ready and no pod served.
LEMMA RoundBegins ==
  ASSUME TypesInv, [Next]_vars, Calm', ~StartReconcile, OrderInv, PlanInv, SetInv,
         Distribute, Plain(worker.todo), ~worker.failed
  PROVE  /\ ServedInv' /\ Busy' /\ UNCHANGED store
         /\ \/ store.statefulSet.unseen
            \/ store.statefulSet.ready >= store.statefulSet.replicas
  <1>0. /\ UNCHANGED <<cluster, pipes, store, pod>>
        /\ PresentPlan' = PresentPlan
        /\ cluster.spec \in Specs /\ worker \in Workers /\ Busy /\ At("distribute")
        /\ worker.copy = cluster
    <2>1. UNCHANGED <<cluster, pipes, store, pod>> /\ Busy /\ At("distribute")
      BY DEF Distribute, ControllerOnly, At
    <2> QED BY <2>1, PresentCopy DEF PresentPlan, TypesInv, PlanFirst
  <1>1. worker.plan = PresentPlan
    BY <1>0, PresentPlanAtHand
  <1>2. ~Still("statefulSet")
    <2>1. Head(worker.todo) = "distribute"
      BY <1>0 DEF At
    <2> QED BY <2>1, PlainTail DEF Still
  <1>3. /\ worker.set.replicas = cluster.spec.replicas
        /\ store.statefulSet.unseen \/ worker.set = store.statefulSet
    <2>1. Busy
      BY <1>0
    <2>2. Asked(worker.set) /\ (store.statefulSet.unseen \/ worker.set = store.statefulSet)
      BY <1>2, <2>1, Zenon DEF SetInv
    <2> QED BY <2>2 DEF Asked
  <1>4. ~(worker.set.ready < worker.set.replicas)
    <2>1. ~Retry
      BY CalmMoves
    <2> QED BY <2>1, Zenon DEF Distribute
  <1>5. PICK d \in Distributions(worker.copy.spec, worker.plan, worker.set.replicas) :
          worker' = [worker EXCEPT
            !.share = d, !.pods = UNION {d[t] : t \in DOMAIN d},
            !.todo = ApplySteps(UNION {d[t] : t \in DOMAIN d})]
    BY <1>4 DEF Distribute
  <1>a. d \in Distributions(cluster.spec, PresentPlan, cluster.spec.replicas)
    BY <1>0, <1>1, <1>3, <1>5
  <1>6. PICK pods : pods = UNION {d[t] : t \in DOMAIN d}
    OBVIOUS
  <1>7. /\ worker'.share = d
        /\ worker'.pods = pods
        /\ worker'.plan = worker.plan
        /\ worker'.todo = ApplySteps(pods)
    BY <1>0, <1>5, <1>6 DEF Workers
  <1>8. /\ worker'.todo # <<>> /\ worker'.todo # <<"matches", "status">>
        /\ worker'.todo = <<"status">> => pods = {}
    BY <1>7 DEF ApplySteps
  <1>9. ConfiguredBut(pods, d)'
    <2> SUFFICES ASSUME NEW p \in Ordinals(cluster.spec) \ pods,
                        NEW t \in DOMAIN d, p \in d[t]
                 PROVE  FALSE
      BY <1>0 DEF ConfiguredBut, Share
    <2> QED BY <1>6
  <1>10. ConfiguredBut(worker.pods, worker.share)'
    BY <1>7, <1>9
  <1>11. /\ worker'.plan = PresentPlan'
         /\ worker'.share \in Distributions(cluster'.spec, PresentPlan', cluster'.spec.replicas)
    BY <1>0, <1>1, <1>a, <1>7
  <1>12. ServedInv' /\ Busy'
    BY <1>7, <1>8, <1>10, <1>11 DEF ServedInv, Busy
  <1>13. store.statefulSet.unseen \/ store.statefulSet.ready >= store.statefulSet.replicas
    <2>1. worker.set.ready \in Int /\ worker.set.replicas \in Int
      BY <1>0 DEF Workers, StatefulSets
    <2> QED BY <1>3, <1>4, <2>1
  <1> QED BY <1>0, <1>12, <1>13

\* A round that is under way or over goes on as it should.
LEMMA RoundGoesOn ==
  ASSUME TypesInv, [Next]_vars, Calm', ~StartReconcile, OrderInv, SetInv,
         worker.todo \in Rounds, ~worker.failed, ~worker'.failed, Held
  PROVE  Held'
  <1>0. ~Still("statefulSet") /\ ~Still("distribute") /\ worker \in Workers
    <2>1. "statefulSet" \in PlainNames /\ "distribute" \in PlainNames
      BY DEF PlainNames
    <2> QED BY <2>1, RoundsTyped DEF Still, TypesInv, PlanFirst
  <1>1. ~Plain(worker.todo)
    BY <1>0 DEF Plain, Still
  <1>2. ~GiveUp
    <2> SUFFICES ASSUME GiveUp PROVE FALSE
      OBVIOUS
    <2>1. worker'.failed
      BY <1>0 DEF GiveUp, Workers
    <2> QED BY <2>1
  <1>3. CASE UNCHANGED worker
    BY <1>0, <1>3, KeptByRest
  <1>4. CASE /\ worker.todo = <<"apply", "matches", "status">>
             /\ worker' = [worker EXCEPT !.todo = <<"matches", "status">>]
             /\ sendApplyRequest /\ Running(Serving)
    <2>1. worker.todo # <<>>
      BY <1>4
    <2>2. ServedInv
      BY <2>1, Zenon DEF Held, Busy
    <2>3. ServedInv'
      BY <1>0, <1>4, <2>2, KeptByApply
    <2>4. worker'.todo # <<>>
      BY <1>0, <1>4 DEF Workers
    <2> QED BY <2>3, <2>4, Zenon DEF Held, Busy
  <1>5. CASE /\ worker.todo = <<"matches", "status">> /\ NextPod
             /\ applyTunnelTargetMatches \/ DeleteMatchFails
    <2>1. worker.todo # <<>>
      BY <1>5
    <2>2. ServedInv
      BY <2>1, Zenon DEF Held, Busy
    <2>3. ServedInv' /\ Busy'
      BY <1>0, <1>5, <2>2, KeptByMatches
    <2> QED BY <2>3, Zenon DEF Held
  <1>6. CASE /\ UpdateStatus /\ worker.todo = <<"status">> /\ ~worker.failed
             /\ worker' = Idle
    <2>1. worker.todo # <<>>
      BY <1>6
    <2>2. ServedInv
      BY <2>1, Zenon DEF Held, Busy
    <2>3. StatusInv'
      BY <1>0, <1>6, <2>2, KeptByStatus
    <2>4. worker'.todo = <<>>
      BY <1>6, IdleTyped
    <2> QED BY <2>3, <2>4, Zenon DEF Held, Busy
  <1>7. CalmMove
    BY CalmMoves
  <1> QED BY <1>1, <1>2, <1>3, <1>4, <1>5, <1>6, <1>7, Zenon DEF CalmMove

\* A round that has failed is not calm when it is over.
LEMMA FailureStays ==
  ASSUME TypesInv, [Next]_vars, Calm', ~StartReconcile, OrderInv, worker.failed
  PROVE  worker'.failed
  <1>0. worker.todo = <<"status">> /\ worker \in Workers
    BY DEF OrderInv, TypesInv, PlanFirst
  <1>1. ~Plain(worker.todo)
    <2>1. "status" \notin PlainNames
      BY DEF PlainNames
    <2> QED BY <1>0, <2>1, PlainTail
  <1>2. GiveUp => worker'.failed
    BY <1>0 DEF GiveUp, Workers
  <1>3. /\ worker.todo # <<"apply", "matches", "status">>
        /\ worker.todo # <<"matches", "status">>
    BY <1>0
  <1>4. CalmMove
    BY CalmMoves
  <1> QED BY <1>1, <1>2, <1>3, <1>4, Zenon DEF CalmMove

\* The pods are configured, but those that a round has still to serve.
LEMMA RoundNext ==
  ASSUME TypesInv, [Next]_vars, Calm', ~StartReconcile, OrderInv, PlanInv, SetInv,
         RoundInv
  PROVE  RoundInv'
  <1> DEFINE Ready == \/ store.statefulSet.unseen
                      \/ store.statefulSet.ready >= store.statefulSet.replicas
  <1> SUFFICES ASSUME ~Still("distribute")', ~worker'.failed PROVE Ready' /\ Held'
    BY Zenon DEF RoundInv, Held
  <1>0. ~worker.failed
    BY FailureStays
  <1>1. CASE Still("distribute")
    <2>1. "distribute" \in PlainNames
      BY DEF PlainNames
    <2>2. At("distribute") /\ Plain(worker.todo) /\ (Distribute \/ GiveUp)
      BY <1>1, <2>1, StepTaken
    <2>3. ~GiveUp
      <3> SUFFICES ASSUME GiveUp PROVE FALSE
        OBVIOUS
      <3>1. worker \in Workers
        BY DEF TypesInv, PlanFirst
      <3>2. worker'.failed
        BY <3>1 DEF GiveUp, Workers
      <3> QED BY <3>2
    <2>4. ServedInv' /\ Busy' /\ UNCHANGED store /\ Ready
      BY <1>0, <2>2, <2>3, RoundBegins
    <2>5. Ready'
      BY <2>4
    <2> QED BY <2>4, <2>5, Zenon DEF Held
  <1>2. CASE ~Still("distribute")
    <2>1. worker.todo \in Rounds
      BY <1>2 DEF OrderInv
    <2>2. ~Still("statefulSet")
      <3>1. "statefulSet" \in PlainNames
        BY DEF PlainNames
      <3> QED BY <2>1, <3>1, RoundsTyped DEF Still
    <2>3. Ready /\ Held
      BY <1>0, <1>2, Zenon DEF RoundInv, Held
    <2>4. Held'
      BY <1>0, <2>1, <2>3, RoundGoesOn
    <2>5. Ready'
      BY <2>2, <2>3, SetKept
    <2> QED BY <2>4, <2>5
  <1> QED BY <1>1, <1>2

\* What holds while it is calm.
CalmInv ==
  /\ OrderInv /\ ServicesInv /\ IssuedInv /\ PlanInv /\ PrometheusInv /\ SetInv
  /\ RoundInv

\* It holds when a reconcile starts: everything is still to be done.
LEMMA CalmAtStart ==
  ASSUME TypesInv, StartReconcile, Calm', worker'.todo # <<"addFinalizer">>
  PROVE  CalmInv'
  <1>0. /\ UNCHANGED <<cluster, pipes, store, seen>> /\ cluster.phase = "live"
        /\ cluster.spec \in Specs
    BY DEF StartReconcile, Calm, TypesInv, TypeOK
  <1>1. PICK todo : /\ worker' = [Idle EXCEPT !.copy = cluster, !.todo = todo]
                    /\ \/ cluster.finalizer /\ todo = LiveSteps(cluster.spec)
                       \/ todo = <<"addFinalizer">>
    BY <1>0 DEF StartReconcile
  <1>2. /\ worker'.copy = cluster /\ worker'.todo = todo /\ ~worker'.failed
    BY <1>1 DEF Idle
  <1>3. worker'.todo = LiveSteps(cluster.spec) /\ cluster.finalizer
    BY <1>1, <1>2
  <1>4. /\ Plain(worker'.todo)
        /\ \A name \in {"headless", "plan", "statefulSet", "prometheus", "distribute"} :
             Mentions(worker'.todo, name)
    BY <1>3, LiveStepsPlain DEF Plain
  <1>5. OrderInv'
    BY <1>0, <1>2, <1>3, <1>4 DEF OrderInv, Plain, Still
  <1>6. ServicesInv'
    BY <1>0, <1>3, <1>4, LiveStepsPlain DEF ServicesInv, Still
  <1>7. IssuedInv'
    BY <1>0, <1>3, LiveStepsPlain
    DEF IssuedInv, Still, CertificateSteps, AwaitedBy, apiCertificates,
        tunnelCertificates, clientCertificates
  <1>8. PlanInv'
    BY <1>3, <1>4, LiveStepsOrder DEF PlanInv, Still
  <1>9. PrometheusInv' /\ SetInv' /\ RoundInv'
    BY <1>4 DEF PrometheusInv, SetInv, RoundInv, Still
  <1> QED BY <1>5, <1>6, <1>7, <1>8, <1>9 DEF CalmInv

\* Without its finalizer the cluster gets it, and then the cluster is in the
\* queue again.
LEMMA FinalizerFirst ==
  ASSUME TypesInv, [Next]_vars, Calm', ~StartReconcile,
         worker.todo = <<"addFinalizer">>
  PROVE  worker'.todo = <<"addFinalizer">>
  <1>0. /\ worker \in Workers /\ ~dirty' /\ ~Restart /\ ~AddFinalizer
        /\ Head(worker.todo) = "addFinalizer"
    BY CalmBefore DEF TypesInv, PlanFirst, Calm
  <1>1. ~BuildPlan /\ ~reconcileStatefulSet /\ ~Distribute /\ ~UpdateStatus
        /\ ~(At("matches") /\ NextPod /\ (applyTunnelTargetMatches \/ DeleteMatchFails))
    BY <1>0 DEF BuildPlan, reconcileStatefulSet, Distribute, UpdateStatus, At
  <1>2. Len(worker.todo) = 1
    BY <1>0
  <1>3. ~Advances
    BY <1>2 DEF Advances
  <1>4. Head(worker.todo) \notin {"distribute", "apply", "matches"}
    BY <1>0
  <1>5. ~Done
    BY <1>0 DEF Done
  <1>6. UNCHANGED worker
    BY <1>0, <1>1, <1>3, <1>4, <1>5, MovesKnown, Zenon DEF Moves, Ends
  <1> QED BY <1>6

\* The invariant is inductive.
LEMMA AppliedNext ==
  ASSUME AppliedInv, [Next]_vars
  PROVE  AppliedInv'
  <1>0. TypesInv /\ VersionInv
    BY DEF AppliedInv, TypesInv
  <1>1. TypeOK' /\ PlanFirst' /\ VersionInv'
    BY <1>0, TypesNext, VersionNext DEF TypesInv
  <1>2. ASSUME Calm', worker'.todo # <<"addFinalizer">>
        PROVE  CalmInv'
    <2>1. CASE StartReconcile
      BY <1>0, <1>2, <2>1, CalmAtStart
    <2>2. CASE ~StartReconcile
      <3>1. Calm /\ worker.todo # <<"addFinalizer">>
        BY <1>0, <1>2, <2>2, CalmBefore, FinalizerFirst
      <3>2. CalmInv
        BY <3>1, Zenon DEF AppliedInv, CalmInv
      <3>3. /\ OrderInv /\ ServicesInv /\ IssuedInv /\ PlanInv /\ PrometheusInv
            /\ SetInv /\ RoundInv
        BY <3>2 DEF CalmInv
      <3>4. OrderInv' /\ ServicesInv' /\ IssuedInv'
        BY <1>0, <1>2, <2>2, <3>3, OrderNext, NeededServices, IssuedNext
      <3>5. PlanInv' /\ PrometheusInv' /\ SetInv' /\ RoundInv'
        BY <1>0, <1>2, <2>2, <3>3, PlanNext, PrometheusNext, SetInvNext,
           RoundNext
      <3> QED BY <3>4, <3>5 DEF CalmInv
    <2> QED BY <2>1, <2>2
  <1> QED BY <1>1, <1>2, Zenon DEF AppliedInv, CalmInv

\* When all replicas are counted and none is surplus, all of them run.
LEMMA AllRun ==
  ASSUME NEW n \in 1..MaxPods, NEW R \in SUBSET (0..(n - 1)), Cardinality(R) >= n
  PROVE  R = 0..(n - 1)
  <1>1. IsFiniteSet(0..(n - 1)) /\ Cardinality(0..(n - 1)) = n
    BY PodsAssumption, FS_Interval
  <1>2. /\ IsFiniteSet(R) /\ Cardinality(R) <= n
        /\ Cardinality(R) = n => R = 0..(n - 1)
    BY <1>1, FS_Subset
  <1>3. Cardinality(R) \in Nat
    BY <1>2, FS_CardinalityType
  <1> QED BY <1>2, <1>3, PodsAssumption

\* Once nothing is under way, no step is left to be done, and the stateful
\* set is the one that the spec asks for, with all its pods.
LEMMA SettledSet ==
  ASSUME AppliedInv, Calm, Settled
  PROVE  /\ CalmInv /\ worker.todo = <<>> /\ ~worker.failed
         /\ \A name \in StepNames : ~Still(name)
         /\ store.statefulSet = seen.statefulSet
         /\ store.services = seen.services /\ store.issued = seen.issued
         /\ ~store.statefulSet.unseen /\ Asked(store.statefulSet)
         /\ store.statefulSet.ready >= store.statefulSet.replicas
         /\ StatusInv
  <1>1. ~Busy /\ worker.todo = <<>>
    BY DEF Settled, Busy
  <1>2. \A name \in StepNames : ~Still(name)
    BY <1>1 DEF Still, Mentions
  <1>3. CalmInv
    <2>1. worker.todo # <<"addFinalizer">>
      BY <1>1
    <2> QED BY <2>1, Zenon DEF AppliedInv, CalmInv
  <1>4. /\ store.statefulSet = seen.statefulSet
        /\ store.services = seen.services /\ store.issued = seen.issued
    BY DEF Settled, AppliedInv, TypeOK, Objects
  <1>5. ~store.statefulSet.unseen
    BY <1>4 DEF AppliedInv, VersionInv
  <1>6. Asked(store.statefulSet)
    <2>1. ~Still("statefulSet") /\ SetInv
      BY <1>2, <1>3 DEF StepNames, CalmInv
    <2> QED BY <2>1, <1>5 DEF SetInv
  <1>7. ~worker.failed
    <2>1. worker.failed => worker.todo = <<"status">>
      BY <1>3 DEF CalmInv, OrderInv
    <2> QED BY <2>1, <1>1
  <1>8. StatusInv /\ store.statefulSet.ready >= store.statefulSet.replicas
    <2>1. ~Still("distribute") /\ RoundInv
      BY <1>2, <1>3 DEF StepNames, CalmInv
    <2> QED BY <2>1, <1>1, <1>5, <1>7 DEF RoundInv
  <1> QED BY <1>1, <1>2, <1>3, <1>4, <1>5, <1>6, <1>7, <1>8

\* Then the pods that the spec asks for are up, provided that no surplus pod
\* is counted among them.
LEMMA SettledPods ==
  ASSUME AppliedInv, Calm, Settled, ScaledDown
  PROVE  \A p \in Ordinals(cluster.spec) : p \in Pods /\ pod[p].state = "up"
  <1>1. /\ Asked(store.statefulSet)
        /\ store.statefulSet.ready >= store.statefulSet.replicas
    BY SettledSet
  <1>2. cluster.spec \in Specs
    BY DEF AppliedInv, TypeOK
  <1>3. PICK n \in 1..MaxPods :
           n = cluster.spec.replicas /\ n = store.statefulSet.replicas
    BY <1>1, <1>2, SpecsAssumption DEF Asked
  <1>4. PICK R : R = {p \in Pods : Running(p)}
    OBVIOUS
  <1>5. R \in SUBSET (0..(n - 1))
    <2> SUFFICES ASSUME NEW p \in R PROVE p \in 0..(n - 1)
      OBVIOUS
    <2>1. p \in Pods /\ p < n
      BY <1>3, <1>4 DEF ScaledDown
    <2> QED BY <2>1, PodsAssumption DEF Pods
  <1>6. Cardinality(R) >= n
    BY <1>1, <1>3, <1>4 DEF Settled
  <1>7. R = 0..(n - 1)
    BY <1>5, <1>6, AllRun
  <1> SUFFICES ASSUME NEW p \in Ordinals(cluster.spec)
               PROVE  p \in Pods /\ pod[p].state = "up"
    OBVIOUS
  <1>8. p \in Pods /\ Running(p)
    BY <1>3, <1>4, <1>7 DEF Ordinals
  <1> QED BY <1>8 DEF Settled, Running

\* The objects are those of the spec and of the plan.
LEMMA SettledObjects ==
  ASSUME AppliedInv, Calm, Settled
  PROVE  /\ cluster.finalizer /\ plans = PresentPlan
         /\ apiCertificates(cluster.spec) \cup tunnelCertificates(cluster.spec)
              \cup clientCertificates(cluster.spec) \subseteq store.issued
         /\ PrometheusServices(store.services) = PrometheusOf(PresentPlan)
         /\ "headless" \in store.services
         /\ cluster.spec.tunnel # "off" => "tunnel" \in store.services
  <1>1. /\ CalmInv /\ \A name \in StepNames : ~Still(name)
        /\ store.services = seen.services /\ store.issued = seen.issued
    BY SettledSet
  <1>2. /\ ~Still("plan") /\ ~Still("headless") /\ ~Still("tunnelService")
        /\ ~Still("prometheus") /\ \A step \in CertificateSteps : ~Still(step)
    BY <1>1 DEF StepNames, CertificateSteps
  <1>3. cluster.finalizer
    BY <1>1 DEF CalmInv, OrderInv
  <1>4. plans = PresentPlan
    BY <1>1, <1>2 DEF CalmInv, PlanInv
  <1>5. "headless" \in store.services
        /\ (cluster.spec.tunnel # "off" => "tunnel" \in store.services)
    <2>1. ServicesInv
      BY <1>1 DEF CalmInv
    <2> QED BY <1>1, <1>2, <2>1 DEF ServicesInv
  <1>6. \A step \in CertificateSteps :
           AwaitedBy(step, cluster.spec) \subseteq store.issued
    <2>1. IssuedInv
      BY <1>1 DEF CalmInv
    <2> QED BY <1>1, <1>2, <2>1 DEF IssuedInv
  <1>7. apiCertificates(cluster.spec) \cup tunnelCertificates(cluster.spec)
          \cup clientCertificates(cluster.spec) \subseteq store.issued
    <2>1. apiCertificates(cluster.spec) \subseteq store.issued
      BY <1>6 DEF CertificateSteps, AwaitedBy
    <2>2. tunnelCertificates(cluster.spec) \subseteq store.issued
      BY <1>6 DEF CertificateSteps, AwaitedBy
    <2>3. clientCertificates(cluster.spec) \subseteq store.issued
      BY <1>6 DEF CertificateSteps, AwaitedBy
    <2> QED BY <2>1, <2>2, <2>3
  <1>8. PrometheusServices(store.services) = PrometheusOf(PresentPlan)
    <2>1. PrometheusInv
      BY <1>1 DEF CalmInv
    <2>2. /\ PrometheusOf(PresentPlan) \subseteq store.services
          /\ PrometheusServices(store.services) \subseteq PrometheusOf(PresentPlan)
      BY <1>1, <1>2, <2>1 DEF PrometheusInv
    <2>3. PrometheusOf(PresentPlan) \subseteq PrometheusOf(Pipes)
      <3>1. PresentPlan \subseteq Pipes
        BY DEF PresentPlan, planOf, AppliedInv, TypeOK
      <3> QED BY <3>1 DEF PrometheusOf
    <2> QED BY <2>2, <2>3, ServicesAssumption DEF PrometheusServices
  <1> QED BY <1>3, <1>4, <1>5, <1>7, <1>8

\* No change is lost: once nothing is under way and surplus pods are gone, the
\* objects and the pods of a cluster are those of its present spec and
\* pipelines, whatever edits, failing calls, refused writes, lost pods, stale
\* caches and restarts came between the steps of the reconciles before.
THEOREM AppliedWhenSettled == Spec => []SettledIsApplied
  <1>1. Init => AppliedInv
    <2> SUFFICES ASSUME Init PROVE AppliedInv
      OBVIOUS
    <2>1. TypesInv
      BY TypesInit
    <2>2. ~Calm
      BY DEF Init, NoCluster, Calm
    <2>3. VersionInv
      BY DEF Init, NothingStored, NoStatefulSet, VersionInv
    <2> QED BY <2>1, <2>2, <2>3 DEF AppliedInv, TypesInv
  <1>2. AppliedInv => SettledIsApplied
    <2> SUFFICES ASSUME AppliedInv, cluster.phase = "live", Settled, ScaledDown
                 PROVE  Applied
      BY DEF SettledIsApplied
    <2>1. Calm
      BY DEF Calm, Settled
    <2>2. /\ cluster.finalizer /\ plans = PresentPlan
          /\ apiCertificates(cluster.spec) \cup tunnelCertificates(cluster.spec)
               \cup clientCertificates(cluster.spec) \subseteq store.issued
          /\ PrometheusServices(store.services) = PrometheusOf(PresentPlan)
          /\ "headless" \in store.services
          /\ cluster.spec.tunnel # "off" => "tunnel" \in store.services
      BY <2>1, SettledObjects
    <2>3. /\ store.statefulSet.replicas = cluster.spec.replicas
          /\ volumesEqual(store.statefulSet.volumes, volumes(cluster.spec))
      BY <2>1, SettledSet DEF Asked
    <2>4. PICK d \in Distributions(cluster.spec, PresentPlan, cluster.spec.replicas) :
             Told(d) /\ ConfiguredBut({}, d)
      <3>1. StatusInv
        BY <2>1, SettledSet
      <3> QED BY <3>1, Zenon DEF StatusInv
    <2>5. ASSUME NEW p \in Ordinals(cluster.spec)
          PROVE  /\ pod[p].state = "up"
                 /\ Share(d, p) # {} =>
                      /\ pod[p].plan = PresentPlan
                      /\ pod[p].targets = Share(d, p)
                      /\ MatchesOf(PresentPlan) \subseteq pod[p].matches
      <3>1. pod[p].state = "up" /\ ~store.statefulSet.unseen
        BY <2>1, SettledPods, SettledSet
      <3>2. ~Excused(p)
        BY <3>1 DEF Excused
      <3>3. Share(d, p) # {} => Configured(p, d)
        BY <2>4, <3>2 DEF ConfiguredBut
      <3> QED BY <3>1, <3>3 DEF Configured, HasTargets
    <2> QED BY <2>2, <2>3, <2>4, <2>5, Zenon DEF Applied, PresentPlan
  <1>3. AppliedInv /\ [Next]_vars => AppliedInv'
    BY AppliedNext
  <1> QED BY <1>1, <1>2, <1>3, PTL DEF Spec
=============================================================================
