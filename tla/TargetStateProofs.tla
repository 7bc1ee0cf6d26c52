-------------------------- MODULE TargetStateProofs -------------------------
(***************************************************************************)
(* Proofs about TargetState: type correctness, that exactly one stream     *)
(* follows each pod of a settled cluster, and that no status update        *)
(* takes back what another cluster has reported, for any clusters, pods,   *)
(* streams and numbers of attempts.                                        *)
(***************************************************************************)
EXTENDS TargetState, FiniteSetTheorems, TLAPS

WriteRec ==
  [phase : {"idle", "read", "inflight"}, job : Jobs, up : BOOLEAN,
   attempt : 0..(MaxAttempts - 1), copy : Status, fresh : BOOLEAN]
StreamRec ==
  [pc : {"none", "connect", "select"}, cancelled : BOOLEAN,
   events : Seq({"absent", "up", "down"})]

\* A goroutine that is not writing, and one that starts to, are well formed.
LEMMA IdleTyped ==
  /\ NoStatus \in Status
  /\ Idle \in WriteRec /\ Idle.phase = "idle" /\ Idle.job = "clean"
  /\ \A job \in Jobs, up \in BOOLEAN :
       /\ Job(job, up) \in WriteRec
       /\ Job(job, up).phase = "read" /\ Job(job, up).job = job
  <1>1. NoStatus \in Status
    BY DEF NoStatus, Status
  <1>2. Idle \in WriteRec /\ Idle.phase = "idle" /\ Idle.job = "clean"
    BY <1>1, BoundAssumption DEF Idle, WriteRec, Jobs
  <1>3. ASSUME NEW job \in Jobs, NEW up \in BOOLEAN
        PROVE  /\ Job(job, up) \in WriteRec
               /\ Job(job, up).phase = "read" /\ Job(job, up).job = job
    BY <1>2 DEF Job, WriteRec, Idle
  <1> QED BY <1>1, <1>2, <1>3

\* A goroutine writes for a cluster, and streams are not the worker.
LEMMA WritersTyped ==
  ASSUME TypeOK, NEW w \in Writers
  PROVE  /\ ClusterOf(w) \in Clusters
         /\ w # Worker => w \in StreamIDs /\ w[1] \in Clusters /\ w[2] \in PodIdx
  BY DEF TypeOK, ClusterOf, Writers, StreamIDs

\* Entries and a summary make a status.
LEMMA StatusTyped ==
  ASSUME NEW es \in [Clusters -> Entry \cup {NoEntry}],
         NEW st \in {"", "READY", "DEGRADED"}
  PROVE  [entries |-> es, state |-> st] \in Status
  BY DEF Status

\* What a goroutine writes is a status that differs from its copy in the
\* entry of its own cluster only.
LEMMA UpdateTouchesOwnEntry ==
  ASSUME CopiesInv, NEW w \in Writers
  PROVE  LET new == Updated(w, writer[w].copy)
         IN  /\ new \in Status
             /\ \A c \in Clusters : c # ClusterOf(w) =>
                  new.entries[c] = writer[w].copy.entries[c]
  <1> DEFINE e == IF writer[w].job = "set"
                    THEN [pod |-> w[2], up |-> writer[w].up] ELSE NoEntry
             copy == writer[w].copy
             es == [copy.entries EXCEPT ![ClusterOf(w)] = e]
  <1>1. TypeOK /\ writer[w] \in WriteRec
    BY DEF CopiesInv, TypeOK, WriteRec
  <1>2. copy.entries \in [Clusters -> Entry \cup {NoEntry}]
    BY <1>1 DEF WriteRec, Status
  <1>3. writer[w].job = "set" => w # Worker
    BY DEF CopiesInv
  <1>4. e \in Entry \cup {NoEntry}
    BY <1>1, <1>3, WritersTyped DEF Entry, WriteRec
  <1>5. es \in [Clusters -> Entry \cup {NoEntry}]
    BY <1>2, <1>4
  <1>6. \A c \in Clusters : c # ClusterOf(w) => es[c] = copy.entries[c]
    BY <1>2
  <1>7. Updated(w, copy) = [entries |-> es, state |-> computeStatusSummary(es)]
    BY DEF Updated
  <1> HIDE DEF e, es
  <1>8. Updated(w, copy) \in Status
    <2>1. computeStatusSummary(es) \in {"", "READY", "DEGRADED"}
      BY DEF computeStatusSummary
    <2>2. [entries |-> es, state |-> computeStatusSummary(es)] \in Status
      BY <1>5, <2>1, StatusTyped
    <2> QED BY <1>7, <2>2, Zenon
  <1> QED BY <1>6, <1>7, <1>8

\* The operator starts with a cache that is in step with the API server.
LEMMA CopiesInit == Init => CopiesInv
  <1> SUFFICES ASSUME Init PROVE CopiesInv
    OBVIOUS
  <1>1. NoStream \in StreamRec
    BY DEF NoStream, StreamRec
  <1>2. Leftover \in Status
    BY BoundAssumption DEF Leftover, Status, Entry, PodIdx
  <1>3. PICK known \in BOOLEAN :
          /\ sts = [c \in Clusters |-> known]
          /\ has = [c \in Clusters |->
                      [p \in PodIdx |-> IF known /\ p = 0 THEN "up" ELSE "absent"]]
          /\ status \in IF known THEN {NoStatus, Leftover} ELSE {NoStatus}
    BY DEF Init
  <1>4. /\ sts \in [Clusters -> BOOLEAN]
        /\ has \in [Clusters -> [PodIdx -> {"absent", "up", "down"}]]
    BY <1>3
  <1>5. status \in Status
    BY <1>2, <1>3, IdleTyped
  <1>6. stream \in [StreamIDs -> StreamRec] /\ writer \in [Writers -> WriteRec]
    BY <1>1, IdleTyped DEF Init
  <1>7. worker \in [pc : {"idle", "clean", "start"}, cluster : Clusters,
                    desired : 0..MaxPods]
    BY BoundAssumption DEF Init
  <1>8. /\ replicas \in [Clusters -> 0..MaxPods]
        /\ dirty \in [Clusters -> BOOLEAN]
        /\ specChanges \in 0..MaxSpecChanges /\ podChanges \in 0..MaxChanges
        /\ failures \in 0..MaxFailures
    BY BoundAssumption DEF Init
  <1>9. cache = status /\ cacheFresh = TRUE
    BY DEF Init
  <1>10. TypeOK
    BY <1>4, <1>5, <1>6, <1>7, <1>8, <1>9 DEF TypeOK, StreamRec, WriteRec
  <1>11. \A w \in Writers : writer[w].phase = "idle" /\ writer[w].job = "clean"
    BY IdleTyped DEF Init
  <1>12. Worker \in Writers
    BY DEF Writers
  <1> QED BY <1>9, <1>10, <1>11, <1>12 DEF CopiesInv

\* The parts of the state outside of the status and its copies.
WorldTypeOK ==
  /\ replicas \in [Clusters -> 0..MaxPods]
  /\ sts \in [Clusters -> BOOLEAN]
  /\ has \in [Clusters -> [PodIdx -> {"absent", "up", "down"}]]
  /\ dirty \in [Clusters -> BOOLEAN]
  /\ worker \in [pc : {"idle", "clean", "start"}, cluster : Clusters,
                 desired : 0..MaxPods]
  /\ stream \in [StreamIDs -> StreamRec]
  /\ specChanges \in 0..MaxSpecChanges
  /\ podChanges \in 0..MaxChanges
  /\ failures \in 0..MaxFailures

\* The status and its copies.
CopiesOK ==
  /\ writer \in [Writers -> WriteRec]
  /\ status \in Status /\ cache \in Status /\ cacheFresh \in BOOLEAN
  /\ cacheFresh => cache = status
  /\ \A w \in Writers :
       writer[w].phase = "inflight" /\ writer[w].fresh => writer[w].copy = status
  /\ writer[Worker].job # "set"

\* The invariant falls into these two parts.
LEMMA CopiesInvParts == CopiesInv <=> WorldTypeOK /\ CopiesOK
  BY DEF CopiesInv, TypeOK, WorldTypeOK, CopiesOK, StreamRec, WriteRec

\* Nothing happens to the copies when nobody writes.
LEMMA CopiesIdle ==
  ASSUME CopiesOK, UNCHANGED <<writer, apiVars>>
  PROVE  CopiesOK'
  BY DEF CopiesOK, apiVars

\* A goroutine that ends its update or begins one leaves the copies alone.
LEMMA CopiesReplace ==
  ASSUME CopiesOK, UNCHANGED apiVars,
         NEW w \in Writers, NEW r \in WriteRec,
         r.phase = "inflight" /\ r.fresh => r.copy = status,
         w = Worker => r.job # "set",
         writer' = [writer EXCEPT ![w] = r]
  PROVE  CopiesOK'
  <1>1. writer' \in [Writers -> WriteRec]
    BY DEF CopiesOK
  <1>2. /\ writer'[w] = r
        /\ \A v \in Writers \ {w} : writer'[v] = writer[v]
    BY DEF CopiesOK
  <1>3. status' = status /\ cache' = cache /\ cacheFresh' = cacheFresh
    BY DEF apiVars
  <1>4. Worker \in Writers
    BY DEF Writers
  <1> QED BY <1>1, <1>2, <1>3, <1>4 DEF CopiesOK

\* Reading, writing, conflicting and failing keep what is called fresh equal
\* to the latest status.
LEMMA WriterKeepsCopies ==
  ASSUME CopiesInv, NEW w \in Writers, WriterStep(w)
  PROVE  CopiesOK'
  <1>0. CopiesOK /\ writer[w] \in WriteRec /\ Worker \in Writers
    BY CopiesInvParts DEF CopiesOK, Writers
  <1>1. CASE UNCHANGED apiVars /\ writer' = [writer EXCEPT ![w] = Idle]
    BY <1>0, <1>1, IdleTyped, CopiesReplace
  <1>2. CASE ReadTarget(w)
    <2> DEFINE copy == Kept(cache, cacheFresh)
               r == [writer[w] EXCEPT !.phase = "inflight", !.copy = copy,
                                      !.fresh = cacheFresh]
    <2>0. copy \in Status /\ (cacheFresh => copy = status)
      BY <1>0, IdleTyped DEF CopiesOK, Kept
    <2> HIDE DEF copy
    <2>1. r \in WriteRec
      BY <1>0, <2>0 DEF CopiesOK, WriteRec
    <2>2. r.fresh => r.copy = status
      BY <1>0, <2>0 DEF CopiesOK, WriteRec
    <2>3. w = Worker => r.job # "set"
      BY <1>0 DEF CopiesOK, WriteRec
    <2>4. UNCHANGED apiVars
      BY <1>2 DEF ReadTarget
    <2>5. CASE writer' = [writer EXCEPT ![w].phase = "inflight",
                                        ![w].copy = copy, ![w].fresh = cacheFresh]
      <3>1. writer' = [writer EXCEPT ![w] = r]
        BY <1>0, <2>5 DEF CopiesOK, WriteRec
      <3> HIDE DEF r
      <3> QED BY <1>0, <2>1, <2>2, <2>3, <2>4, <3>1, CopiesReplace
    <2> QED BY <1>1, <1>2, <2>4, <2>5 DEF ReadTarget, copy
  <1>3. CASE UpdateAccepted(w)
    <2>1. writer[w].copy = status /\ status' = Updated(w, writer[w].copy)
      BY <1>0, <1>3 DEF UpdateAccepted, Current, CopiesOK
    <2>2. status' \in Status /\ cache' = cache
      BY <1>3, <2>1, UpdateTouchesOwnEntry DEF UpdateAccepted
    <2>3. CASE status' = status
      BY <1>0, <1>1, <1>3, <2>2, <2>3 DEF UpdateAccepted, apiVars
    <2>4. CASE status' # status
      <3>1. /\ cacheFresh' = FALSE
            /\ writer' = [v \in Writers |->
                 IF v = w THEN Idle
                 ELSE [writer[v] EXCEPT !.fresh = FALSE, !.copy = NoStatus]]
        BY <1>3, <2>4 DEF UpdateAccepted
      <3>2. ASSUME NEW v \in Writers
            PROVE  /\ writer'[v] \in WriteRec
                   /\ writer'[v].phase = "inflight" => ~writer'[v].fresh
                   /\ writer'[v].job \in {"clean", writer[v].job}
        <4>1. CASE v = w
          BY <3>1, <4>1, IdleTyped
        <4>2. CASE v # w
          <5>1. writer[v] \in WriteRec
            BY <1>0 DEF CopiesOK
          <5>2. writer'[v] = [writer[v] EXCEPT !.fresh = FALSE, !.copy = NoStatus]
            BY <3>1, <4>2
          <5>3. NoStatus \in Status
            BY IdleTyped
          <5> QED BY <5>1, <5>2, <5>3 DEF WriteRec
        <4> QED BY <4>1, <4>2
      <3>3. writer' \in [Writers -> WriteRec]
        <4>1. writer' = [v \in Writers |-> writer'[v]]
          BY <3>1
        <4> QED BY <3>2, <4>1
      <3>4. writer'[Worker].job # "set"
        BY <1>0, <3>2 DEF CopiesOK
      <3> QED BY <1>0, <2>2, <3>1, <3>2, <3>3, <3>4 DEF CopiesOK
    <2> QED BY <2>3, <2>4
  <1>4. CASE UpdateConflicts(w)
    <2> DEFINE r == Again(writer[w])
    <2>1. UNCHANGED apiVars
      BY <1>4 DEF UpdateConflicts
    <2>2. CASE writer[w].attempt + 1 < MaxAttempts
      <3>1. r \in WriteRec
        <4>1. writer[w].attempt \in 0..(MaxAttempts - 1)
          BY <1>0 DEF WriteRec
        <4>2. writer[w].attempt + 1 \in 0..(MaxAttempts - 1)
          BY <2>2, <4>1, BoundAssumption
        <4> QED BY <1>0, <4>2, IdleTyped DEF WriteRec, Again
      <3>2. r.phase = "read" /\ r.job = writer[w].job
        BY <1>0 DEF WriteRec, Again
      <3>3. writer' = [writer EXCEPT ![w] = r]
        BY <1>4, <2>2 DEF UpdateConflicts
      <3>4. w = Worker => r.job # "set"
        BY <1>0, <3>2 DEF CopiesOK
      <3> HIDE DEF r
      <3> QED BY <1>0, <2>1, <3>1, <3>2, <3>3, <3>4, CopiesReplace
    <2>3. CASE ~(writer[w].attempt + 1 < MaxAttempts)
      <3>1. writer' = [writer EXCEPT ![w] = Idle]
        BY <1>0, <1>4, <2>3 DEF UpdateConflicts, CopiesOK
      <3> QED BY <1>1, <2>1, <3>1
    <2> QED BY <2>2, <2>3
  <1>5. CASE UpdateFails(w)
    BY <1>1, <1>5 DEF UpdateFails
  <1> QED BY <1>2, <1>3, <1>4, <1>5 DEF WriterStep

\* A stream's own steps.
LEMMA StreamPreserves ==
  ASSUME CopiesInv, NEW k \in StreamIDs, StreamStep(k) \/ StreamBreaks(k)
  PROVE  CopiesInv'
  <1>0. /\ WorldTypeOK /\ CopiesOK /\ stream[k] \in StreamRec
        /\ k \in Writers /\ k # Worker
    BY CopiesInvParts, WorkerAssumption DEF WorldTypeOK, Writers
  <1>1. CASE StreamConnects(k) \/ StreamBreaks(k) \/ StreamExits(k)
    <2>1. stream' \in [StreamIDs -> StreamRec]
      <3>1. <<>> \in Seq({"absent", "up", "down"})
        OBVIOUS
      <3>2. NoStream \in StreamRec
        BY <3>1 DEF NoStream, StreamRec
      <3>3. CASE StreamConnects(k)
        BY <1>0, <3>3 DEF StreamConnects, WorldTypeOK, StreamRec
      <3>4. CASE StreamBreaks(k)
        BY <1>0, <3>1, <3>4 DEF StreamBreaks, WorldTypeOK, StreamRec
      <3>5. CASE StreamExits(k)
        BY <1>0, <3>2, <3>5 DEF StreamExits, WorldTypeOK
      <3> QED BY <1>1, <3>3, <3>4, <3>5
    <2>2. failures' \in 0..MaxFailures
      BY <1>0, <1>1, BoundAssumption
      DEF StreamConnects, StreamBreaks, StreamExits, WorldTypeOK
    <2>3. UNCHANGED <<worldVars, dirty, worker, writer, apiVars>>
      BY <1>1 DEF StreamConnects, StreamBreaks, StreamExits
    <2>4. WorldTypeOK'
      BY <1>0, <2>1, <2>2, <2>3 DEF WorldTypeOK, worldVars
    <2>5. CopiesOK'
      BY <1>0, <2>3, CopiesIdle
    <2> QED BY <2>4, <2>5, CopiesInvParts DEF CopiesInv, TypeOK, CopiesOK,
                WorldTypeOK, StreamRec, WriteRec
  <1>2. CASE handleEvent(k) \/ pollAndSync(k)
    <2>1. PICK job \in Jobs, up \in BOOLEAN :
            writer' = [writer EXCEPT ![k] = Job(job, up)]
      <3>1. "clean" \in Jobs /\ "delete" \in Jobs /\ "set" \in Jobs
        BY DEF Jobs
      <3> QED BY <1>2, <3>1 DEF handleEvent, pollAndSync
    <2>2. CopiesOK'
      <3>1. UNCHANGED apiVars
        BY <1>2 DEF handleEvent, pollAndSync
      <3> QED BY <1>0, <2>1, <3>1, IdleTyped, CopiesReplace
    <2>3. stream' \in [StreamIDs -> StreamRec]
      <3>1. CASE handleEvent(k)
        <4>1. Tail(stream[k].events) \in Seq({"absent", "up", "down"})
          BY <1>0, <3>1 DEF handleEvent, StreamRec
        <4>2. stream' = [stream EXCEPT ![k].events = Tail(@)]
          BY <3>1 DEF handleEvent
        <4> QED BY <1>0, <4>1, <4>2 DEF WorldTypeOK, StreamRec
      <3>2. CASE pollAndSync(k)
        BY <1>0, <3>2 DEF pollAndSync, WorldTypeOK
      <3> QED BY <1>2, <3>1, <3>2
    <2>4. UNCHANGED <<worldVars, dirty, worker, failures>>
      BY <1>2 DEF handleEvent, pollAndSync
    <2>5. WorldTypeOK'
      BY <1>0, <2>3, <2>4 DEF WorldTypeOK, worldVars
    <2> QED BY <2>2, <2>5 DEF CopiesInv, TypeOK, CopiesOK, WorldTypeOK,
                StreamRec, WriteRec
  <1> QED BY <1>1, <1>2 DEF StreamStep

\* The reconcile worker: the jobs it starts never set an entry.
LEMMA WorkerPreserves ==
  ASSUME CopiesInv, WorkerStep
  PROVE  CopiesInv'
  <1>0. WorldTypeOK /\ CopiesOK /\ Worker \in Writers
    BY CopiesInvParts DEF Writers
  <1>1. ASSUME NEW c \in Clusters, stopStreamsForCluster(c)
        PROVE  stream' \in [StreamIDs -> StreamRec]
    <2>1. <<>> \in Seq({"absent", "up", "down"})
      OBVIOUS
    <2>2. \A k \in StreamIDs :
            stream[k] \in StreamRec /\ Stopped(stream[k]) \in StreamRec
      BY <1>0, <2>1 DEF WorldTypeOK, Stopped, StreamRec
    <2> QED BY <1>1, <2>2 DEF stopStreamsForCluster
  <1>2. ASSUME NEW c \in Clusters, Reconcile(c)
        PROVE  CopiesInv'
    <2>1. stream' \in [StreamIDs -> StreamRec]
      BY <1>1, <1>2 DEF Reconcile
    <2>2. WorldTypeOK'
      BY <1>0, <1>2, <2>1 DEF Reconcile, WorldTypeOK, worldVars
    <2>3. PICK job \in Jobs \ {"set"} :
            writer' = [writer EXCEPT ![Worker] = Job(job, FALSE)]
      <3>1. /\ "removeCluster" \in Jobs \ {"set"}
            /\ "removeStalePods" \in Jobs \ {"set"}
        BY DEF Jobs
      <3> QED BY <1>2, <3>1 DEF Reconcile
    <2>4. UNCHANGED apiVars
      BY <1>2 DEF Reconcile
    <2>5. CopiesOK'
      BY <1>0, <2>3, <2>4, IdleTyped, CopiesReplace
    <2> QED BY <2>2, <2>5 DEF CopiesInv, TypeOK, CopiesOK, WorldTypeOK,
                StreamRec, WriteRec
  <1>3. CASE CleanUpDone \/ StartStreams
             \/ \E c \in Clusters : RequeueForStatefulSet(c)
    <2>1. stream' \in [StreamIDs -> StreamRec]
      <3>1. CASE CleanUpDone
        BY <1>0, <3>1 DEF CleanUpDone, WorldTypeOK
      <3>2. CASE StartStreams
        <4>1. NewStream \in StreamRec
          BY DEF NewStream, StreamRec
        <4>2. PICK S : stream' = [k \in StreamIDs |->
                 IF k \in S THEN NewStream ELSE stream[k]]
          BY <3>2 DEF StartStreams
        <4> QED BY <1>0, <4>1, <4>2 DEF WorldTypeOK
      <3>3. CASE \E c \in Clusters : RequeueForStatefulSet(c)
        BY <1>1, <3>3 DEF RequeueForStatefulSet
      <3> QED BY <1>3, <3>1, <3>2, <3>3
    <2>2. worker' \in [pc : {"idle", "clean", "start"}, cluster : Clusters,
                       desired : 0..MaxPods]
      <3>1. CASE CleanUpDone
        BY <1>0, <3>1 DEF CleanUpDone, WorldTypeOK
      <3>2. CASE StartStreams
        <4>1. worker' = [worker EXCEPT !.pc = "idle", !.desired = 0]
          BY <3>2 DEF StartStreams
        <4>2. 0 \in 0..MaxPods
          BY BoundAssumption
        <4> QED BY <1>0, <4>1, <4>2 DEF WorldTypeOK
      <3>3. CASE \E c \in Clusters : RequeueForStatefulSet(c)
        BY <1>0, <3>3 DEF RequeueForStatefulSet, WorldTypeOK
      <3> QED BY <1>3, <3>1, <3>2, <3>3
    <2>3. UNCHANGED <<worldVars, dirty, writer, apiVars, failures>>
      BY <1>3 DEF CleanUpDone, StartStreams, RequeueForStatefulSet
    <2>4. WorldTypeOK'
      BY <1>0, <2>1, <2>2, <2>3 DEF WorldTypeOK, worldVars
    <2>5. CopiesOK'
      BY <1>0, <2>3, CopiesIdle
    <2> QED BY <2>4, <2>5 DEF CopiesInv, TypeOK, CopiesOK, WorldTypeOK,
                StreamRec, WriteRec
  <1> QED BY <1>2, <1>3 DEF WorkerStep

\* Users, StatefulSets and pods do not touch the status.
LEMMA WorldPreserves ==
  ASSUME CopiesInv, NEW c \in Clusters,
         \/ SpecChanges(c) \/ StatefulSetCreated(c)
         \/ \E p \in PodIdx : PodChanges(c, p) \/ PodRemoved(c, p)
  PROVE  CopiesInv'
  <1>0. WorldTypeOK /\ CopiesOK
    BY CopiesInvParts
  <1>1. UNCHANGED <<writer, apiVars>>
    BY DEF SpecChanges, StatefulSetCreated, PodChanges, PodRemoved
  <1>2. CopiesOK'
    BY <1>0, <1>1, CopiesIdle
  <1>3. ASSUME SpecChanges(c) PROVE WorldTypeOK'
    BY <1>0, <1>3, BoundAssumption DEF SpecChanges, WorldTypeOK
  <1>4. ASSUME StatefulSetCreated(c) PROVE WorldTypeOK'
    BY <1>0, <1>4 DEF StatefulSetCreated, WorldTypeOK
  <1>5. ASSUME NEW p \in PodIdx, PodChanges(c, p)
        PROVE  WorldTypeOK'
    <2>1. PICK state \in {"absent", "up", "down"} :
            /\ has' = [has EXCEPT ![c][p] = state]
            /\ stream' = [k \in StreamIDs |->
                 IF k[1] = c /\ k[2] = p /\ stream[k].pc = "select" /\ ~stream[k].cancelled
                   THEN [stream[k] EXCEPT !.events = Append(@, state)] ELSE stream[k]]
      BY <1>5 DEF PodChanges
    <2>2. has' \in [Clusters -> [PodIdx -> {"absent", "up", "down"}]]
      BY <1>0, <2>1 DEF WorldTypeOK
    <2>3. \A k \in StreamIDs :
            [stream[k] EXCEPT !.events = Append(stream[k].events, state)] \in StreamRec
      <3> SUFFICES ASSUME NEW k \in StreamIDs
                   PROVE  [stream[k] EXCEPT !.events = Append(stream[k].events, state)]
                            \in StreamRec
        OBVIOUS
      <3>1. stream[k] \in StreamRec
        BY <1>0 DEF WorldTypeOK
      <3>2. Append(stream[k].events, state) \in Seq({"absent", "up", "down"})
        BY <2>1, <3>1 DEF StreamRec
      <3> QED BY <3>1, <3>2 DEF StreamRec
    <2>4. stream' \in [StreamIDs -> StreamRec]
      BY <1>0, <2>1, <2>3 DEF WorldTypeOK
    <2>5. podChanges' \in 0..MaxChanges
      BY <1>0, <1>5, BoundAssumption DEF PodChanges, WorldTypeOK
    <2>6. UNCHANGED <<replicas, sts, specChanges, dirty, worker, failures>>
      BY <1>5 DEF PodChanges
    <2> QED BY <1>0, <2>2, <2>4, <2>5, <2>6 DEF WorldTypeOK
  <1>6. ASSUME NEW p \in PodIdx, PodRemoved(c, p)
        PROVE  WorldTypeOK'
    BY <1>0, <1>6 DEF PodRemoved, WorldTypeOK
  <1>7. WorldTypeOK'
    BY <1>3, <1>4, <1>5, <1>6
  <1> QED BY <1>2, <1>7 DEF CopiesInv, TypeOK, CopiesOK, WorldTypeOK,
              StreamRec, WriteRec

\* CopiesInv is inductive.
LEMMA CopiesNext == CopiesInv /\ [Next]_vars => CopiesInv'
  <1> SUFFICES ASSUME CopiesInv, [Next]_vars PROVE CopiesInv'
    OBVIOUS
  <1>0. WorldTypeOK /\ CopiesOK
    BY CopiesInvParts
  <1>1. ASSUME NEW w \in Writers, WriterStep(w) PROVE CopiesInv'
    <2>1. CopiesOK'
      BY <1>1, WriterKeepsCopies
    <2>2. UNCHANGED <<worldVars, dirty, worker, stream>>
      BY <1>1
      DEF WriterStep, ReadTarget, UpdateAccepted, UpdateConflicts, UpdateFails
    <2>3. failures' \in 0..MaxFailures
      <3>1. \/ failures' = failures
            \/ failures < MaxFailures /\ failures' = failures + 1
        BY <1>1
        DEF WriterStep, ReadTarget, UpdateAccepted, UpdateConflicts, UpdateFails
      <3> QED BY <1>0, <3>1, BoundAssumption DEF WorldTypeOK
    <2>4. WorldTypeOK'
      BY <1>0, <2>2, <2>3 DEF WorldTypeOK, worldVars
    <2> QED BY <2>1, <2>4 DEF CopiesInv, TypeOK, CopiesOK, WorldTypeOK,
                StreamRec, WriteRec
  <1>2. CASE CacheSync
    <2>1. WorldTypeOK'
      BY <1>0, <1>2 DEF CacheSync, WorldTypeOK, worldVars
    <2>2. CopiesOK'
      BY <1>0, <1>2 DEF CacheSync, CopiesOK
    <2> QED BY <2>1, <2>2 DEF CopiesInv, TypeOK, CopiesOK, WorldTypeOK,
                StreamRec, WriteRec
  <1>3. CASE UNCHANGED vars
    <2>1. WorldTypeOK' /\ CopiesOK'
      BY <1>0, <1>3 DEF vars, WorldTypeOK, CopiesOK
    <2> QED BY <2>1 DEF CopiesInv, TypeOK, CopiesOK, WorldTypeOK,
                StreamRec, WriteRec
  <1> QED BY <1>1, <1>2, <1>3, StreamPreserves, WorkerPreserves, WorldPreserves
          DEF Next

\* What is called fresh is the latest status, in every reachable state.
THEOREM CopiesCorrect == Spec => []CopiesInv
  BY CopiesInit, CopiesNext, PTL DEF Spec

\* Every reachable state is well typed.
THEOREM StateTypeCorrect == Spec => []TypeOK
  <1>1. CopiesInv => TypeOK
    BY DEF CopiesInv
  <1> QED BY <1>1, CopiesCorrect, PTL

\* An accepted status update changes only the entry of the writer's cluster,
\* and only an entry the writer has read.
THEOREM UpdatesNotLost == Spec => NoLostUpdates
  <1> DEFINE Own == \A c \in Clusters :
               status'.entries[c] # status.entries[c] =>
                 \E w \in Writers : /\ ClusterOf(w) = c
                                    /\ writer[w].phase = "inflight"
                                    /\ writer[w].copy.entries[c] = status.entries[c]
                                    /\ writer'[w].phase = "idle"
  <1>1. ASSUME CopiesInv, [Next]_vars PROVE [Own]_vars
    <2>1. ASSUME NEW w \in Writers, UpdateAccepted(w) PROVE Own
      <3>1. CopiesOK
        BY <1>1, CopiesInvParts
      <3>2. writer[w].copy = status /\ writer[w].phase = "inflight"
        BY <2>1, <3>1 DEF UpdateAccepted, Current, CopiesOK
      <3>3. writer'[w] = Idle
        BY <2>1, <3>1 DEF UpdateAccepted, CopiesOK
      <3>4. writer'[w].phase = "idle"
        BY <3>3, IdleTyped
      <3>5. status' = Updated(w, writer[w].copy)
        BY <2>1 DEF UpdateAccepted
      <3>6. \A c \in Clusters : c # ClusterOf(w) =>
              status'.entries[c] = status.entries[c]
        BY <1>1, <3>2, <3>5, UpdateTouchesOwnEntry
      <3> QED BY <3>2, <3>4, <3>6
    <2>2. ASSUME UNCHANGED status PROVE Own
      BY <2>2
    <2>3. ASSUME NEW w \in Writers, WriterStep(w) PROVE Own
      <3>1. UpdateAccepted(w) \/ UNCHANGED status
        BY <2>3
        DEF WriterStep, ReadTarget, UpdateConflicts, UpdateFails, apiVars
      <3> QED BY <2>1, <2>2, <3>1
    <2>4. ASSUME NEW k \in StreamIDs, StreamStep(k) \/ StreamBreaks(k)
          PROVE  UNCHANGED status
      BY <2>4 DEF StreamStep, StreamConnects, StreamBreaks, StreamExits,
         handleEvent, pollAndSync, apiVars
    <2>5. ASSUME WorkerStep \/ CacheSync PROVE UNCHANGED status
      BY <2>5 DEF WorkerStep, Reconcile, RequeueForStatefulSet, CleanUpDone,
         StartStreams, CacheSync, apiVars
    <2>6. ASSUME NEW c \in Clusters,
                 \/ SpecChanges(c) \/ StatefulSetCreated(c)
                 \/ \E p \in PodIdx : PodChanges(c, p) \/ PodRemoved(c, p)
          PROVE  UNCHANGED status
      BY <2>6
      DEF SpecChanges, StatefulSetCreated, PodChanges, PodRemoved, apiVars
    <2> QED BY <1>1, <2>2, <2>3, <2>4, <2>5, <2>6 DEF Next
  <1>2. Spec => []CopiesInv
    BY CopiesCorrect
  <1> QED BY <1>1, <1>2, PTL DEF Spec, NoLostUpdates

-----------------------------------------------------------------------------
\* A stream that nobody has told to stop.
Follows(k) == stream[k].pc # "none" /\ ~stream[k].cancelled

\* Who follows a pod depends on which streams were told to stop only.
LEMMA SameLive ==
  ASSUME NEW c \in Clusters, NEW p \in PodIdx,
         \A s \in Slots : Follows(<<c, p, s>>)' <=> Follows(<<c, p, s>>)
  PROVE  Live(c, p)' = Live(c, p)
  BY DEF Live, Follows

\* A step that neither stops nor starts a stream keeps the invariant.
LEMMA SameStreams ==
  ASSUME StreamsInv, UNCHANGED <<dirty, worker, replicas>>,
         \A k \in StreamIDs : Follows(k)' <=> Follows(k)
  PROVE  StreamsInv'
  <1>1. \A c \in Clusters, p \in PodIdx : Live(c, p)' = Live(c, p)
    BY SameLive DEF StreamIDs
  <1> QED BY <1>1 DEF StreamsInv, OneStreamPerPod

\* The steps of the goroutines.
LEMMA StreamStepFollows ==
  ASSUME TypeOK, NEW k \in StreamIDs, StreamStep(k) \/ StreamBreaks(k),
         NEW j \in StreamIDs
  PROVE  Follows(j)' <=> Follows(j)
  <1>0. stream \in [StreamIDs -> StreamRec]
    BY DEF TypeOK, StreamRec
  <1>1. CASE StreamConnects(k)
    BY <1>0, <1>1 DEF StreamConnects, Follows, StreamRec
  <1>2. CASE StreamBreaks(k)
    BY <1>0, <1>2 DEF StreamBreaks, InSelect, Follows, StreamRec
  <1>3. CASE StreamExits(k)
    BY <1>0, <1>3 DEF StreamExits, NoStream, Follows, StreamRec
  <1>4. CASE handleEvent(k)
    BY <1>0, <1>4 DEF handleEvent, Follows, StreamRec
  <1>5. CASE pollAndSync(k)
    BY <1>5 DEF pollAndSync, Follows
  <1> QED BY <1>1, <1>2, <1>3, <1>4, <1>5 DEF StreamStep

\* stopStreamsForCluster leaves nobody to follow the pods of the cluster, and
\* the streams of other clusters alone.
LEMMA StopStreams ==
  ASSUME TypeOK, NEW c \in Clusters, stopStreamsForCluster(c)
  PROVE  /\ \A p \in PodIdx : Live(c, p)' = {}
         /\ \A d \in Clusters \ {c}, p \in PodIdx : Live(d, p)' = Live(d, p)
  <1>0. stream \in [StreamIDs -> StreamRec]
    BY DEF TypeOK, StreamRec
  <1>1. ASSUME NEW k \in StreamIDs
        PROVE  /\ k[1] = c => ~Follows(k)'
               /\ k[1] # c => stream'[k] = stream[k]
    BY <1>0, <1>1 DEF stopStreamsForCluster, Stopped, Follows, StreamRec
  <1>2. ASSUME NEW p \in PodIdx PROVE Live(c, p)' = {}
    <2>1. \A s \in Slots : <<c, p, s>> \in StreamIDs /\ <<c, p, s>>[1] = c
      BY DEF StreamIDs
    <2> QED BY <1>1, <2>1 DEF Live, Follows
  <1>3. ASSUME NEW d \in Clusters \ {c}, NEW p \in PodIdx
        PROVE  Live(d, p)' = Live(d, p)
    <2>1. \A s \in Slots : <<d, p, s>> \in StreamIDs /\ <<d, p, s>>[1] = d
      BY DEF StreamIDs
    <2> QED BY <1>1, <2>1 DEF Live
  <1> QED BY <1>2, <1>3

\* The streams of the worker's cluster start, one for each pod.
LEMMA StartStreamsLive ==
  ASSUME TypeOK, StreamsInv, StartStreams,
         NEW c \in Clusters, c = worker.cluster, NEW n, n = worker.desired
  PROVE  /\ \A p \in PodIdx :
              Cardinality(Live(c, p)') = IF p < n THEN 1 ELSE 0
         /\ \A d \in Clusters \ {c}, p \in PodIdx : Live(d, p)' = Live(d, p)
  <1> DEFINE free(p) == {s \in Slots : stream[<<c, p, s>>].pc = "none"}
             slot(p) == CHOOSE s \in free(p) : TRUE
             started == {<<c, p, slot(p)>> : p \in 0..(n - 1)}
  <1>0. /\ stream \in [StreamIDs -> StreamRec]
        /\ n \in 0..MaxPods /\ worker.pc = "start"
    BY DEF TypeOK, StreamRec, StartStreams
  <1>1. stream' = [k \in StreamIDs |-> IF k \in started THEN NewStream ELSE stream[k]]
    BY DEF StartStreams
  <1>2. \A p \in 0..(n - 1) : slot(p) \in Slots
    <2>1. \A p \in 0..(n - 1) : free(p) # {}
      BY DEF StartStreams
    <2> QED BY <2>1
  <1>3. \A p \in PodIdx : Live(c, p) = {}
    BY <1>0 DEF StreamsInv
  <1> HIDE DEF slot
  <1>4. ASSUME NEW p \in PodIdx, NEW s \in Slots
        PROVE  <<c, p, s>> \in started <=> p < n /\ s = slot(p)
    BY <1>0, BoundAssumption DEF PodIdx
  <1>5. ASSUME NEW d \in Clusters \ {c}, NEW p \in PodIdx, NEW s \in Slots
        PROVE  <<d, p, s>> \notin started
    OBVIOUS
  <1> HIDE DEF started
  <1>6. ASSUME NEW d \in Clusters, NEW p \in PodIdx, NEW s \in Slots
        PROVE  /\ <<d, p, s>> \in started => Follows(<<d, p, s>>)'
               /\ <<d, p, s>> \notin started =>
                    (Follows(<<d, p, s>>)' <=> Follows(<<d, p, s>>))
    <2>1. <<d, p, s>> \in StreamIDs
      BY DEF StreamIDs
    <2> QED BY <1>1, <2>1 DEF Follows, NewStream
  <1>7. ASSUME NEW p \in PodIdx, p < n PROVE Live(c, p)' = {slot(p)}
    <2>1. slot(p) \in Slots
      BY <1>0, <1>2, <1>7, BoundAssumption DEF PodIdx
    <2>2. ASSUME NEW s \in Slots PROVE Follows(<<c, p, s>>)' <=> s = slot(p)
      <3>1. ~Follows(<<c, p, s>>)
        BY <1>3 DEF Live, Follows
      <3> QED BY <1>4, <1>6, <1>7, <3>1
    <2> QED BY <2>1, <2>2 DEF Live, Follows
  <1>8. ASSUME NEW p \in PodIdx, ~(p < n) PROVE Live(c, p)' = {}
    <2>1. ASSUME NEW s \in Slots PROVE Follows(<<c, p, s>>)' <=> Follows(<<c, p, s>>)
      BY <1>4, <1>6, <1>8
    <2>2. Live(c, p)' = Live(c, p)
      BY <2>1, SameLive
    <2> QED BY <1>3, <2>2
  <1>9. ASSUME NEW d \in Clusters \ {c}, NEW p \in PodIdx
        PROVE  Live(d, p)' = Live(d, p)
    <2>1. ASSUME NEW s \in Slots PROVE Follows(<<d, p, s>>)' <=> Follows(<<d, p, s>>)
      BY <1>5, <1>6
    <2> QED BY <2>1, SameLive
  <1>10. ASSUME NEW p \in PodIdx
         PROVE  Cardinality(Live(c, p)') = IF p < n THEN 1 ELSE 0
    BY <1>7, <1>8, FS_Singleton, FS_EmptySet
  <1> QED BY <1>9, <1>10

\* The steps of the worker.
LEMMA WorkerKeepsStreams ==
  ASSUME TypeOK, StreamsInv, WorkerStep
  PROVE  StreamsInv'
  <1>0. replicas \in [Clusters -> 0..MaxPods] /\ dirty \in [Clusters -> BOOLEAN]
    BY DEF TypeOK
  <1>1. ASSUME NEW c \in Clusters, Reconcile(c) PROVE StreamsInv'
    <2>1. /\ \A p \in PodIdx : Live(c, p)' = {}
          /\ \A d \in Clusters \ {c}, p \in PodIdx : Live(d, p)' = Live(d, p)
      BY <1>1, StopStreams DEF Reconcile
    <2>2. /\ worker.pc = "idle" /\ UNCHANGED replicas
          /\ worker' = [pc |-> "clean", cluster |-> c, desired |-> replicas[c]]
          /\ dirty' = [dirty EXCEPT ![c] = FALSE]
      BY <1>1 DEF Reconcile, worldVars
    <2> QED BY <1>0, <2>1, <2>2 DEF StreamsInv, OneStreamPerPod
  <1>2. ASSUME NEW c \in Clusters, RequeueForStatefulSet(c) PROVE StreamsInv'
    <2>1. \A d \in Clusters \ {c}, p \in PodIdx : Live(d, p)' = Live(d, p)
      BY <1>2, StopStreams DEF RequeueForStatefulSet
    <2>2. /\ worker.pc = "idle"
          /\ dirty[c]
          /\ UNCHANGED <<replicas, worker, dirty>>
      BY <1>2 DEF RequeueForStatefulSet, worldVars
    <2> QED BY <2>1, <2>2 DEF StreamsInv, OneStreamPerPod
  <1>3. CASE CleanUpDone
    <2>1. \A d \in Clusters, p \in PodIdx : Live(d, p)' = Live(d, p)
      BY <1>3 DEF CleanUpDone, Live
    <2>2. /\ UNCHANGED <<replicas, dirty>>
          /\ worker' = [worker EXCEPT !.pc =
                          IF worker.desired = 0 THEN "idle" ELSE "start"]
          /\ worker.pc = "clean"
      BY <1>3 DEF CleanUpDone, worldVars
    <2>3. worker \in [pc : {"idle", "clean", "start"}, cluster : Clusters,
                      desired : 0..MaxPods]
      BY DEF TypeOK
    <2>4. \A p \in PodIdx : ~(p < 0)
      BY BoundAssumption DEF PodIdx
    <2>5. Cardinality({}) = 0
      BY FS_EmptySet
    <2> QED
      BY <1>0, <2>1, <2>2, <2>3, <2>4, <2>5
      DEF StreamsInv, OneStreamPerPod
  <1>4. CASE StartStreams
    <2>1. PICK c \in Clusters, n \in 0..MaxPods : c = worker.cluster /\ n = worker.desired
      BY DEF TypeOK
    <2>2. /\ \A p \in PodIdx : Cardinality(Live(c, p)') = IF p < n THEN 1 ELSE 0
          /\ \A d \in Clusters \ {c}, p \in PodIdx : Live(d, p)' = Live(d, p)
      BY <1>4, <2>1, StartStreamsLive
    <2>3. /\ worker'.pc = "idle"
          /\ worker.pc = "start"
          /\ UNCHANGED <<replicas, dirty>>
      BY <1>4 DEF StartStreams, worldVars, TypeOK
    <2> QED BY <2>1, <2>2, <2>3 DEF StreamsInv, OneStreamPerPod
  <1> QED BY <1>1, <1>2, <1>3, <1>4 DEF WorkerStep

\* StreamsInv is inductive.
LEMMA StreamsNext == TypeOK /\ StreamsInv /\ [Next]_vars => StreamsInv'
  <1> SUFFICES ASSUME TypeOK, StreamsInv, [Next]_vars PROVE StreamsInv'
    OBVIOUS
  <1>1. ASSUME UNCHANGED <<dirty, worker, replicas, stream>> PROVE StreamsInv'
    BY <1>1, SameStreams DEF Follows
  <1>2. ASSUME NEW w \in Writers, WriterStep(w) PROVE StreamsInv'
    BY <1>1, <1>2
    DEF WriterStep, ReadTarget, UpdateAccepted, UpdateConflicts, UpdateFails,
        worldVars
  <1>3. ASSUME NEW k \in StreamIDs, StreamStep(k) \/ StreamBreaks(k) PROVE StreamsInv'
    <2>1. UNCHANGED <<dirty, worker, replicas>>
      BY <1>3
      DEF StreamStep, StreamConnects, StreamBreaks, StreamExits, handleEvent,
          pollAndSync, worldVars
    <2> QED BY <1>3, <2>1, StreamStepFollows, SameStreams
  <1>4. ASSUME CacheSync \/ UNCHANGED vars PROVE StreamsInv'
    BY <1>1, <1>4 DEF CacheSync, vars, worldVars
  <1>5. ASSUME NEW c \in Clusters, StatefulSetCreated(c) PROVE StreamsInv'
    BY <1>1, <1>5 DEF StatefulSetCreated
  <1>6. ASSUME NEW c \in Clusters, NEW p \in PodIdx, PodRemoved(c, p) PROVE StreamsInv'
    BY <1>1, <1>6 DEF PodRemoved
  <1>7. ASSUME NEW c \in Clusters, NEW p \in PodIdx, PodChanges(c, p) PROVE StreamsInv'
    <2>1. stream \in [StreamIDs -> StreamRec]
      BY DEF TypeOK, StreamRec
    <2>2. ASSUME NEW k \in StreamIDs PROVE Follows(k)' <=> Follows(k)
      BY <1>7, <2>1 DEF PodChanges, Follows, StreamRec
    <2>3. UNCHANGED <<dirty, worker, replicas>>
      BY <1>7 DEF PodChanges
    <2> QED BY <2>2, <2>3, SameStreams
  <1>8. ASSUME NEW c \in Clusters, SpecChanges(c) PROVE StreamsInv'
    <2>1. /\ dirty' = [dirty EXCEPT ![c] = TRUE] /\ UNCHANGED <<worker, stream>>
          /\ \A d \in Clusters \ {c} : replicas'[d] = replicas[d]
      BY <1>8 DEF SpecChanges, TypeOK
    <2>2. \A d \in Clusters, p \in PodIdx : Live(d, p)' = Live(d, p)
      BY <2>1 DEF Live
    <2>3. dirty \in [Clusters -> BOOLEAN]
      BY DEF TypeOK
    <2> QED BY <2>1, <2>2, <2>3 DEF StreamsInv, OneStreamPerPod
  <1> QED
    BY <1>2, <1>3, <1>4, <1>5, <1>6, <1>7, <1>8, WorkerKeepsStreams
    DEF Next

\* Before the first reconcile every cluster waits in the queue.
LEMMA StreamsInit == Init => StreamsInv
  <1>1. Init => worker.pc = "idle" /\ dirty = [c \in Clusters |-> TRUE]
    BY DEF Init
  <1> QED BY <1>1 DEF StreamsInv, OneStreamPerPod

\* OneStreamPerPod: once the worker has caught up with a cluster, exactly one
\* stream follows each of its pods (Reconcile, stopStreamsForCluster).
THEOREM StreamsFollowPods == Spec => []OneStreamPerPod
  <1>1. StreamsInv => OneStreamPerPod
    BY DEF StreamsInv
  <1> QED BY <1>1, StreamsInit, StreamsNext, StateTypeCorrect, PTL DEF Spec
=============================================================================
