----------------------------- MODULE TargetState ----------------------------
(***************************************************************************)
(* The TargetState controller and the status of one Target that several    *)
(* clusters collect: the reconcile worker, the goroutine it keeps for      *)
(* every gNMIc pod, the events and polls of the pods, and the status       *)
(* updates that all of them compete for.                                   *)
(*                                                                         *)
(* Targets are independent of each other, so one is enough. The API server *)
(* refuses an update of an outdated copy; of resource versions only that   *)
(* is kept, whether a copy is still the latest one. Reads come from the    *)
(* informer cache, which lags. Pods, API server and cache are external.    *)
(***************************************************************************)
EXTENDS Integers, Sequences, FiniteSets

CONSTANTS
  Clusters,         \* clusters of the namespace
  MaxPods,          \* bound on spec.replicas
  Slots,            \* streams of one pod that may be alive at the same time
  Worker,           \* the reconcile worker, as a writer of the status
  NoEntry,          \* a cluster without an entry in status.clusterStates
  MaxAttempts,      \* maxConflictRetries
  MaxSpecChanges,   \* bound on changes of the specs
  MaxChanges,       \* bound on these and on changes of what the pods collect
  MaxFailures       \* bound on broken connections and failing updates

PodIdx == 0..(MaxPods - 1)
StreamIDs == Clusters \X PodIdx \X Slots
Writers == StreamIDs \cup {Worker}

ASSUME BoundAssumption ==
  /\ MaxPods \in Nat \ {0} /\ MaxAttempts \in Nat \ {0}
  /\ MaxSpecChanges \in Nat /\ MaxChanges \in Nat /\ MaxFailures \in Nat
ASSUME FiniteAssumption == IsFiniteSet(Clusters) /\ IsFiniteSet(Slots)
ASSUME WorkerAssumption == Worker \notin StreamIDs

VARIABLES
  replicas,     \* spec.replicas of every cluster, 0 also if it is deleted
  sts,          \* its StatefulSet exists
  has,          \* how every pod runs the target: "absent", "up" or "down"
  dirty,        \* the cluster waits in the work queue
  worker,       \* where Reconcile is, for which cluster and replicas
  stream,       \* the goroutines running runStream
  writer,       \* the status update every goroutine is busy with
  status,       \* the status of the Target at the API server
  cache,        \* the status of the Target in the informer cache
  cacheFresh,   \* the cache has the latest resource version
  specChanges, podChanges, failures   \* counters for the bounds

vars == <<replicas, sts, has, dirty, worker, stream, writer, status, cache,
          cacheFresh, specChanges, podChanges, failures>>
worldVars == <<replicas, sts, has, specChanges, podChanges>>
apiVars == <<status, cache, cacheFresh>>

Entry == [pod : PodIdx, up : BOOLEAN]
Status ==
  [entries : [Clusters -> Entry \cup {NoEntry}],
   state : {"", "READY", "DEGRADED"}]
Jobs == {"set", "delete", "clean", "removeCluster", "removeStalePods"}
NoStatus == [entries |-> [c \in Clusters |-> NoEntry], state |-> ""]
Leftover ==
  [entries |-> [c \in Clusters |-> [pod |-> MaxPods - 1, up |-> FALSE]],
   state |-> "DEGRADED"]
Idle ==
  [phase |-> "idle", job |-> "clean", up |-> FALSE, attempt |-> 0,
   copy |-> NoStatus, fresh |-> FALSE]
NoStream == [pc |-> "none", cancelled |-> FALSE, events |-> <<>>]
NewStream == [pc |-> "connect", cancelled |-> FALSE, events |-> <<>>]

TypeOK ==
  /\ replicas \in [Clusters -> 0..MaxPods]
  /\ sts \in [Clusters -> BOOLEAN]
  /\ has \in [Clusters -> [PodIdx -> {"absent", "up", "down"}]]
  /\ dirty \in [Clusters -> BOOLEAN]
  /\ worker \in [pc : {"idle", "clean", "start"}, cluster : Clusters,
                 desired : 0..MaxPods]
  /\ stream \in [StreamIDs -> [pc : {"none", "connect", "select"},
                               cancelled : BOOLEAN,
                               events : Seq({"absent", "up", "down"})]]
  /\ writer \in [Writers -> [phase : {"idle", "read", "inflight"}, job : Jobs,
                             up : BOOLEAN, attempt : 0..(MaxAttempts - 1),
                             copy : Status, fresh : BOOLEAN]]
  /\ status \in Status /\ cache \in Status /\ cacheFresh \in BOOLEAN
  /\ specChanges \in 0..MaxSpecChanges
  /\ podChanges \in 0..MaxChanges
  /\ failures \in 0..MaxFailures

(***************************************************************************)
(* Status updates.                                                         *)
(***************************************************************************)
\* READY when every cluster that has the target runs it and is connected.
computeStatusSummary(entries) ==
  LET present == {c \in Clusters : entries[c] # NoEntry}
  IN  IF present = {} THEN ""
      ELSE IF \A c \in present : entries[c].up THEN "READY" ELSE "DEGRADED"

ClusterOf(w) == IF w = Worker THEN worker.cluster ELSE w[1]
Cancelled(w) == w # Worker /\ stream[w].cancelled

\* What the goroutine writes, given the copy it has read.
Updated(w, copy) ==
  LET new == IF writer[w].job = "set"
               THEN [pod |-> w[2], up |-> writer[w].up] ELSE NoEntry
      entries == [copy.entries EXCEPT ![ClusterOf(w)] = new]
  IN  [entries |-> entries, state |-> computeStatusSummary(entries)]

\* Whether the entry found by the List asks for a clean-up. An event and a
\* reported target are written without looking at the entry.
Applies(w, entry) ==
  CASE writer[w].job = "clean" -> entry # NoEntry /\ entry.pod = w[2]
    [] writer[w].job = "removeCluster" -> entry # NoEntry
    [] writer[w].job = "removeStalePods" ->
         entry # NoEntry /\ entry.pod >= worker.desired
    [] OTHER -> TRUE

\* A copy in the hands of a writer. An outdated one is refused whatever it
\* holds, so its contents are forgotten.
Kept(copy, fresh) == IF fresh THEN copy ELSE NoStatus

\* A goroutine that is about to read; the first attempt of a clean-up works
\* on the copy of the List, a retry reads again and does not look at the
\* entry any more. With a cancelled context the update fails at once.
ReadTarget(w) ==
  /\ writer[w].phase = "read"
  /\ IF \/ Cancelled(w)
        \/ writer[w].attempt = 0 /\ ~Applies(w, cache.entries[ClusterOf(w)])
       THEN writer' = [writer EXCEPT ![w] = Idle]
       ELSE writer' = [writer EXCEPT ![w].phase = "inflight",
                                     ![w].copy = Kept(cache, cacheFresh),
                                     ![w].fresh = cacheFresh]
  /\ UNCHANGED <<worldVars, dirty, worker, stream, apiVars, failures>>

\* Faulty variant of Current: the API server takes any copy.
CurrentAlways(w) == TRUE

Current(w) == writer[w].fresh

\* The API server takes the update. Writing what is there already does not
\* make a new version.
UpdateAccepted(w) ==
  /\ writer[w].phase = "inflight"
  /\ Current(w)
  /\ status' = Updated(w, writer[w].copy)
  /\ IF status' = status
       THEN writer' = [writer EXCEPT ![w] = Idle] /\ UNCHANGED cacheFresh
       ELSE /\ writer' = [v \in Writers |->
                 IF v = w THEN Idle
                 ELSE [writer[v] EXCEPT !.fresh = FALSE, !.copy = NoStatus]]
            /\ cacheFresh' = FALSE
  /\ UNCHANGED <<worldVars, dirty, worker, stream, cache, failures>>

\* The next attempt reads a fresh copy.
Again(r) ==
  [r EXCEPT !.phase = "read", !.copy = NoStatus, !.attempt = r.attempt + 1]

\* Faulty variant of UpdateConflicts: the attempts are not counted.
UpdateConflictsForever(w) ==
  /\ writer[w].phase = "inflight"
  /\ ~Current(w)
  /\ writer' = [writer EXCEPT ![w] = Again(writer[w])]
  /\ UNCHANGED <<worldVars, dirty, worker, stream, apiVars, failures>>

\* A conflict is retried, and given up after the last attempt.
UpdateConflicts(w) ==
  /\ writer[w].phase = "inflight"
  /\ ~Current(w)
  /\ writer' = [writer EXCEPT ![w] =
       IF writer[w].attempt + 1 < MaxAttempts THEN Again(writer[w]) ELSE Idle]
  /\ UNCHANGED <<worldVars, dirty, worker, stream, apiVars, failures>>

\* Another error ends the attempts. A cancelled request may be lost or not.
UpdateFails(w) ==
  /\ writer[w].phase = "inflight"
  /\ \/ Cancelled(w) /\ UNCHANGED failures
     \/ failures < MaxFailures /\ failures' = failures + 1
  /\ writer' = [writer EXCEPT ![w] = Idle]
  /\ UNCHANGED <<worldVars, dirty, worker, stream, apiVars>>

CacheSync ==
  /\ ~cacheFresh
  /\ cache' = status
  /\ cacheFresh' = TRUE
  /\ UNCHANGED <<worldVars, dirty, worker, stream, writer, status, failures>>

(***************************************************************************)
(* runStream, processEvents, handleEvent and pollAndSync.                  *)
(***************************************************************************)
InSelect(k) == stream[k].pc = "select" /\ writer[k].phase = "idle"

Job(job, up) == [Idle EXCEPT !.phase = "read", !.job = job, !.up = up]

\* The connection stands. One that fails is tried again after a delay.
StreamConnects(k) ==
  /\ stream[k].pc = "connect"
  /\ ~stream[k].cancelled
  /\ stream' = [stream EXCEPT ![k].pc = "select"]
  /\ UNCHANGED <<worldVars, dirty, worker, writer, apiVars, failures>>

\* The stream ends: events still in the channel are lost with it.
StreamBreaks(k) ==
  /\ InSelect(k)
  /\ failures < MaxFailures
  /\ failures' = failures + 1
  /\ stream' = [stream EXCEPT ![k].pc = "connect", ![k].events = <<>>]
  /\ UNCHANGED <<worldVars, dirty, worker, writer, apiVars>>

StreamExits(k) ==
  /\ stream[k].cancelled
  /\ writer[k].phase = "idle"
  /\ stream' = [stream EXCEPT ![k] = NoStream]
  /\ UNCHANGED <<worldVars, dirty, worker, writer, apiVars, failures>>

\* The entry is set or, for a delete event, removed, whoever owns it.
handleEvent(k) ==
  /\ InSelect(k)
  /\ stream[k].events # <<>>
  /\ stream' = [stream EXCEPT ![k].events = Tail(@)]
  /\ LET e == Head(stream[k].events)
     IN  writer' = [writer EXCEPT ![k] =
           IF e = "absent" THEN Job("delete", FALSE) ELSE Job("set", e = "up")]
  /\ UNCHANGED <<worldVars, dirty, worker, apiVars, failures>>

\* Faulty variant of pollAndSync: stale entries are removed, what the pod
\* reports is left to the events.
pollAndSyncCleansOnly(k) ==
  /\ InSelect(k)
  /\ ~stream[k].cancelled
  /\ has[k[1]][k[2]] = "absent"
  /\ writer' = [writer EXCEPT ![k] = Job("clean", FALSE)]
  /\ UNCHANGED <<worldVars, dirty, worker, stream, apiVars, failures>>

\* The ticker: what the pod reports is written, an entry of this pod for a
\* target it does not report is cleaned up.
pollAndSync(k) ==
  /\ InSelect(k)
  /\ ~stream[k].cancelled
  /\ LET state == has[k[1]][k[2]]
     IN  writer' = [writer EXCEPT ![k] =
           IF state = "absent" THEN Job("clean", FALSE)
                               ELSE Job("set", state = "up")]
  /\ UNCHANGED <<worldVars, dirty, worker, stream, apiVars, failures>>

(***************************************************************************)
(* Reconcile.                                                              *)
(***************************************************************************)
\* The context is cancelled. Events still in the channel may be taken, but an
\* update with a cancelled context fails before it is sent: they are lost.
Stopped(r) == [r EXCEPT !.cancelled = TRUE, !.events = <<>>]

\* Faulty variant of stopStreamsForCluster: only the pods of the new spec.
stopStreamsOfPods(c) ==
  stream' = [k \in StreamIDs |->
    IF k[1] = c /\ k[2] < replicas[c] /\ stream[k].pc # "none"
      THEN Stopped(stream[k]) ELSE stream[k]]

stopStreamsForCluster(c) ==
  stream' = [k \in StreamIDs |->
    IF k[1] = c /\ stream[k].pc # "none"
      THEN Stopped(stream[k]) ELSE stream[k]]

\* Without replicas the cluster is removed from the status; otherwise the
\* entries of pods beyond the replicas are, before the streams start.
Reconcile(c) ==
  /\ worker.pc = "idle"
  /\ dirty[c]
  /\ replicas[c] = 0 \/ sts[c]
  /\ dirty' = [dirty EXCEPT ![c] = FALSE]
  /\ stopStreamsForCluster(c)
  /\ worker' = [pc |-> "clean", cluster |-> c, desired |-> replicas[c]]
  /\ writer' = [writer EXCEPT ![Worker] =
       Job(IF replicas[c] = 0 THEN "removeCluster" ELSE "removeStalePods", FALSE)]
  /\ UNCHANGED <<worldVars, apiVars, failures>>

\* Without a StatefulSet the streams stop and the cluster is requeued.
RequeueForStatefulSet(c) ==
  /\ worker.pc = "idle"
  /\ dirty[c]
  /\ replicas[c] # 0 /\ ~sts[c]
  /\ stopStreamsForCluster(c)
  /\ UNCHANGED <<worldVars, dirty, worker, writer, apiVars, failures>>

CleanUpDone ==
  /\ worker.pc = "clean"
  /\ writer[Worker].phase = "idle"
  /\ worker' = [worker EXCEPT !.pc = IF worker.desired = 0 THEN "idle" ELSE "start"]
  /\ UNCHANGED <<worldVars, dirty, stream, writer, apiVars, failures>>

\* One stream per pod; old ones may still be on their way out.
StartStreams ==
  LET c == worker.cluster
      free(p) == {s \in Slots : stream[<<c, p, s>>].pc = "none"}
      started == {<<c, p, CHOOSE s \in free(p) : TRUE>> :
                    p \in 0..(worker.desired - 1)}
  IN  /\ worker.pc = "start"
      /\ \A p \in 0..(worker.desired - 1) : free(p) # {}
      /\ stream' = [k \in StreamIDs |->
           IF k \in started THEN NewStream ELSE stream[k]]
      /\ worker' = [worker EXCEPT !.pc = "idle", !.desired = 0]
      /\ UNCHANGED <<worldVars, dirty, writer, apiVars, failures>>

(***************************************************************************)
(* The world: users, the StatefulSet controller and the pods.              *)
(***************************************************************************)
\* Any edit of the spec, also one that leaves the replicas alone.
SpecChanges(c) ==
  /\ specChanges < MaxSpecChanges /\ specChanges + podChanges < MaxChanges
  /\ specChanges' = specChanges + 1
  /\ \E n \in 0..MaxPods : replicas' = [replicas EXCEPT ![c] = n]
  /\ dirty' = [dirty EXCEPT ![c] = TRUE]
  /\ UNCHANGED <<sts, has, podChanges, worker, stream, writer, apiVars, failures>>

StatefulSetCreated(c) ==
  /\ replicas[c] # 0 /\ ~sts[c]
  /\ sts' = [sts EXCEPT ![c] = TRUE]
  /\ UNCHANGED <<replicas, has, specChanges, podChanges, dirty, worker, stream,
                 writer, apiVars, failures>>

\* A pod starts, loses or gives up the target and tells whoever listens.
PodChanges(c, p) ==
  /\ sts[c] /\ p < replicas[c]
  /\ specChanges + podChanges < MaxChanges
  /\ podChanges' = podChanges + 1
  /\ \E state \in {"absent", "up", "down"} \ {has[c][p]} :
       /\ has' = [has EXCEPT ![c][p] = state]
       /\ stream' = [k \in StreamIDs |->
            IF k[1] = c /\ k[2] = p /\ stream[k].pc = "select" /\ ~stream[k].cancelled
              THEN [stream[k] EXCEPT !.events = Append(@, state)] ELSE stream[k]]
  /\ UNCHANGED <<replicas, sts, specChanges, dirty, worker, writer, apiVars,
                 failures>>

\* The pod of a scaled down StatefulSet disappears.
PodRemoved(c, p) ==
  /\ p >= replicas[c]
  /\ has[c][p] # "absent"
  /\ has' = [has EXCEPT ![c][p] = "absent"]
  /\ UNCHANGED <<replicas, sts, specChanges, podChanges, dirty, worker, stream,
                 writer, apiVars, failures>>

\* The operator starts, with new clusters or with clusters it knew before:
\* their first pod may run the target already, and the status may have an
\* entry from an earlier life.
Init ==
  /\ replicas = [c \in Clusters |-> MaxPods]
  /\ \E known \in BOOLEAN :
       /\ sts = [c \in Clusters |-> known]
       /\ has = [c \in Clusters |->
                   [p \in PodIdx |-> IF known /\ p = 0 THEN "up" ELSE "absent"]]
       /\ status \in IF known THEN {NoStatus, Leftover} ELSE {NoStatus}
  /\ dirty = [c \in Clusters |-> TRUE]
  /\ worker \in [pc : {"idle"}, cluster : Clusters, desired : {0}]
  /\ stream = [k \in StreamIDs |-> NoStream]
  /\ writer = [w \in Writers |-> Idle]
  /\ cache = status
  /\ cacheFresh = TRUE
  /\ specChanges = 0 /\ podChanges = 0 /\ failures = 0

WriterStep(w) ==
  ReadTarget(w) \/ UpdateAccepted(w) \/ UpdateConflicts(w) \/ UpdateFails(w)

StreamStep(k) ==
  StreamConnects(k) \/ StreamExits(k) \/ handleEvent(k) \/ pollAndSync(k)

WorkerStep ==
  \/ \E c \in Clusters : Reconcile(c) \/ RequeueForStatefulSet(c)
  \/ CleanUpDone \/ StartStreams

Next ==
  \/ \E w \in Writers : WriterStep(w)
  \/ \E k \in StreamIDs : StreamStep(k) \/ StreamBreaks(k)
  \/ WorkerStep \/ CacheSync
  \/ \E c \in Clusters :
       \/ SpecChanges(c) \/ StatefulSetCreated(c)
       \/ \E p \in PodIdx : PodChanges(c, p) \/ PodRemoved(c, p)

Spec == Init /\ [][Next]_vars

\* Goroutines and worker make progress, tickers tick, the watch delivers and
\* the StatefulSet controller does its work.
Fairness ==
  /\ \A w \in Writers : WF_vars(WriterStep(w))
  /\ \A k \in StreamIDs : WF_vars(StreamStep(k)) /\ WF_vars(StreamExits(k))
  /\ \A k \in StreamIDs : WF_vars(handleEvent(k))
  /\ WF_vars(WorkerStep)
  /\ WF_vars(CacheSync)
  /\ \A c \in Clusters : WF_vars(StatefulSetCreated(c))

FairSpec == Spec /\ Fairness

-----------------------------------------------------------------------------
\* The entry of a cluster changes only by an update of that cluster's own
\* goroutines or of the worker busy with it, and whoever replaces an entry
\* has read it: an update computed from an old copy takes back neither what
\* another cluster nor what another pod has reported meanwhile.
NoLostUpdates ==
  [][\A c \in Clusters :
       status'.entries[c] # status.entries[c] =>
         \E w \in Writers : /\ ClusterOf(w) = c
                            /\ writer[w].phase = "inflight"
                            /\ writer[w].copy.entries[c] = status.entries[c]
                            /\ writer'[w].phase = "idle"]_vars

\* Why it holds: what is called fresh is the latest status.
CopiesInv ==
  /\ TypeOK
  /\ cacheFresh => cache = status
  /\ \A w \in Writers :
       writer[w].phase = "inflight" /\ writer[w].fresh => writer[w].copy = status
  /\ writer[Worker].job # "set"

Live(c, p) ==
  {s \in Slots : /\ stream[<<c, p, s>>].pc # "none"
                 /\ ~stream[<<c, p, s>>].cancelled}

\* Once the worker has caught up with a cluster, exactly one stream that
\* nobody has told to stop follows each of its pods, and none follows a pod
\* that was scaled away, however often the spec changed.
OneStreamPerPod ==
  \A c \in Clusters :
    ~dirty[c] /\ ~(worker.pc # "idle" /\ worker.cluster = c) =>
      \A p \in PodIdx :
        Cardinality(Live(c, p)) = IF p < replicas[c] THEN 1 ELSE 0

\* Why it holds: while the worker is busy with a cluster nobody follows its
\* pods, and it is about to start the streams of the replicas wanted now,
\* unless the cluster is queued again.
StreamsInv ==
  /\ \A c \in Clusters :
       worker.pc # "idle" /\ worker.cluster = c =>
         /\ \A p \in PodIdx : Live(c, p) = {}
         /\ dirty[c] \/ worker.desired = replicas[c]
  /\ OneStreamPerPod

Home(c, p) ==
  /\ sts[c] /\ p < replicas[c]
  /\ has[c][p] # "absent"
  /\ \A q \in PodIdx \ {p} : has[c][q] = "absent"

\* When one pod of a cluster keeps the target, the entry ends up naming that
\* pod and its state, although events were lost with broken streams, updates
\* given up after conflicts, and the entry deleted by a late event or by a
\* clean-up, retried after a conflict, of the pod that had the target before;
\* and a target that is not running on it degrades the summary.
ConvergesToPods ==
  \A c \in Clusters, p \in PodIdx, up \in BOOLEAN :
    <>[](Home(c, p) /\ (has[c][p] = "up") = up) =>
      <>[](/\ status.entries[c] = [pod |-> p, up |-> up]
           /\ ~up => status.state = "DEGRADED")
=============================================================================
