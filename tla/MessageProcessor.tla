-------------------------- MODULE MessageProcessor --------------------------
(***************************************************************************)
(* The message processor of one discovery runtime: it receives batches     *)
(* from the discovery channel, assembles the chunks of a snapshot, defers  *)
(* events while a snapshot is being assembled and applies snapshots and    *)
(* events to the Target resources of its TargetSource.                     *)
(*                                                                         *)
(* The Kubernetes API is external: writes go to the API server (targets),  *)
(* reads come from the informer cache of the manager's client (cached),    *)
(* which lags behind, and a call fails when the context is cancelled or,   *)
(* up to a bound, at any time.                                             *)
(***************************************************************************)
EXTENDS DiscoveryChannel

CONSTANTS
  TSName,          \* name of the TargetSource, the prefix of its Targets
  TargetPort,      \* spec.targetPort, used where no port was discovered
  NoTarget,        \* the value of a Target that does not exist
  InitialTargets,  \* Targets a runtime may find: left by an earlier runtime
  MaxFailures      \* bound on failing API calls while not cancelled

CRNames == {TSName} \X Names
Specs == Ports \cup {TargetPort}
Store == [CRNames -> Specs \cup {NoTarget}]

ASSUME TargetPortAssumption == TargetPort \in Nat \ {0} /\ MaxFailures \in Nat
ASSUME NoTargetAssumption == NoTarget \notin Specs
ASSUME InitialTargetsAssumption == InitialTargets \subseteq Store

VARIABLES
  mpPC,            \* where Run is
  queue,           \* messages received and not yet processed
  active,          \* activeSnapshot: the snapshot buffer in use, or none
  deferred,        \* deferredEvents
  assembled,       \* chunks concatenated so far by applySnapshot
  discovered,      \* allTargets of applySnapshot
  todo,            \* events generated from the snapshot, not yet applied
  targetCount,     \* the processor's own counter
  statusCount,     \* status.targetsCount of the TargetSource
  targets,         \* API server: the Targets labelled with this source
  cached,          \* informer cache: the same Targets as reads see them
  failures,        \* failing API calls so far
  clean            \* history: since its List the snapshot being applied has
                   \* met no failing call and no stale read

mpVars == <<mpPC, queue, active, deferred, assembled, discovered, todo,
            targetCount, statusCount, targets, cached, failures, clean>>

\* Locals of applySnapshot, and the state only API calls change.
applyVars == <<assembled, discovered, todo, clean>>
apiVars == <<statusCount, targets, cached, failures>>

MPPCs == {"init", "select", "drain", "assemble", "apply", "exited"}

NormalTarget == [name : CRNames, port : Ports \cup {0}]
NormalEvent ==
  [type : {"event"}, action : {"apply", "delete"}, target : NormalTarget]

NoSnapshot == [id |-> NoID, total |-> 0, received |-> <<>>]
NoEvents == [deletes |-> {}, applies |-> <<>>]

\* snapshot.complete: set when the number of chunks received is the total.
complete(snapshot) == Cardinality(DOMAIN snapshot.received) = snapshot.total

SnapshotBufferOK(snapshot) ==
  /\ snapshot.id \in IDs \cup {PushID}
  /\ snapshot.total \in Int
  /\ DOMAIN snapshot.received \subseteq 0..(snapshot.total - 1)
  /\ \A i \in DOMAIN snapshot.received :
       snapshot.received[i] \in Seq(NormalTarget)

MPTypeOK ==
  /\ mpPC \in MPPCs
  /\ queue \in Seq(DiscoveryMessage)
  /\ active = NoSnapshot \/ SnapshotBufferOK(active)
  /\ deferred \in Seq(NormalEvent)
  /\ assembled \in Nat
  /\ discovered \in Seq(NormalTarget)
  /\ todo \in [deletes : SUBSET CRNames, applies : Seq(NormalTarget)]
  /\ targetCount \in Int
  /\ statusCount \in Int
  /\ targets \in Store
  /\ cached \in Store
  /\ failures \in 0..MaxFailures
  /\ clean \in BOOLEAN

Existing(store) == {n \in CRNames : store[n] # NoTarget}

MPInit ==
  /\ mpPC = "init"
  /\ queue = <<>>
  /\ active = NoSnapshot
  /\ deferred = <<>>
  /\ assembled = 0
  /\ discovered = <<>>
  /\ todo = NoEvents
  /\ targetCount = 0
  /\ targets \in InitialTargets
  /\ cached = targets
  /\ statusCount = Cardinality(Existing(targets))
  /\ failures = 0
  /\ clean = FALSE

(***************************************************************************)
(* Mapping of discovered data.                                             *)
(***************************************************************************)
normalizeTarget(t) == [name |-> <<TSName, t.name>>, port |-> t.port]

\* The spec of the Target: a discovered port wins over spec.targetPort.
\* (Profile and labels follow the same precedence and are left out.)
generateTargetResource(t) == IF t.port # 0 THEN t.port ELSE TargetPort

NamesOf(list) == {list[i].name : i \in 1..Len(list)}

\* Faulty variants of generateEvents: no Target is ever deleted; the existing
\* Targets are deleted although the snapshot lists them.
generateEventsNoDelete(existing, list) == [deletes |-> {}, applies |-> list]
generateEventsReplace(existing, list) == [deletes |-> existing, applies |-> list]

generateEvents(existing, list) ==
  [deletes |-> existing \ NamesOf(list), applies |-> list]

(***************************************************************************)
(* The Kubernetes client.                                                  *)
(***************************************************************************)
CallFails ==
  \/ ctxDone /\ UNCHANGED failures
  \/ /\ ~ctxDone
     /\ failures < MaxFailures
     /\ failures' = failures + 1

\* Faulty variant of afterApply: a Target that exists is not updated.
afterApplyCreateOnly(n, spec) ==
  IF cached[n] # NoTarget THEN targets ELSE [targets EXCEPT ![n] = spec]

\* What CreateOrUpdate does on a name, given the cached object it reads:
\* nothing when the cache already shows the wanted spec, else a Create or an
\* Update that the API server accepts only when the cached view is current.
applyAccepted(n, spec) == cached[n] = spec \/ (~ctxDone /\ cached[n] = targets[n])
afterApply(n, spec) ==
  IF cached[n] = spec THEN targets ELSE [targets EXCEPT ![n] = spec]

\* deleteTarget: an object the cache does not show counts as deleted.
deleteAccepted(n) == cached[n] = NoTarget \/ ~ctxDone
afterDelete(n) ==
  IF cached[n] = NoTarget THEN targets ELSE [targets EXCEPT ![n] = NoTarget]

\* A Create or Update the API server refuses (AlreadyExists, Conflict).
applyRefused(n, spec) ==
  cached[n] # spec /\ cached[n] # targets[n] /\ ~ctxDone /\ UNCHANGED failures

\* updateTargetSourceStatus retries conflicts; other errors are only logged.
updateStatus(count) ==
  \/ /\ ~ctxDone
     /\ statusCount' = count
     /\ UNCHANGED failures
  \/ CallFails /\ UNCHANGED statusCount

CacheSync(n) ==
  /\ cached[n] # targets[n]
  /\ cached' = [cached EXCEPT ![n] = targets[n]]
  /\ UNCHANGED <<mpPC, queue, active, deferred, applyVars, targetCount,
                 statusCount, targets, failures, channel, ctxDone>>

(***************************************************************************)
(* Run.                                                                    *)
(***************************************************************************)
AfterMessage(rest) == IF rest = <<>> THEN "select" ELSE "drain"

RunStarts ==
  /\ mpPC = "init"
  /\ mpPC' = "select"
  /\ \/ targetCount' = Cardinality(Existing(cached)) /\ UNCHANGED failures
     \/ CallFails /\ UNCHANGED targetCount
  /\ UNCHANGED <<queue, active, deferred, applyVars, statusCount, targets,
                 cached, channel, ctxDone>>

ReceiveBatch ==
  /\ mpPC = "select"
  /\ channel # <<>>
  /\ queue' = queue \o Head(channel)
  /\ channel' = Tail(channel)
  /\ mpPC' = AfterMessage(queue')
  /\ UNCHANGED <<active, deferred, applyVars, targetCount, apiVars, ctxDone>>

\* ctx.Done in the select of Run, ctx.Err between two messages.
StopOnCancel ==
  /\ mpPC \in {"select", "drain"}
  /\ ctxDone
  /\ mpPC' = "exited"
  /\ UNCHANGED <<queue, active, deferred, applyVars, targetCount, apiVars,
                 channel, ctxDone>>

(***************************************************************************)
(* Snapshot chunks.                                                        *)
(***************************************************************************)
TakeMessage(type) ==
  /\ mpPC = "drain"
  /\ ~ctxDone
  /\ Head(queue).type = type
  /\ queue' = Tail(queue)

\* Faulty variant of continues: any chunk goes to the buffer in use.
continuesAny(chunk) == active # NoSnapshot

continues(chunk) == active # NoSnapshot /\ active.id = chunk.id

startNewSnapshot(chunk) ==
  [id |-> chunk.id, total |-> chunk.total, received |-> <<>>]

\* processSnapshot: the buffer a chunk goes to and the events that survive.
\* A buffer with another identifier is discarded. (The branch that applies a
\* complete one first is never taken: see NoCompleteSnapshotPending.)
bufferFor(chunk) == IF continues(chunk) THEN active ELSE startNewSnapshot(chunk)
deferredFor(chunk) == IF continues(chunk) THEN deferred ELSE <<>>

\* The checks of collectSnapshot.
acceptable(snapshot, chunk) ==
  /\ chunk.total = snapshot.total
  /\ chunk.index \in 0..(snapshot.total - 1)
  /\ chunk.index \notin DOMAIN snapshot.received

withChunk(snapshot, chunk) ==
  [id |-> snapshot.id, total |-> snapshot.total,
   received |->
     [i \in DOMAIN snapshot.received \cup {chunk.index} |->
        IF i = chunk.index
          THEN [j \in 1..Len(chunk.targets) |-> normalizeTarget(chunk.targets[j])]
          ELSE snapshot.received[i]]]

CollectChunk ==
  /\ TakeMessage("snapshot")
  /\ LET chunk == Head(queue)
     IN  /\ acceptable(bufferFor(chunk), chunk)
         /\ active' = withChunk(bufferFor(chunk), chunk)
         /\ deferred' = deferredFor(chunk)
  /\ mpPC' = IF complete(active') THEN "assemble" ELSE AfterMessage(queue')
  /\ UNCHANGED <<applyVars, targetCount, apiVars, channel, ctxDone>>

\* A bad chunk ends the processor. The buffer is dropped unless only the
\* total differs.
RejectChunk ==
  /\ TakeMessage("snapshot")
  /\ LET chunk == Head(queue)
         snapshot == bufferFor(chunk)
     IN  /\ ~acceptable(snapshot, chunk)
         /\ active' = IF chunk.total = snapshot.total THEN NoSnapshot ELSE snapshot
         /\ deferred' = deferredFor(chunk)
  /\ mpPC' = "exited"
  /\ UNCHANGED <<applyVars, targetCount, apiVars, channel, ctxDone>>

(***************************************************************************)
(* applySnapshot.                                                          *)
(***************************************************************************)
\* The context is checked before every chunk, and not after the last one.
ApplyCancelled ==
  /\ mpPC = "assemble"
  /\ ctxDone
  /\ assembled < active.total
  /\ active' = NoSnapshot
  /\ assembled' = 0
  /\ discovered' = <<>>
  /\ mpPC' = AfterMessage(queue)
  /\ UNCHANGED <<queue, deferred, todo, targetCount, clean, apiVars, channel,
                 ctxDone>>

\* (The branch for a missing chunk is never taken: see SnapshotAssembled.)
AssembleChunk ==
  /\ mpPC = "assemble"
  /\ ~ctxDone
  /\ assembled < active.total
  /\ discovered' = discovered \o active.received[assembled]
  /\ assembled' = assembled + 1
  /\ UNCHANGED <<mpPC, queue, active, deferred, todo, targetCount, clean,
                 apiVars, channel, ctxDone>>

\* fetchExistingTargets reads the cache; when it fails the snapshot is
\* applied as if no Target existed.
FetchExisting ==
  /\ mpPC = "assemble"
  /\ assembled = active.total
  /\ \/ /\ todo' = generateEvents(Existing(cached), discovered)
        /\ clean' = (cached = targets)
        /\ UNCHANGED failures
     \/ /\ CallFails
        /\ todo' = generateEvents({}, discovered)
        /\ clean' = FALSE
  /\ mpPC' = "apply"
  /\ UNCHANGED <<queue, active, deferred, assembled, discovered, targetCount,
                 statusCount, targets, cached, channel, ctxDone>>

\* Deletes come first, in the order of the List; errors are ignored.
ApplySnapshotDelete(n) ==
  /\ mpPC = "apply"
  /\ n \in todo.deletes
  /\ todo' = [todo EXCEPT !.deletes = @ \ {n}]
  /\ \/ /\ deleteAccepted(n)
        /\ targets' = afterDelete(n)
        /\ clean' = (clean /\ cached[n] = targets[n])
        /\ UNCHANGED failures
     \/ /\ CallFails
        /\ clean' = FALSE
        /\ UNCHANGED targets
  /\ UNCHANGED <<mpPC, queue, active, deferred, assembled, discovered,
                 targetCount, statusCount, cached, channel, ctxDone>>

ApplySnapshotTarget ==
  /\ mpPC = "apply"
  /\ todo.deletes = {}
  /\ todo.applies # <<>>
  /\ todo' = [todo EXCEPT !.applies = Tail(@)]
  /\ LET t == Head(todo.applies)
         spec == generateTargetResource(t)
     IN  \/ /\ applyAccepted(t.name, spec)
            /\ targets' = afterApply(t.name, spec)
            /\ clean' = (clean /\ cached[t.name] = targets[t.name])
            /\ UNCHANGED failures
         \/ /\ CallFails \/ applyRefused(t.name, spec)
            /\ clean' = FALSE
            /\ UNCHANGED targets
  /\ UNCHANGED <<mpPC, queue, active, deferred, assembled, discovered,
                 targetCount, statusCount, cached, channel, ctxDone>>

\* Faulty variant of FinishSnapshot: the buffer is not reset.
FinishSnapshotKeeps ==
  /\ mpPC = "apply"
  /\ todo = NoEvents
  /\ ctxDone => deferred = <<>>
  /\ targetCount' = Len(discovered)
  /\ updateStatus(targetCount')
  /\ deferred' = <<>>
  /\ assembled' = 0
  /\ discovered' = <<>>
  /\ clean' = FALSE
  /\ mpPC' = AfterMessage(queue)
  /\ UNCHANGED <<queue, active, todo, targets, cached, channel, ctxDone>>

\* The replay hands every deferred event to processEvent while the snapshot
\* is still active, so processEvent only defers it again; then the list of
\* deferred events is dropped with the snapshot.
FinishSnapshot ==
  /\ mpPC = "apply"
  /\ todo = NoEvents
  /\ ctxDone => deferred = <<>>
  /\ targetCount' = Len(discovered)
  /\ updateStatus(targetCount')
  /\ active' = NoSnapshot
  /\ deferred' = <<>>
  /\ assembled' = 0
  /\ discovered' = <<>>
  /\ clean' = FALSE
  /\ mpPC' = AfterMessage(queue)
  /\ UNCHANGED <<queue, todo, targets, cached, channel, ctxDone>>

\* The replay loop meets a cancelled context, after k events that processEvent
\* has deferred once more: it returns at once and leaves the complete snapshot
\* in place.
ReplayCancelled ==
  /\ mpPC = "apply"
  /\ todo = NoEvents
  /\ ctxDone
  /\ deferred # <<>>
  /\ \E k \in 0..(Len(deferred) - 1) :
       deferred' = deferred \o SubSeq(deferred, 1, k)
  /\ mpPC' = AfterMessage(queue)
  /\ UNCHANGED <<queue, active, applyVars, targetCount, apiVars, channel, ctxDone>>

(***************************************************************************)
(* processEvent.                                                           *)
(***************************************************************************)
DeferEvent ==
  /\ TakeMessage("event")
  /\ active # NoSnapshot
  /\ deferred' = Append(deferred, [Head(queue) EXCEPT !.target = normalizeTarget(@)])
  /\ mpPC' = AfterMessage(queue')
  /\ UNCHANGED <<active, applyVars, targetCount, apiVars, channel, ctxDone>>

ApplyEvent ==
  /\ TakeMessage("event")
  /\ active = NoSnapshot
  /\ LET t == normalizeTarget(Head(queue).target)
         spec == generateTargetResource(t)
     IN  \/ /\ Head(queue).action = "apply"
            /\ applyAccepted(t.name, spec)
            /\ targets' = afterApply(t.name, spec)
            /\ targetCount' = targetCount + 1
         \/ /\ Head(queue).action = "delete"
            /\ deleteAccepted(t.name)
            /\ targets' = afterDelete(t.name)
            /\ targetCount' = targetCount - 1
  /\ updateStatus(targetCount')
  /\ mpPC' = AfterMessage(queue')
  /\ UNCHANGED <<active, deferred, applyVars, cached, channel, ctxDone>>

\* A failing event ends the processor and loses the rest of the queue.
EventFails ==
  /\ TakeMessage("event")
  /\ active = NoSnapshot
  /\ LET t == normalizeTarget(Head(queue).target)
     IN  \/ CallFails
         \/ /\ Head(queue).action = "apply"
            /\ applyRefused(t.name, generateTargetResource(t))
  /\ mpPC' = "exited"
  /\ UNCHANGED <<active, deferred, applyVars, targetCount, statusCount,
                 targets, cached, channel, ctxDone>>

MPStep ==
  \/ RunStarts \/ ReceiveBatch \/ StopOnCancel
  \/ CollectChunk \/ RejectChunk
  \/ ApplyCancelled \/ AssembleChunk \/ FetchExisting
  \/ \E n \in CRNames : ApplySnapshotDelete(n)
  \/ ApplySnapshotTarget \/ FinishSnapshot \/ ReplayCancelled
  \/ DeferEvent \/ ApplyEvent \/ EventFails
=============================================================================
