-------------------------- MODULE DiscoveryPipeline -------------------------
(***************************************************************************)
(* One discovery runtime of a TargetSource: the HTTP loader and the        *)
(* message processor around the discovery channel, a push endpoint that    *)
(* shares the channel, and the shutdown of the runtime.                    *)
(***************************************************************************)
EXTENDS HTTPLoader, MessageProcessor

CONSTANTS
  PushBatches,   \* batches a push endpoint may send (SendEvents)
  MaxPush,       \* bound on the number of pushed batches
  MayCancel      \* whether the controller may stop the runtime

ASSUME PushAssumption ==
  /\ PushBatches \subseteq Seq(DiscoveryMessage) \ {<<>>}
  /\ \A batch \in PushBatches : \A i \in 1..Len(batch) :
       batch[i].type = "snapshot" => batch[i].id = PushID
  /\ MaxPush \in Nat
  /\ MayCancel \in BOOLEAN

VARIABLE pushed  \* batches pushed so far

vars == <<loaderVars, mpVars, channel, ctxDone, pushed>>

TypeOK ==
  /\ ChannelTypeOK
  /\ LoaderTypeOK
  /\ MPTypeOK
  /\ pushed \in 0..MaxPush

Init ==
  /\ channel = <<>>
  /\ ctxDone = FALSE
  /\ LoaderInit
  /\ MPInit
  /\ pushed = 0

\* Identifiers carried by a chunk that the processor has not finished with.
\* A uuid is never drawn twice; that it differs from these is all we assume.
SnapshotIDs(messages) ==
  {messages[i].id : i \in {j \in 1..Len(messages) : messages[j].type = "snapshot"}}
InFlight ==
  SnapshotIDs(pending) \cup SnapshotIDs(queue) \cup {active.id}
    \cup UNION {SnapshotIDs(channel[i]) : i \in 1..Len(channel)}

LoaderNext ==
  /\ \/ LoaderStep
     \/ \E id \in IDs \ InFlight : LoaderPage(id)
  /\ UNCHANGED <<mpVars, pushed>>

SourceNext == SourceChanges /\ UNCHANGED <<mpVars, pushed>>

MPNext == MPStep /\ UNCHANGED <<loaderVars, pushed>>

CacheNext(n) == CacheSync(n) /\ UNCHANGED <<loaderVars, pushed>>

\* External: whoever else may hold the registered channel, such as a push
\* endpoint, sends events or chunks of its own. SendEvents is made for it and
\* has no caller yet.
Push ==
  /\ ~ctxDone
  /\ pushed < MaxPush
  /\ pushed' = pushed + 1
  /\ \E batch \in PushBatches : sendMessages(batch)
  /\ UNCHANGED <<loaderVars, mpVars, ctxDone>>

\* Stop of the registered runtime, called by the controller.
Stop ==
  /\ MayCancel
  /\ ~ctxDone
  /\ ctxDone' = TRUE
  /\ UNCHANGED <<loaderVars, mpVars, channel, pushed>>

\* The goroutine of the processor cancels the context when Run returns.
Cleanup ==
  /\ mpPC = "exited"
  /\ ~ctxDone
  /\ ctxDone' = TRUE
  /\ UNCHANGED <<loaderVars, mpVars, channel, pushed>>

Next ==
  \/ LoaderNext \/ SourceNext \/ MPNext
  \/ \E n \in CRNames : CacheNext(n)
  \/ Push \/ Stop \/ Cleanup

Spec == Init /\ [][Next]_vars

\* Goroutines keep running, watches deliver, and Go's select does not pass
\* over a ready case for ever.
Fairness ==
  /\ WF_vars(LoaderNext)
  /\ SF_vars(LoaderStops /\ UNCHANGED <<mpVars, pushed>>)
  /\ WF_vars(MPNext)
  /\ WF_vars(Cleanup)
  /\ \A n \in CRNames : WF_vars(CacheNext(n))

FairSpec == Spec /\ Fairness

-----------------------------------------------------------------------------
(***************************************************************************)
(* Properties.                                                             *)
(***************************************************************************)
normalized(list) == [i \in 1..Len(list) |-> normalizeTarget(list[i])]

\* Every chunk held in the buffer of a loader's snapshot is the chunk of that
\* index of the list the loader fetched under that identifier, and a snapshot
\* that is being applied holds all of its chunks: chunks of two snapshots are
\* never mixed, however producers interleave on the channel.
SnapshotAssembled ==
  active.id \in IDs =>
    LET list == fetched[active.id]
    IN  /\ active.total = totalChunks(Len(list))
        /\ \A i \in DOMAIN active.received :
             active.received[i] = normalized(chunkOf(list, i))
        /\ mpPC \in {"assemble", "apply"} =>
             DOMAIN active.received = 0..(active.total - 1)

\* Why it holds: every chunk on its way carries the part of the fetched list
\* that its index announces, the buffer takes chunks of one identifier only,
\* and a snapshot is applied once as many indices as chunks were announced
\* have been stored.
Faithful(m, lists) ==
  m.type = "snapshot" /\ m.id \in IDs =>
    /\ m.total = totalChunks(Len(lists[m.id]))
    /\ m.index \in 0..(m.total - 1)
    /\ m.targets = chunkOf(lists[m.id], m.index)

AllFaithful(messages, lists) ==
  \A i \in 1..Len(messages) : Faithful(messages[i], lists)

FaithfulBuffer(snapshot, lists) ==
  snapshot.id \in IDs =>
    /\ snapshot.total = totalChunks(Len(lists[snapshot.id]))
    /\ \A i \in DOMAIN snapshot.received :
         snapshot.received[i] = normalized(chunkOf(lists[snapshot.id], i))

AssemblyInv ==
  /\ TypeOK
  /\ loaderPC = "send" <=> pending # <<>>
  /\ mpPC = "drain" => queue # <<>>
  /\ mpPC \in {"assemble", "apply"} => active # NoSnapshot /\ complete(active)
  /\ AllFaithful(pending, fetched)
  /\ AllFaithful(queue, fetched)
  /\ \A i \in 1..Len(channel) : AllFaithful(channel[i], fetched)
  /\ FaithfulBuffer(active, fetched)

\* processSnapshot meets a buffer that is complete only after a cancelled
\* replay, when Run is about to return: its branch that would apply an older
\* complete snapshot first is dead code.
NoCompleteSnapshotPending ==
  mpPC \in {"select", "drain"} /\ active # NoSnapshot /\ complete(active) =>
    ctxDone

\* The Target a list asks for: the last entry of a name wins.
LastOf(list, n) ==
  CHOOSE i \in 1..Len(list) :
    /\ list[i].name = n
    /\ \A j \in (i + 1)..Len(list) : list[j].name # n
Wanted(list) ==
  [n \in CRNames |->
     IF n \in NamesOf(list)
       THEN generateTargetResource(list[LastOf(list, n)])
       ELSE NoTarget]

\* When a snapshot has been applied and no API call failed and no read was
\* stale, the Targets of the source are exactly the list the loader fetched:
\* nothing the source no longer lists survives and every entry has its spec.
SnapshotConverges ==
  mpPC = "apply" /\ todo = NoEvents /\ clean /\ active.id \in IDs =>
    targets = Wanted(normalized(fetched[active.id]))

\* A Target disappears only because a delete event names it or because a
\* complete snapshot does not list it, in none of its chunks; if the loader
\* sent it, the list it fetched does not.
DeletesJustified ==
  [][\A n \in CRNames :
       targets[n] # NoTarget /\ targets'[n] = NoTarget =>
         \/ /\ mpPC = "drain"
            /\ Head(queue).type = "event"
            /\ Head(queue).action = "delete"
            /\ normalizeTarget(Head(queue).target).name = n
         \/ /\ mpPC = "apply" /\ complete(active)
            /\ \A i \in DOMAIN active.received : n \notin NamesOf(active.received[i])
            /\ active.id \in IDs => n \notin NamesOf(normalized(fetched[active.id]))]_vars

\* Why these hold. What applySnapshot has assembled so far are the first
\* chunks of the snapshot, for a snapshot of the loader the beginning of the
\* list it fetched.
Beginning(list, chunks) ==
  [i \in 1..(IF chunks * ChunkSize > Len(list) THEN Len(list)
             ELSE chunks * ChunkSize) |-> normalizeTarget(list[i])]
AssembledInv ==
  mpPC \in {"assemble", "apply"} =>
    /\ assembled <= active.total
    /\ mpPC = "apply" => assembled = active.total
    /\ NamesOf(discovered) =
         UNION {NamesOf(active.received[i]) : i \in 0..(assembled - 1)}
    /\ active.id \in IDs => discovered = Beginning(fetched[active.id], assembled)

\* Between two snapshots nothing is left of the last one.
ResetInv ==
  mpPC \in {"init", "select", "drain"} /\ ~ctxDone =>
    /\ assembled = 0 /\ discovered = <<>>
    /\ active # NoSnapshot => mpPC # "init" /\ ~complete(active)

\* The entries of the snapshot that were applied already.
AppliedSoFar == Len(discovered) - Len(todo.applies)

\* Deletes come first and spare what is listed; then the entries are applied
\* in their order. While nothing has failed, a Target that is not listed is
\* gone or about to be deleted, and one that is listed has the spec of the
\* last entry of its name that was applied.
ProgressInv ==
  mpPC = "apply" =>
    /\ AppliedSoFar \in 0..Len(discovered)
    /\ \A i \in 1..Len(todo.applies) :
         todo.applies[i] = discovered[AppliedSoFar + i]
    /\ todo.deletes \cap NamesOf(discovered) = {}
    /\ todo.deletes # {} => AppliedSoFar = 0
    /\ clean =>
         /\ \A n \in CRNames \ NamesOf(discovered) :
              targets[n] = NoTarget \/ n \in todo.deletes
         /\ \A i \in 1..AppliedSoFar :
              (\A j \in (i + 1)..AppliedSoFar :
                 discovered[j].name # discovered[i].name)
              => targets[discovered[i].name] = generateTargetResource(discovered[i])

ApplyInv == AssembledInv /\ ResetInv /\ ProgressInv

\* The runtime keeps the promise the controller relies on: a loader that
\* runs ends only because of the context, a cancelled runtime ends in both
\* goroutines, also when the loader is blocked on a full channel nobody
\* reads, and a processor that gives up takes the loader down with it.
Lifecycle ==
  INSTANCE RuntimeLifecycle
    WITH processor <- IF mpPC = "exited" THEN "ended" ELSE "running",
         loader <- CASE loaderPC = "start" -> "new"
                     [] loaderPC = "exited" -> "ended"
                     [] OTHER -> "running"

ImplementsLifecycle == Lifecycle!FairSpec

\* An answer of one page that lists something and no name twice.
PlainAnswer(s) ==
  /\ s[FirstURL].next \notin URLs
  /\ s[FirstURL].items # <<>>
  /\ \A i, j \in DOMAIN s[FirstURL].items :
       s[FirstURL].items[i].name = s[FirstURL].items[j].name => i = j

\* While the source keeps such an answer, polling brings the Targets to its
\* content and keeps them there, however the cache lags and although API
\* calls, requests and earlier snapshots have failed. Nothing is said of an
\* empty answer, which SendSnapshot refuses so that all Targets stay, nor of
\* a name listed twice, whose Target follows both entries in turn.
ConvergesToSource ==
  \A s \in {s \in Sources : PlainAnswer(s)} :
    <>[](source = s) =>
      \/ <>[](targets = Wanted(normalized(s[FirstURL].items)))
      \/ <>(loaderPC = "exited")

\* processEvent: "If a snapshot is in the queue, the events get deferred and
\* applied after." When the processor is back from a snapshot that met no
\* failure, the last deferred event of every name has taken effect.
DeferredEventsApplied ==
  [][/\ mpPC = "apply" /\ active # NoSnapshot
     /\ active' = NoSnapshot /\ clean /\ ~ctxDone'
     => \A i \in 1..Len(deferred) :
          (\A j \in (i + 1)..Len(deferred) :
             deferred[j].target.name # deferred[i].target.name)
          => targets'[deferred[i].target.name] =
               IF deferred[i].action = "delete" THEN NoTarget
               ELSE generateTargetResource(deferred[i].target)]_vars

=============================================================================
