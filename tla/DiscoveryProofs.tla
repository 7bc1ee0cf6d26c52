--------------------------- MODULE DiscoveryProofs --------------------------
(***************************************************************************)
(* Proofs about DiscoveryPipeline: type correctness, the assembly of       *)
(* snapshots, the refinement of RuntimeLifecycle, what an applied snapshot *)
(* leaves behind and why a Target may be deleted, for any names, chunk     *)
(* size, buffer size, source contents, pushed batches and bounds.          *)
(***************************************************************************)
EXTENDS DiscoveryPipeline, LoaderProofs, FiniteSetTheorems

(***************************************************************************)
(* Facts about the operators the model is built from.                      *)
(***************************************************************************)

\* Normalising prefixes the name and keeps the port.
LEMMA NormalizeTyped ==
  ASSUME NEW t \in DiscoveredTarget
  PROVE  normalizeTarget(t) \in NormalTarget
  BY DEF DiscoveredTarget, NormalTarget, normalizeTarget, CRNames

\* So are lists of them.
LEMMA NormalizedTyped ==
  ASSUME NEW list \in Seq(DiscoveredTarget)
  PROVE  normalized(list) \in Seq(NormalTarget)
  BY NormalizeTyped, LenProperties, ElementOfSeq DEF normalized

\* The spec generated for a normalised target is one a Target may have.
LEMMA SpecTyped ==
  ASSUME NEW t \in NormalTarget
  PROVE  generateTargetResource(t) \in Specs /\ t.name \in CRNames
  BY DEF NormalTarget, generateTargetResource, Specs

\* As many chunk indices below the total as the total: all of them.
LEMMA CompleteHasAllChunks ==
  ASSUME NEW s, SnapshotBufferOK(s), complete(s)
  PROVE  DOMAIN s.received = 0..(s.total - 1) /\ s.total \in Nat
  <1> DEFINE D == DOMAIN s.received
  <1>1. s.total \in Int /\ D \in SUBSET (0..(s.total - 1))
    BY DEF SnapshotBufferOK
  <1>2. /\ IsFiniteSet(0..(s.total - 1))
        /\ Cardinality(0..(s.total - 1)) =
             IF 0 > s.total - 1 THEN 0 ELSE s.total - 1 - 0 + 1
    BY <1>1, FS_Interval
  <1>3. /\ IsFiniteSet(D)
        /\ Cardinality(0..(s.total - 1)) = Cardinality(D) => 0..(s.total - 1) = D
    BY <1>1, <1>2, FS_Subset
  <1>4. Cardinality(D) \in Nat /\ Cardinality(D) = s.total
    BY <1>3, FS_CardinalityType DEF complete
  <1> QED BY <1>1, <1>2, <1>3, <1>4

\* A snapshot in use is never mistaken for none.
LEMMA BufferIsSnapshot ==
  ASSUME NEW s, SnapshotBufferOK(s)
  PROVE  s # NoSnapshot
  BY IdAssumption DEF SnapshotBufferOK, NoSnapshot

\* The Targets of a source are finitely many, so they can be counted.
LEMMA ExistingCount ==
  ASSUME NEW store
  PROVE  Cardinality(Existing(store)) \in Nat
  <1>1. IsFiniteSet(CRNames)
    BY NamesAssumption, FS_Singleton, FS_Product DEF CRNames
  <1>2. Existing(store) \in SUBSET CRNames
    BY DEF Existing
  <1> QED BY <1>1, <1>2, FS_Subset, FS_CardinalityType

(***************************************************************************)
(* The inductive invariant AssemblyInv.                                    *)
(***************************************************************************)

\* The initial states: nothing sent, nothing received.
LEMMA AssemblyInit == Init => AssemblyInv
  <1> SUFFICES ASSUME Init PROVE AssemblyInv
    OBVIOUS
  <1> USE DEF Init, LoaderInit, MPInit
  <1>b. ctxDone \in BOOLEAN /\ clean \in BOOLEAN
    BY Zenon
  <1>c. channel \in Seq(Seq(DiscoveryMessage)) /\ Len(channel) <= BufferSize
    BY BufferAssumption, EmptySeq
  <1>1. ChannelTypeOK
    BY <1>b, <1>c, Zenon DEF ChannelTypeOK
  <1>2. LoaderTypeOK
    BY FirstURLAssumption, ChunkAssumption, EmptySeq
    DEF LoaderTypeOK, LoaderPCs
  <1>3. Cardinality(Existing(targets)) \in Nat
    BY ExistingCount
  <1>4. MPTypeOK
    <2>1. queue \in Seq(DiscoveryMessage) /\ deferred \in Seq(NormalEvent)
      BY EmptySeq
    <2>2. /\ assembled \in Nat /\ discovered \in Seq(NormalTarget)
          /\ todo \in [deletes : SUBSET CRNames, applies : Seq(NormalTarget)]
      BY EmptySeq DEF NoEvents
    <2>3. /\ targetCount \in Int
          /\ statusCount \in Int
          /\ failures \in 0..MaxFailures
      BY <1>3, TargetPortAssumption
    <2>4. targets \in Store /\ cached \in Store /\ mpPC \in MPPCs
      BY InitialTargetsAssumption DEF MPPCs
    <2> QED BY <1>b, <2>1, <2>2, <2>3, <2>4, Zenon DEF MPTypeOK
  <1>5. pushed \in 0..MaxPush
    BY PushAssumption
  <1>6. active.id \notin IDs
    BY IdAssumption DEF NoSnapshot
  <1> QED BY <1>1, <1>2, <1>4, <1>5, <1>6, EmptySeq
      DEF AssemblyInv, TypeOK, AllFaithful, FaithfulBuffer

(***************************************************************************)
(* Steps of the loader.                                                    *)
(***************************************************************************)

\* A step that leaves the messages, the buffer and the fetched lists alone
\* can only disturb the loader's own types.
LEMMA QuietLoader ==
  ASSUME AssemblyInv, LoaderTypeOK',
         UNCHANGED <<fetched, pending, channel, ctxDone, mpVars, pushed>>,
         loaderPC' = "send" <=> loaderPC = "send"
  PROVE  AssemblyInv'
  <1>1. ChannelTypeOK' /\ MPTypeOK' /\ pushed' \in 0..MaxPush
    <2>1. ChannelTypeOK'
      BY DEF AssemblyInv, TypeOK, ChannelTypeOK
    <2>2. MPTypeOK'
      BY DEF AssemblyInv, TypeOK, MPTypeOK, mpVars
    <2> QED BY <2>1, <2>2 DEF AssemblyInv, TypeOK
  <1>2. TypeOK'
    BY <1>1 DEF TypeOK
  <1> QED BY <1>2 DEF AssemblyInv, mpVars, complete

\* The end of a fetch: the list takes an identifier that no message carries.
LEMMA SendSnapshotPreserves ==
  ASSUME AssemblyInv, NEW id \in IDs \ InFlight,
         NEW list \in Seq(DiscoveredTarget),
         loaderPC = "fetch", SendSnapshot(list, id),
         UNCHANGED <<source, fetchErrors, channel, ctxDone, mpVars, pushed>>
  PROVE  AssemblyInv'
  <1> USE DEF SendSnapshot, FetchLocalsReset
  <1>0. TypeOK /\ ChannelTypeOK /\ LoaderTypeOK /\ MPTypeOK
    BY DEF AssemblyInv, TypeOK
  <1>1. CASE list = <<>>
    <2>1. LoaderTypeOK'
      BY <1>0, <1>1, FirstURLAssumption, EmptySeq DEF LoaderTypeOK, LoaderPCs
    <2> QED BY <1>1, <2>1, QuietLoader
  <1>2. CASE list # <<>>
    <2> DEFINE cs == createDiscoverySnapshots(list, id)
    <2>1. /\ loaderPC' = "send" /\ pending' = cs
          /\ fetched' = [fetched EXCEPT ![id] = list]
      BY <1>2
    <2>2. /\ cs \in Seq(DiscoverySnapshot) /\ cs # <<>>
          /\ \A i \in 1..Len(cs) :
               /\ cs[i].id = id
               /\ cs[i].total = totalChunks(Len(list))
               /\ cs[i].index \in 0..(cs[i].total - 1)
               /\ cs[i].targets = chunkOf(list, cs[i].index)
      BY <1>2, SnapshotsTyped
    <2> HIDE DEF cs
    <2>3. fetched' \in [IDs -> Seq(DiscoveredTarget)] /\ fetched'[id] = list
      BY <1>0, <2>1 DEF LoaderTypeOK
    <2>4. \A j \in IDs \ {id} : fetched'[j] = fetched[j]
      BY <1>0, <2>1 DEF LoaderTypeOK
    <2>5. LoaderTypeOK'
      BY <1>0, <2>1, <2>2, <2>3, FirstURLAssumption, EmptySeq
      DEF LoaderTypeOK, LoaderPCs
    <2>6. ChannelTypeOK'
      BY <1>0 DEF ChannelTypeOK
    <2>7. MPTypeOK'
      BY <1>0 DEF MPTypeOK, mpVars
    <2>8. TypeOK'
      BY <2>5, <2>6, <2>7 DEF TypeOK, AssemblyInv
    <2>9. AllFaithful(cs, fetched')
      BY <2>2, <2>3 DEF AllFaithful, Faithful
    <2>10. ASSUME NEW m, m.type = "snapshot" => m.id \in InFlight,
                  Faithful(m, fetched)
           PROVE  Faithful(m, fetched')
      BY <2>4, <2>10 DEF Faithful
    <2>11. AllFaithful(queue, fetched')
      <3> SUFFICES ASSUME NEW i \in 1..Len(queue)
                   PROVE  Faithful(queue[i], fetched')
        BY DEF AllFaithful
      <3>1. queue[i].type = "snapshot" => queue[i].id \in InFlight
        BY DEF InFlight, SnapshotIDs
      <3>2. Faithful(queue[i], fetched)
        BY DEF AssemblyInv, AllFaithful
      <3> QED BY <3>1, <3>2, <2>10
    <2>12. \A i \in 1..Len(channel) : AllFaithful(channel[i], fetched')
      <3> SUFFICES ASSUME NEW i \in 1..Len(channel), NEW j \in 1..Len(channel[i])
                   PROVE  Faithful(channel[i][j], fetched')
        BY DEF AllFaithful
      <3>1. channel[i][j].type = "snapshot" => channel[i][j].id \in InFlight
        BY DEF InFlight, SnapshotIDs
      <3>2. Faithful(channel[i][j], fetched)
        BY DEF AssemblyInv, AllFaithful
      <3> QED BY <3>1, <3>2, <2>10
    <2>13. FaithfulBuffer(active, fetched')
      <3>1. active.id # id
        BY DEF InFlight
      <3> QED BY <3>1, <2>4 DEF AssemblyInv, FaithfulBuffer
    <2> QED
      BY <2>1, <2>2, <2>8, <2>9, <2>11, <2>12, <2>13
      DEF AssemblyInv, mpVars, complete
  <1> QED BY <1>1, <1>2

\* Every step of the loader keeps the invariant: what it sends are chunks of
\* the list it has just fetched.
LEMMA LoaderPreserves == AssemblyInv /\ LoaderNext => AssemblyInv'
  <1> SUFFICES ASSUME AssemblyInv, LoaderNext PROVE AssemblyInv'
    OBVIOUS
  <1>0. TypeOK /\ ChannelTypeOK /\ LoaderTypeOK /\ MPTypeOK
    BY DEF AssemblyInv, TypeOK
  <1>1. UNCHANGED <<mpVars, pushed>>
    BY DEF LoaderNext
  <1>2. CASE LoaderStartFails \/ LoaderStarts \/ Tick \/ LoaderStops
    <2>1. LoaderTypeOK'
      BY <1>0, <1>2
      DEF LoaderTypeOK, LoaderPCs, LoaderStartFails, LoaderStarts, Tick,
          LoaderStops
    <2>2. /\ UNCHANGED <<fetched, pending, channel, ctxDone>>
          /\ loaderPC' # "send" /\ loaderPC # "send"
      BY <1>2 DEF LoaderStartFails, LoaderStarts, Tick, LoaderStops
    <2> QED BY <1>1, <2>1, <2>2, QuietLoader
  <1>3. CASE FetchFails
    <2>1. fetchErrors' \in 0..MaxFetchErrors
      BY <1>0, <1>3, ChunkAssumption DEF LoaderTypeOK, FetchFails
    <2>2. LoaderTypeOK'
      BY <1>0, <1>3, <2>1, FirstURLAssumption, EmptySeq
      DEF LoaderTypeOK, LoaderPCs, FetchFails, FetchLocalsReset
    <2>3. /\ UNCHANGED <<fetched, pending, channel, ctxDone>>
          /\ loaderPC' # "send" /\ loaderPC # "send"
      BY <1>3 DEF FetchFails
    <2> QED BY <1>1, <2>2, <2>3, QuietLoader
  <1>4. CASE SendChunk
    <2>1. /\ pending \in Seq(DiscoverySnapshot) /\ pending # <<>>
          /\ channel \in Seq(Seq(DiscoveryMessage))
      BY <1>0, <1>4 DEF SendChunk, AssemblyInv, LoaderTypeOK, ChannelTypeOK
    <2>2. /\ pending' = Tail(pending) /\ pending' \in Seq(DiscoverySnapshot)
          /\ Head(pending) = pending[1] /\ Head(pending) \in DiscoverySnapshot
          /\ Len(pending') = Len(pending) - 1
          /\ \A i \in 1..Len(pending') : pending'[i] = pending[i + 1]
      BY <1>4, <2>1, HeadTailProperties DEF SendChunk
    <2>3. <<Head(pending)>> \in Seq(DiscoveryMessage)
      BY <2>2 DEF DiscoveryMessage
    <2>4. /\ channel' = Append(channel, <<Head(pending)>>)
          /\ channel' \in Seq(Seq(DiscoveryMessage))
          /\ Len(channel') = Len(channel) + 1
          /\ Len(channel') <= BufferSize
      BY <1>4, <2>1, <2>3, BufferAssumption DEF SendChunk, sendMessages
    <2>5. ChannelTypeOK'
      BY <1>0, <1>4, <2>4 DEF ChannelTypeOK, SendChunk
    <2>6. loaderPC' = "send" <=> pending' # <<>>
      <3>1. Len(pending) \in Nat \ {0} /\ (Len(pending') = 0 <=> pending' = <<>>)
        BY <2>1, <2>2, EmptySeq
      <3>2. loaderPC' = IF Len(pending) = 1 THEN "wait" ELSE "send"
        BY <1>4 DEF SendChunk
      <3> QED BY <2>2, <3>1, <3>2
    <2>7. LoaderTypeOK'
      BY <1>0, <1>4, <2>2 DEF LoaderTypeOK, LoaderPCs, SendChunk
    <2>8. MPTypeOK'
      BY <1>0, <1>1 DEF MPTypeOK, mpVars
    <2>9. TypeOK'
      BY <1>1, <2>5, <2>7, <2>8 DEF TypeOK, AssemblyInv
    <2>10. AllFaithful(pending', fetched)
      BY <2>1, <2>2 DEF AssemblyInv, AllFaithful
    <2>11. \A i \in 1..Len(channel') : AllFaithful(channel'[i], fetched)
      <3> SUFFICES ASSUME NEW i \in 1..Len(channel')
                   PROVE  AllFaithful(channel'[i], fetched)
        OBVIOUS
      <3>1. CASE i <= Len(channel)
        BY <3>1, <2>1, <2>4 DEF AssemblyInv
      <3>2. CASE i = Len(channel) + 1
        <4>1. channel'[i] = <<pending[1]>>
          BY <3>2, <2>1, <2>2, <2>4
        <4>2. Faithful(pending[1], fetched)
          BY <2>1, EmptySeq DEF AssemblyInv, AllFaithful
        <4> QED BY <4>1, <4>2 DEF AllFaithful
      <3> QED BY <3>1, <3>2, <2>1, <2>4
    <2>12. UNCHANGED <<fetched, ctxDone>>
      BY <1>4 DEF SendChunk
    <2> QED BY <1>1, <2>6, <2>9, <2>10, <2>11, <2>12
        DEF AssemblyInv, mpVars, complete
  <1>5. CASE SendAborted
    <2>1. LoaderTypeOK'
      BY <1>0, <1>5, EmptySeq DEF LoaderTypeOK, LoaderPCs, SendAborted
    <2>2. ChannelTypeOK'
      BY <1>0, <1>5 DEF ChannelTypeOK, SendAborted
    <2>3. MPTypeOK'
      BY <1>0, <1>1 DEF MPTypeOK, mpVars
    <2>4. TypeOK'
      BY <1>1, <2>1, <2>2, <2>3 DEF TypeOK, AssemblyInv
    <2>5. AllFaithful(pending', fetched)
      BY <1>5, EmptySeq DEF SendAborted, AllFaithful
    <2> QED BY <1>1, <1>5, <2>4, <2>5
        DEF AssemblyInv, mpVars, complete, SendAborted
  <1>6. ASSUME NEW id \in IDs \ InFlight, FetchPage(id)
        PROVE  AssemblyInv'
    <2> DEFINE page == source[currentURL]
               list == allTargets \o extractTargetsFromResponse(page)
    <2>1. page \in [items : Seq(DiscoveredTarget), next : URLs \cup {NoNext, BadNext}]
      BY <1>0, SourcesAssumption DEF LoaderTypeOK
    <2>2. list \in Seq(DiscoveredTarget)
      BY <1>0, <2>1 DEF LoaderTypeOK, extractTargetsFromResponse
    <2>3. CASE page.next \in URLs /\ ~(page.next \in {NoNext, BadNext} /\ SendSnapshot(list, id))
      <3>1. /\ currentURL' = page.next /\ seen' = seen \cup {currentURL}
            /\ allTargets' = list /\ UNCHANGED <<loaderPC, pending, fetched>>
        BY <1>6, <2>3 DEF FetchPage, visited
      <3>2. LoaderTypeOK'
        BY <1>0, <1>6, <2>2, <2>3, <3>1 DEF LoaderTypeOK, FetchPage
      <3> QED BY <1>1, <1>6, <3>1, <3>2, QuietLoader DEF FetchPage
    <2>4. CASE SendSnapshot(list, id)
      BY <1>1, <1>6, <2>2, <2>4, SendSnapshotPreserves DEF FetchPage
    <2> QED BY <1>6, <2>3, <2>4 DEF FetchPage
  <1>7. ASSUME NEW id \in IDs \ InFlight, PaginationLoop(id)
        PROVE  AssemblyInv'
    <2>1. allTargets \in Seq(DiscoveredTarget)
      BY <1>0 DEF LoaderTypeOK
    <2> QED BY <1>1, <1>7, <2>1, SendSnapshotPreserves DEF PaginationLoop
  <1> QED
    BY <1>2, <1>3, <1>4, <1>5, <1>6, <1>7 DEF LoaderNext, LoaderStep, LoaderPage

(***************************************************************************)
(* Steps of the message processor.                                         *)
(***************************************************************************)

\* What has to be shown of a step outside the loader.
LEMMA ProcessorFrame ==
  ASSUME AssemblyInv, UNCHANGED <<loaderVars, pushed>>,
         ChannelTypeOK', MPTypeOK',
         mpPC' = "drain" => queue' # <<>>,
         mpPC' \in {"assemble", "apply"} => active' # NoSnapshot /\ complete(active'),
         AllFaithful(queue', fetched),
         \A i \in 1..Len(channel') : AllFaithful(channel'[i], fetched),
         FaithfulBuffer(active', fetched)
  PROVE  AssemblyInv'
  <1>1. LoaderTypeOK'
    BY DEF AssemblyInv, TypeOK, LoaderTypeOK, loaderVars
  <1>2. TypeOK'
    BY <1>1 DEF AssemblyInv, TypeOK
  <1> QED BY <1>2 DEF AssemblyInv, loaderVars

\* A step that takes no message and leaves the buffer alone.
LEMMA QuietProcessor ==
  ASSUME AssemblyInv, MPTypeOK',
         UNCHANGED <<loaderVars, pushed, channel, ctxDone, queue, active>>,
         mpPC' = "drain" => queue # <<>>,
         mpPC' \in {"assemble", "apply"} => mpPC \in {"assemble", "apply"}
  PROVE  AssemblyInv'
  <1>1. ChannelTypeOK'
    BY DEF AssemblyInv, TypeOK, ChannelTypeOK
  <1>2. /\ mpPC' = "drain" => queue' # <<>>
        /\ mpPC' \in {"assemble", "apply"} => active' # NoSnapshot /\ complete(active')
    BY DEF AssemblyInv
  <1>3. /\ AllFaithful(queue', fetched) /\ FaithfulBuffer(active', fetched)
        /\ \A i \in 1..Len(channel') : AllFaithful(channel'[i], fetched)
    BY DEF AssemblyInv
  <1> QED BY <1>1, <1>2, <1>3, ProcessorFrame

\* The outcomes of API calls have the types of the store.
LEMMA CallTyped ==
  ASSUME MPTypeOK
  PROVE  /\ CallFails => failures' \in 0..MaxFailures
         /\ \A count : count \in Int /\ updateStatus(count) =>
              statusCount' \in Int /\ failures' \in 0..MaxFailures
         /\ \A n \in CRNames : afterDelete(n) \in Store
         /\ \A n \in CRNames, spec \in Specs : afterApply(n, spec) \in Store
  <1>1. CallFails => failures' \in 0..MaxFailures
    BY TargetPortAssumption DEF MPTypeOK, CallFails
  <1>2. ASSUME NEW count \in Int, updateStatus(count)
        PROVE  statusCount' \in Int /\ failures' \in 0..MaxFailures
    BY <1>1, <1>2 DEF MPTypeOK, updateStatus
  <1>3. \A n \in CRNames : afterDelete(n) \in Store
    BY DEF MPTypeOK, afterDelete, Store
  <1>4. \A n \in CRNames, spec \in Specs : afterApply(n, spec) \in Store
    BY DEF MPTypeOK, afterApply, Store
  <1> QED BY <1>1, <1>2, <1>3, <1>4

\* The steps of applySnapshot after the buffer is complete, and those of Run
\* that take no message.
LEMMA QuietStepsPreserve ==
  ASSUME AssemblyInv, UNCHANGED <<loaderVars, pushed>>,
         \/ RunStarts \/ StopOnCancel \/ AssembleChunk \/ FetchExisting
         \/ \E n \in CRNames : ApplySnapshotDelete(n) \/ CacheSync(n)
         \/ ApplySnapshotTarget \/ ReplayCancelled
  PROVE  AssemblyInv'
  <1>0. MPTypeOK
    BY DEF AssemblyInv, TypeOK
  <1> USE DEF applyVars, apiVars
  <1>1. CASE RunStarts
    <2>1. targetCount' \in Int /\ failures' \in 0..MaxFailures
      BY <1>0, <1>1, CallTyped, ExistingCount DEF RunStarts, MPTypeOK
    <2>2. MPTypeOK'
      BY <1>0, <1>1, <2>1 DEF MPTypeOK, MPPCs, RunStarts
    <2> QED BY <1>1, <2>2, QuietProcessor DEF RunStarts
  <1>2. CASE StopOnCancel
    <2>1. MPTypeOK'
      BY <1>0, <1>2 DEF MPTypeOK, MPPCs, StopOnCancel
    <2> QED BY <1>2, <2>1, QuietProcessor DEF StopOnCancel
  <1>3. CASE AssembleChunk
    <2>1. active # NoSnapshot /\ complete(active) /\ SnapshotBufferOK(active)
      BY <1>0, <1>3 DEF AssemblyInv, AssembleChunk, MPTypeOK
    <2>2. assembled \in DOMAIN active.received
      BY <1>0, <1>3, <2>1, CompleteHasAllChunks DEF AssembleChunk, MPTypeOK
    <2>3. active.received[assembled] \in Seq(NormalTarget)
      BY <2>1, <2>2 DEF SnapshotBufferOK
    <2>4. assembled' \in Nat /\ discovered' \in Seq(NormalTarget)
      BY <1>0, <1>3, <2>3 DEF MPTypeOK, AssembleChunk
    <2>5. MPTypeOK'
      BY <1>0, <1>3, <2>4 DEF MPTypeOK, AssembleChunk
    <2> QED BY <1>3, <2>5, QuietProcessor DEF AssembleChunk
  <1>4. CASE FetchExisting
    <2>1. /\ todo' \in [deletes : SUBSET CRNames, applies : Seq(NormalTarget)]
          /\ failures' \in 0..MaxFailures
      BY <1>0, <1>4, CallTyped
      DEF FetchExisting, MPTypeOK, generateEvents, Existing
    <2>2. clean' \in BOOLEAN
      BY <1>4, Zenon DEF FetchExisting
    <2>3. MPTypeOK'
      BY <1>0, <1>4, <2>1, <2>2 DEF MPTypeOK, MPPCs, FetchExisting
    <2> QED BY <1>4, <2>3, QuietProcessor DEF FetchExisting
  <1>5. ASSUME NEW n \in CRNames, ApplySnapshotDelete(n) PROVE AssemblyInv'
    <2>1. /\ todo' \in [deletes : SUBSET CRNames, applies : Seq(NormalTarget)]
          /\ failures' \in 0..MaxFailures /\ targets' \in Store
      BY <1>0, <1>5, CallTyped DEF ApplySnapshotDelete, MPTypeOK
    <2>2. clean' \in BOOLEAN
      BY <1>5, Zenon DEF ApplySnapshotDelete
    <2>3. MPTypeOK'
      BY <1>0, <1>5, <2>1, <2>2 DEF MPTypeOK, ApplySnapshotDelete
    <2> QED BY <1>5, <2>3, QuietProcessor DEF ApplySnapshotDelete, AssemblyInv
  <1>6. ASSUME NEW n \in CRNames, CacheSync(n) PROVE AssemblyInv'
    <2>1. cached' \in Store
      BY <1>0, <1>6 DEF CacheSync, MPTypeOK, Store
    <2>2. MPTypeOK'
      BY <1>0, <1>6, <2>1 DEF MPTypeOK, CacheSync
    <2> QED BY <1>6, <2>2, QuietProcessor DEF CacheSync, AssemblyInv
  <1>7. CASE ApplySnapshotTarget
    <2> DEFINE t == Head(todo.applies)
    <2>1. t \in NormalTarget /\ Tail(todo.applies) \in Seq(NormalTarget)
      BY <1>0, <1>7 DEF MPTypeOK, ApplySnapshotTarget
    <2>2. generateTargetResource(t) \in Specs /\ t.name \in CRNames
      BY <2>1, SpecTyped
    <2>3. todo' \in [deletes : SUBSET CRNames, applies : Seq(NormalTarget)]
      BY <1>0, <1>7, <2>1 DEF MPTypeOK, ApplySnapshotTarget
    <2>4. failures' \in 0..MaxFailures /\ targets' \in Store
      <3>1. CASE targets' = afterApply(t.name, generateTargetResource(t)) /\ UNCHANGED failures
        BY <1>0, <2>2, <3>1, CallTyped DEF MPTypeOK
      <3>2. CASE (CallFails \/ applyRefused(t.name, generateTargetResource(t))) /\ UNCHANGED targets
        BY <1>0, <3>2, CallTyped DEF MPTypeOK, applyRefused
      <3> QED BY <1>7, <3>1, <3>2 DEF ApplySnapshotTarget
    <2>5. clean' \in BOOLEAN
      BY <1>7, Zenon DEF ApplySnapshotTarget
    <2>6. MPTypeOK'
      BY <1>0, <1>7, <2>3, <2>4, <2>5 DEF MPTypeOK, ApplySnapshotTarget
    <2> QED BY <1>7, <2>6, QuietProcessor DEF ApplySnapshotTarget, AssemblyInv
  <1>8. CASE ReplayCancelled
    <2>1. MPTypeOK'
      BY <1>0, <1>8 DEF MPTypeOK, MPPCs, ReplayCancelled, AfterMessage
    <2> QED BY <1>8, <2>1, QuietProcessor DEF ReplayCancelled, AfterMessage
  <1> QED BY <1>1, <1>2, <1>3, <1>4, <1>5, <1>6, <1>7, <1>8

\* Taking a message from the queue leaves the others in their order.
LEMMA MessageTaken ==
  ASSUME AssemblyInv, NEW type, TakeMessage(type)
  PROVE  /\ Head(queue) \in DiscoveryMessage /\ Head(queue).type = type
         /\ Faithful(Head(queue), fetched)
         /\ queue' \in Seq(DiscoveryMessage)
         /\ AllFaithful(queue', fetched)
  <1>1. queue \in Seq(DiscoveryMessage) /\ queue # <<>>
    BY DEF AssemblyInv, TypeOK, MPTypeOK, TakeMessage
  <1>2. /\ queue' = Tail(queue) /\ queue' \in Seq(DiscoveryMessage)
        /\ Head(queue) = queue[1] /\ Head(queue) \in DiscoveryMessage
        /\ Len(queue') = Len(queue) - 1 /\ Len(queue) \in Nat \ {0}
        /\ \A i \in 1..Len(queue') : queue'[i] = queue[i + 1]
    BY <1>1, HeadTailProperties, EmptySeq DEF TakeMessage
  <1>3. AllFaithful(queue, fetched)
    BY DEF AssemblyInv
  <1> QED BY <1>2, <1>3 DEF AllFaithful, TakeMessage

\* An accepted chunk is stored under its index in the buffer of its snapshot.
LEMMA ChunkCollected ==
  ASSUME AssemblyInv, NEW chunk \in DiscoverySnapshot, Faithful(chunk, fetched)
  PROVE  LET snapshot == bufferFor(chunk)
         IN  /\ SnapshotBufferOK(snapshot) /\ FaithfulBuffer(snapshot, fetched)
             /\ acceptable(snapshot, chunk) =>
                  /\ SnapshotBufferOK(withChunk(snapshot, chunk))
                  /\ FaithfulBuffer(withChunk(snapshot, chunk), fetched)
  <1> DEFINE snapshot == bufferFor(chunk)
             s == withChunk(snapshot, chunk)
             stored == [j \in 1..Len(chunk.targets) |->
                          normalizeTarget(chunk.targets[j])]
  <1>0. /\ chunk.id \in IDs \cup {PushID} /\ chunk.total \in Int
        /\ chunk.index \in Int /\ chunk.targets \in Seq(DiscoveredTarget)
        /\ chunk.type = "snapshot"
    BY DEF DiscoverySnapshot
  <1>1. SnapshotBufferOK(snapshot) /\ FaithfulBuffer(snapshot, fetched)
        /\ snapshot.id = chunk.id
    <2>1. CASE continues(chunk)
      BY <2>1 DEF AssemblyInv, TypeOK, MPTypeOK, bufferFor, continues
    <2>2. CASE ~continues(chunk)
      <3>1. snapshot = [id |-> chunk.id, total |-> chunk.total, received |-> <<>>]
        BY <2>2 DEF bufferFor, startNewSnapshot
      <3>2. snapshot.id = chunk.id /\ snapshot.total = chunk.total
            /\ DOMAIN snapshot.received = {}
        BY <3>1
      <3> HIDE DEF snapshot
      <3> QED BY <1>0, <3>2 DEF SnapshotBufferOK, FaithfulBuffer, Faithful
    <2> QED BY <2>1, <2>2
  <1>2. stored \in Seq(NormalTarget) /\ stored = normalized(chunk.targets)
    BY <1>0, NormalizedTyped DEF normalized
  <1>3. /\ s.id = chunk.id /\ s.total = snapshot.total
        /\ DOMAIN s.received = DOMAIN snapshot.received \cup {chunk.index}
        /\ \A i \in DOMAIN s.received :
             s.received[i] = IF i = chunk.index THEN stored ELSE snapshot.received[i]
    BY <1>1 DEF withChunk
  <1> HIDE DEF snapshot, s, stored
  <1>4. ASSUME acceptable(snapshot, chunk)
        PROVE  SnapshotBufferOK(s) /\ FaithfulBuffer(s, fetched)
    <2>1. /\ chunk.total = snapshot.total
          /\ chunk.index \in 0..(snapshot.total - 1)
      BY <1>4 DEF acceptable
    <2>2. SnapshotBufferOK(s)
      BY <1>0, <1>1, <1>2, <1>3, <2>1 DEF SnapshotBufferOK
    <2>3. ASSUME s.id \in IDs, NEW i \in DOMAIN s.received
          PROVE  s.received[i] = normalized(chunkOf(fetched[s.id], i))
      <3>1. CASE i = chunk.index
        BY <1>0, <1>2, <1>3, <2>3, <3>1 DEF Faithful
      <3>2. CASE i # chunk.index
        BY <1>1, <1>3, <2>3, <3>2 DEF FaithfulBuffer
      <3> QED BY <3>1, <3>2
    <2> QED BY <1>1, <1>3, <2>2, <2>3 DEF FaithfulBuffer
  <1> QED BY <1>1, <1>4 DEF snapshot, s

\* Receiving a batch and processing chunks.
LEMMA ChunkStepsPreserve ==
  ASSUME AssemblyInv, UNCHANGED <<loaderVars, pushed>>,
         ReceiveBatch \/ CollectChunk \/ RejectChunk
  PROVE  AssemblyInv'
  <1>0. ChannelTypeOK /\ MPTypeOK
    BY DEF AssemblyInv, TypeOK
  <1> USE DEF applyVars, apiVars
  <1>1. CASE ReceiveBatch
    <2>1. /\ queue \in Seq(DiscoveryMessage) /\ channel # <<>>
          /\ channel \in Seq(Seq(DiscoveryMessage))
      BY <1>0, <1>1 DEF ReceiveBatch, MPTypeOK, ChannelTypeOK
    <2>2. /\ channel' = Tail(channel) /\ channel' \in Seq(Seq(DiscoveryMessage))
          /\ Head(channel) = channel[1] /\ Head(channel) \in Seq(DiscoveryMessage)
          /\ Len(channel) \in Nat \ {0} /\ Len(channel') = Len(channel) - 1
          /\ \A i \in 1..Len(channel') : channel'[i] = channel[i + 1]
      BY <1>1, <2>1, HeadTailProperties, EmptySeq DEF ReceiveBatch
    <2> DEFINE batch == Head(channel)
    <2>3. /\ queue' = queue \o batch /\ queue' \in Seq(DiscoveryMessage)
          /\ Len(queue') = Len(queue) + Len(batch)
          /\ \A i \in 1..Len(queue') :
               queue'[i] = IF i <= Len(queue) THEN queue[i] ELSE batch[i - Len(queue)]
      BY <1>1, <2>1, <2>2, ConcatProperties DEF ReceiveBatch
    <2>4. AllFaithful(queue, fetched) /\ AllFaithful(batch, fetched)
      BY <2>2 DEF AssemblyInv
    <2>5. Len(queue) \in Nat /\ Len(batch) \in Nat
      BY <2>1, <2>2, LenProperties
    <2> HIDE DEF batch
    <2>6. AllFaithful(queue', fetched)
      <3> SUFFICES ASSUME NEW i \in 1..Len(queue')
                   PROVE  Faithful(queue'[i], fetched)
        BY DEF AllFaithful
      <3>1. CASE i <= Len(queue)
        BY <2>3, <2>4, <2>5, <3>1 DEF AllFaithful
      <3>2. CASE i > Len(queue)
        <4>1. i - Len(queue) \in 1..Len(batch)
          BY <2>3, <2>5, <3>2
        <4> QED BY <2>3, <2>4, <2>5, <3>2, <4>1 DEF AllFaithful
      <3> QED BY <2>5, <3>1, <3>2
    <2>7. \A i \in 1..Len(channel') : AllFaithful(channel'[i], fetched)
      BY <2>2 DEF AssemblyInv
    <2>8. ChannelTypeOK'
      BY <1>0, <1>1, <2>2, BufferAssumption DEF ChannelTypeOK, ReceiveBatch
    <2>9. MPTypeOK'
      BY <1>0, <1>1, <2>3 DEF MPTypeOK, MPPCs, ReceiveBatch, AfterMessage
    <2>10. /\ mpPC' = "drain" => queue' # <<>>
           /\ mpPC' \notin {"assemble", "apply"} /\ UNCHANGED active
      BY <1>1 DEF ReceiveBatch, AfterMessage
    <2>11. FaithfulBuffer(active', fetched)
      BY <2>10 DEF AssemblyInv
    <2> QED BY <2>6, <2>7, <2>8, <2>9, <2>10, <2>11, ProcessorFrame
  <1>2. CASE CollectChunk \/ RejectChunk
    <2> DEFINE chunk == Head(queue)
               snapshot == bufferFor(chunk)
    <2>1. TakeMessage("snapshot") /\ UNCHANGED <<channel, ctxDone>>
      BY <1>2 DEF CollectChunk, RejectChunk
    <2>2. /\ chunk \in DiscoverySnapshot /\ Faithful(chunk, fetched)
          /\ queue' \in Seq(DiscoveryMessage) /\ AllFaithful(queue', fetched)
      BY <2>1, MessageTaken DEF DiscoveryMessage, DiscoveryEvent
    <2>3. /\ SnapshotBufferOK(snapshot) /\ FaithfulBuffer(snapshot, fetched)
          /\ acceptable(snapshot, chunk) =>
               /\ SnapshotBufferOK(withChunk(snapshot, chunk))
               /\ FaithfulBuffer(withChunk(snapshot, chunk), fetched)
      BY <2>2, ChunkCollected
    <2>4. /\ active' = NoSnapshot \/ SnapshotBufferOK(active')
          /\ FaithfulBuffer(active', fetched)
          /\ CollectChunk => SnapshotBufferOK(active')
      <3>1. FaithfulBuffer(NoSnapshot, fetched)
        BY IdAssumption DEF FaithfulBuffer, NoSnapshot
      <3>2. CASE CollectChunk
        <4>1. /\ acceptable(snapshot, chunk)
              /\ active' = withChunk(snapshot, chunk)
          BY <3>2 DEF CollectChunk
        <4> QED BY <2>3, <4>1
      <3>3. CASE RejectChunk
        <4>1. active' = NoSnapshot \/ active' = snapshot
          BY <3>3 DEF RejectChunk
        <4>2. ~CollectChunk
          BY <3>3 DEF RejectChunk, CollectChunk
        <4> QED BY <2>3, <3>1, <4>1, <4>2
      <3> QED BY <1>2, <3>2, <3>3
    <2>5. deferred' \in Seq(NormalEvent)
      <3>1. deferred' = deferredFor(chunk)
        BY <1>2 DEF CollectChunk, RejectChunk
      <3> QED BY <1>0, <3>1, EmptySeq DEF MPTypeOK, deferredFor
    <2>6. mpPC' \in MPPCs
      BY <1>2 DEF CollectChunk, RejectChunk, AfterMessage, MPPCs
    <2>7. MPTypeOK'
      <3>1. UNCHANGED <<assembled, discovered, todo, clean, targetCount,
                        statusCount, targets, cached, failures>>
        BY <1>2 DEF CollectChunk, RejectChunk
      <3> QED BY <1>0, <2>2, <2>4, <2>5, <2>6, <3>1 DEF MPTypeOK
    <2>8. ChannelTypeOK'
      BY <1>0, <2>1 DEF ChannelTypeOK
    <2>9. /\ mpPC' = "drain" => queue' # <<>>
          /\ mpPC' \in {"assemble", "apply"} => CollectChunk /\ complete(active')
      BY <1>2 DEF CollectChunk, RejectChunk, AfterMessage
    <2>10. mpPC' \in {"assemble", "apply"} =>
             active' # NoSnapshot /\ complete(active')
      BY <2>4, <2>9, BufferIsSnapshot
    <2>11. \A i \in 1..Len(channel') : AllFaithful(channel'[i], fetched)
      BY <2>1 DEF AssemblyInv
    <2> QED BY <2>2, <2>4, <2>7, <2>8, <2>9, <2>10, <2>11, ProcessorFrame
  <1> QED BY <1>1, <1>2

\* The end of a snapshot and the processing of events.
LEMMA EventStepsPreserve ==
  ASSUME AssemblyInv, UNCHANGED <<loaderVars, pushed>>,
         ApplyCancelled \/ FinishSnapshot \/ DeferEvent \/ ApplyEvent \/ EventFails
  PROVE  AssemblyInv'
  <1>0. ChannelTypeOK /\ MPTypeOK
    BY DEF AssemblyInv, TypeOK
  <1> USE DEF applyVars, apiVars
  <1>1. UNCHANGED <<channel, ctxDone>> /\ ChannelTypeOK'
    <2>1. UNCHANGED <<channel, ctxDone>>
      BY DEF ApplyCancelled, FinishSnapshot, DeferEvent, ApplyEvent, EventFails
    <2> QED BY <1>0, <2>1 DEF ChannelTypeOK
  <1>2. \A i \in 1..Len(channel') : AllFaithful(channel'[i], fetched)
    BY <1>1 DEF AssemblyInv
  <1>3. FaithfulBuffer(NoSnapshot, fetched)
    BY IdAssumption DEF FaithfulBuffer, NoSnapshot
  <1>4. CASE ApplyCancelled
    <2>1. MPTypeOK'
      BY <1>0, <1>4, EmptySeq DEF MPTypeOK, MPPCs, ApplyCancelled, AfterMessage
    <2>2. /\ mpPC' = "drain" => queue' # <<>>
          /\ mpPC' \notin {"assemble", "apply"}
          /\ UNCHANGED queue /\ active' = NoSnapshot
      BY <1>4 DEF ApplyCancelled, AfterMessage
    <2>3. AllFaithful(queue', fetched) /\ FaithfulBuffer(active', fetched)
      BY <1>3, <2>2 DEF AssemblyInv
    <2> QED BY <1>1, <1>2, <2>1, <2>2, <2>3, ProcessorFrame
  <1>5. CASE FinishSnapshot
    <2>1. targetCount' \in Int /\ updateStatus(targetCount')
      BY <1>0, <1>5, LenProperties DEF FinishSnapshot, MPTypeOK
    <2>2. statusCount' \in Int /\ failures' \in 0..MaxFailures
      BY <1>0, <2>1, CallTyped
    <2>3. MPTypeOK'
      BY <1>0, <1>5, <2>1, <2>2, EmptySeq
      DEF MPTypeOK, MPPCs, FinishSnapshot, AfterMessage
    <2>4. /\ mpPC' = "drain" => queue' # <<>>
          /\ mpPC' \notin {"assemble", "apply"}
          /\ UNCHANGED queue /\ active' = NoSnapshot
      BY <1>5 DEF FinishSnapshot, AfterMessage
    <2>5. AllFaithful(queue', fetched) /\ FaithfulBuffer(active', fetched)
      BY <1>3, <2>4 DEF AssemblyInv
    <2> QED BY <1>1, <1>2, <2>3, <2>4, <2>5, ProcessorFrame
  <1>6. CASE DeferEvent \/ ApplyEvent \/ EventFails
    <2> DEFINE event == Head(queue)
               t == normalizeTarget(event.target)
    <2>1. /\ TakeMessage("event")
          /\ UNCHANGED <<active, assembled, discovered, todo, clean, cached>>
      BY <1>6 DEF DeferEvent, ApplyEvent, EventFails
    <2>2. /\ event \in DiscoveryEvent
          /\ queue' \in Seq(DiscoveryMessage) /\ AllFaithful(queue', fetched)
      BY <2>1, MessageTaken DEF DiscoveryMessage, DiscoverySnapshot
    <2>3. t \in NormalTarget
      BY <2>2, NormalizeTyped DEF DiscoveryEvent
    <2>4. t.name \in CRNames /\ generateTargetResource(t) \in Specs
      BY <2>3, SpecTyped
    <2>5. /\ mpPC' \in MPPCs \ {"assemble", "apply"}
          /\ mpPC' = "drain" => queue' # <<>>
      BY <1>6 DEF DeferEvent, ApplyEvent, EventFails, AfterMessage, MPPCs
    <2>6. deferred' \in Seq(NormalEvent)
      <3>1. CASE DeferEvent
        <4>1. [event EXCEPT !.target = t] \in NormalEvent
          BY <2>2, <2>3 DEF DiscoveryEvent, NormalEvent
        <4> QED BY <1>0, <3>1, <4>1 DEF DeferEvent, MPTypeOK
      <3>2. CASE ApplyEvent \/ EventFails
        BY <1>0, <3>2 DEF ApplyEvent, EventFails, MPTypeOK
      <3> QED BY <1>6, <3>1, <3>2
    <2>7. /\ targetCount' \in Int /\ statusCount' \in Int
          /\ targets' \in Store /\ failures' \in 0..MaxFailures
      <3>1. CASE DeferEvent
        BY <1>0, <3>1 DEF DeferEvent, MPTypeOK
      <3>2. CASE ApplyEvent
        <4>1. \/ /\ targets' = afterApply(t.name, generateTargetResource(t))
                 /\ targetCount' = targetCount + 1
              \/ /\ targets' = afterDelete(t.name)
                 /\ targetCount' = targetCount - 1
          BY <3>2 DEF ApplyEvent
        <4>2. updateStatus(targetCount')
          BY <3>2 DEF ApplyEvent
        <4>3. targetCount' \in Int /\ targets' \in Store
          BY <1>0, <2>4, <4>1, CallTyped DEF MPTypeOK
        <4> QED BY <1>0, <4>2, <4>3, CallTyped
      <3>3. CASE EventFails
        <4>1. CallFails \/ UNCHANGED failures
          BY <3>3 DEF EventFails, applyRefused
        <4>2. failures' \in 0..MaxFailures
          BY <1>0, <4>1, CallTyped DEF MPTypeOK
        <4> QED BY <1>0, <3>3, <4>2 DEF EventFails, MPTypeOK
      <3> QED BY <1>6, <3>1, <3>2, <3>3
    <2>8. MPTypeOK'
      BY <1>0, <2>1, <2>2, <2>5, <2>6, <2>7 DEF MPTypeOK
    <2>9. FaithfulBuffer(active', fetched)
      BY <2>1 DEF AssemblyInv
    <2> QED BY <1>1, <1>2, <2>2, <2>5, <2>8, <2>9, ProcessorFrame
  <1> QED BY <1>4, <1>5, <1>6

(***************************************************************************)
(* The runtime.                                                            *)
(***************************************************************************)

\* Changes of the source, pushed batches and the end of the context.
LEMMA EnvironmentPreserves ==
  AssemblyInv /\ (SourceNext \/ Push \/ Stop \/ Cleanup) => AssemblyInv'
  <1> SUFFICES ASSUME AssemblyInv, SourceNext \/ Push \/ Stop \/ Cleanup
               PROVE  AssemblyInv'
    OBVIOUS
  <1>0. ChannelTypeOK /\ LoaderTypeOK /\ MPTypeOK /\ pushed \in 0..MaxPush
    BY DEF AssemblyInv, TypeOK
  <1>1. CASE SourceNext
    <2>1. LoaderTypeOK'
      BY <1>0, <1>1 DEF SourceNext, SourceChanges, LoaderTypeOK
    <2> QED BY <1>1, <2>1, QuietLoader DEF SourceNext, SourceChanges
  <1>2. CASE Push
    <2>1. PICK batch \in PushBatches : sendMessages(batch)
      BY <1>2 DEF Push
    <2>2. /\ batch \in Seq(DiscoveryMessage)
          /\ \A i \in 1..Len(batch) : batch[i].type = "snapshot" => batch[i].id = PushID
      BY PushAssumption
    <2>3. AllFaithful(batch, fetched)
      BY <2>2, IdAssumption DEF AllFaithful, Faithful
    <2>4. /\ channel \in Seq(Seq(DiscoveryMessage)) /\ Len(channel) \in Nat
          /\ channel' = Append(channel, batch)
          /\ channel' \in Seq(Seq(DiscoveryMessage))
          /\ Len(channel') = Len(channel) + 1 /\ Len(channel') <= BufferSize
      BY <1>0, <2>1, <2>2, BufferAssumption DEF ChannelTypeOK, sendMessages
    <2>5. \A i \in 1..Len(channel') : AllFaithful(channel'[i], fetched)
      <3> SUFFICES ASSUME NEW i \in 1..Len(channel')
                   PROVE  AllFaithful(channel'[i], fetched)
        OBVIOUS
      <3>1. CASE i <= Len(channel)
        BY <2>4, <3>1 DEF AssemblyInv
      <3>2. CASE i = Len(channel) + 1
        BY <2>3, <2>4, <3>2
      <3> QED BY <2>4, <3>1, <3>2
    <2>6. ChannelTypeOK'
      BY <1>0, <1>2, <2>4 DEF ChannelTypeOK, Push
    <2>7. UNCHANGED <<loaderVars, mpVars>> /\ pushed' \in 0..MaxPush
      BY <1>0, <1>2, PushAssumption DEF Push
    <2>8. LoaderTypeOK' /\ MPTypeOK'
      BY <1>0, <2>7 DEF LoaderTypeOK, MPTypeOK, loaderVars, mpVars
    <2>9. TypeOK'
      BY <2>6, <2>7, <2>8 DEF TypeOK
    <2> QED BY <2>5, <2>7, <2>9 DEF AssemblyInv, loaderVars, mpVars, complete
  <1>3. CASE Stop \/ Cleanup
    <2>1. ctxDone' = TRUE /\ UNCHANGED <<loaderVars, mpVars, channel, pushed>>
      BY <1>3 DEF Stop, Cleanup
    <2>2. ctxDone' \in BOOLEAN
      BY <2>1, Zenon
    <2>3. ChannelTypeOK'
      BY <1>0, <2>1, <2>2 DEF ChannelTypeOK
    <2>4. LoaderTypeOK' /\ MPTypeOK' /\ TypeOK'
      BY <1>0, <2>1, <2>3 DEF LoaderTypeOK, MPTypeOK, TypeOK, loaderVars, mpVars
    <2> QED BY <2>1, <2>4 DEF AssemblyInv, loaderVars, mpVars, complete
  <1> QED BY <1>1, <1>2, <1>3

\* AssemblyInv is inductive.
LEMMA AssemblyNext == AssemblyInv /\ [Next]_vars => AssemblyInv'
  <1> SUFFICES ASSUME AssemblyInv, [Next]_vars PROVE AssemblyInv'
    OBVIOUS
  <1>1. CASE LoaderNext
    BY <1>1, LoaderPreserves
  <1>2. CASE MPNext \/ \E n \in CRNames : CacheNext(n)
    <2>1. UNCHANGED <<loaderVars, pushed>>
      BY <1>2 DEF MPNext, CacheNext
    <2>2. CASE MPNext
      BY <2>1, <2>2, QuietStepsPreserve, ChunkStepsPreserve, EventStepsPreserve
      DEF MPNext, MPStep
    <2>3. CASE \E n \in CRNames : CacheNext(n)
      BY <2>1, <2>3, QuietStepsPreserve DEF CacheNext
    <2> QED BY <1>2, <2>2, <2>3
  <1>3. CASE SourceNext \/ Push \/ Stop \/ Cleanup
    BY <1>3, EnvironmentPreserves
  <1>4. CASE UNCHANGED vars
    <2>1. ChannelTypeOK' /\ MPTypeOK'
      <3>1. ChannelTypeOK'
        BY <1>4 DEF AssemblyInv, TypeOK, ChannelTypeOK, vars
      <3>2. MPTypeOK'
        BY <1>4 DEF AssemblyInv, TypeOK, MPTypeOK, vars, mpVars
      <3> QED BY <3>1, <3>2
    <2> QED
      BY <1>4, <2>1, ProcessorFrame
      DEF AssemblyInv, vars, mpVars, complete
  <1> QED BY <1>1, <1>2, <1>3, <1>4 DEF Next

\* The invariant holds in every reachable state.
THEOREM AssemblyCorrect == Spec => []AssemblyInv
  BY AssemblyInit, AssemblyNext, PTL DEF Spec

\* Every variable of the runtime keeps its type: in particular the channel
\* never exceeds its buffer, and a buffered chunk has an index below the
\* announced total.
THEOREM TypeCorrect == Spec => []TypeOK
  <1>1. AssemblyInv => TypeOK
    BY DEF AssemblyInv
  <1> QED BY <1>1, AssemblyCorrect, PTL

\* Whatever loader and push endpoints interleave on the channel, the buffer
\* of a loader's snapshot holds chunks of that one fetch, each under its
\* index, and a snapshot that is applied is complete.
THEOREM SnapshotAssembly == Spec => []SnapshotAssembled
  <1>1. AssemblyInv => SnapshotAssembled
    <2> SUFFICES ASSUME AssemblyInv, active.id \in IDs
                 PROVE  /\ active.total = totalChunks(Len(fetched[active.id]))
                        /\ \A i \in DOMAIN active.received :
                             active.received[i] =
                               normalized(chunkOf(fetched[active.id], i))
                        /\ mpPC \in {"assemble", "apply"} =>
                             DOMAIN active.received = 0..(active.total - 1)
      BY DEF SnapshotAssembled
    <2>1. SnapshotBufferOK(active)
      BY IdAssumption DEF AssemblyInv, TypeOK, MPTypeOK, NoSnapshot
    <2>2. mpPC \in {"assemble", "apply"} =>
            DOMAIN active.received = 0..(active.total - 1)
      BY <2>1, CompleteHasAllChunks DEF AssemblyInv
    <2> QED BY <2>2 DEF AssemblyInv, FaithfulBuffer
  <1> QED BY <1>1, AssemblyCorrect, PTL

(***************************************************************************)
(* The runtime implements the lifecycle the controller relies on.          *)
(***************************************************************************)

\* Abbreviations of the refinement mapping: the states of the goroutines.
ProcessorState == IF mpPC = "exited" THEN "ended" ELSE "running"
LoaderState == CASE loaderPC = "start" -> "new"
                 [] loaderPC = "exited" -> "ended"
                 [] OTHER -> "running"

\* A step of the loader starts it, ends it when the lifecycle allows that, or
\* is not visible there.
LEMMA LoaderLifecycle ==
  ASSUME LoaderNext
  PROVE  /\ UNCHANGED <<ctxDone, ProcessorState>>
         /\ \/ LoaderState = "new" /\ LoaderState' = "running"
            \/ LoaderState = "new" /\ LoaderState' = "ended"
            \/ LoaderState = "running" /\ ctxDone /\ LoaderState' = "ended"
            \/ UNCHANGED LoaderState
  <1>1. UNCHANGED <<mpPC, ctxDone>>
    BY DEF LoaderNext, LoaderStep, LoaderPage, mpVars, LoaderStartFails,
           LoaderStarts, FetchFails, SendChunk, SendAborted, Tick, LoaderStops,
           FetchPage, PaginationLoop
  <1>2. \/ loaderPC = "start" /\ loaderPC' \in {"fetch", "exited"}
        \/ loaderPC = "wait" /\ ctxDone /\ loaderPC' = "exited"
        \/ /\ loaderPC \in {"fetch", "send", "wait"}
           /\ loaderPC' \in {"fetch", "send", "wait"}
    BY DEF LoaderNext, LoaderStep, LoaderPage, LoaderStartFails, LoaderStarts,
           FetchFails, SendChunk, SendAborted, Tick, LoaderStops, FetchPage,
           PaginationLoop, SendSnapshot
  <1> QED BY <1>1, <1>2 DEF ProcessorState, LoaderState

\* A step of the processor ends it at most.
LEMMA ProcessorLifecycle ==
  ASSUME AssemblyInv, MPNext
  PROVE  /\ UNCHANGED <<ctxDone, LoaderState>>
         /\ \/ ProcessorState = "running" /\ ProcessorState' = "ended"
            \/ UNCHANGED ProcessorState
  <1>1. UNCHANGED <<loaderPC, ctxDone>>
    BY DEF MPNext, MPStep, loaderVars, RunStarts, ReceiveBatch, StopOnCancel,
           CollectChunk, RejectChunk, ApplyCancelled, AssembleChunk,
           FetchExisting, ApplySnapshotDelete, ApplySnapshotTarget,
           FinishSnapshot, ReplayCancelled, DeferEvent, ApplyEvent, EventFails
  <1>2. mpPC # "exited"
    BY DEF MPNext, MPStep, RunStarts, ReceiveBatch, StopOnCancel, TakeMessage,
           CollectChunk, RejectChunk, ApplyCancelled, AssembleChunk,
           FetchExisting, ApplySnapshotDelete, ApplySnapshotTarget,
           FinishSnapshot, ReplayCancelled, DeferEvent, ApplyEvent, EventFails
  <1> QED BY <1>1, <1>2 DEF ProcessorState, LoaderState

\* DiscoveryPipeline implements RuntimeLifecycle: every step of the two
\* goroutines, of the channel and of the context is a step of the lifecycle
\* or invisible there.
THEOREM LifecycleImplemented == Spec => Lifecycle!Spec
  <1> USE DEF Lifecycle!vars
  <1>1. Init => Lifecycle!Init
    BY DEF Init, LoaderInit, MPInit, Lifecycle!Init
  <1>2. AssemblyInv /\ [Next]_vars => [Lifecycle!Next]_(Lifecycle!vars)
    <2> SUFFICES ASSUME AssemblyInv, [Next]_vars
                 PROVE  Lifecycle!Next \/ UNCHANGED Lifecycle!vars
      OBVIOUS
    <2> USE DEF Lifecycle!Next, Lifecycle!ProcessorEnds, Lifecycle!LoaderStarts,
                Lifecycle!LoaderEnds, Lifecycle!Cancelled
    <2>1. CASE LoaderNext
      BY <2>1, LoaderLifecycle DEF ProcessorState, LoaderState
    <2>2. CASE MPNext
      BY <2>2, ProcessorLifecycle DEF ProcessorState, LoaderState
    <2>3. CASE SourceNext \/ Push \/ \E n \in CRNames : CacheNext(n)
      <3>1. UNCHANGED <<mpPC, loaderPC, ctxDone>>
        BY <2>3 DEF SourceNext, SourceChanges, Push, CacheNext, CacheSync,
                    loaderVars, mpVars
      <3> QED BY <3>1
    <2>4. CASE Stop \/ Cleanup
      BY <2>4 DEF Stop, Cleanup, loaderVars, mpVars
    <2>5. CASE UNCHANGED vars
      BY <2>5 DEF vars, loaderVars, mpVars
    <2> QED BY <2>1, <2>2, <2>3, <2>4, <2>5 DEF Next
  <1> QED BY <1>1, <1>2, AssemblyCorrect, PTL DEF Spec, Lifecycle!Spec

(***************************************************************************)
(* The application of a snapshot: the inductive invariant ApplyInv.        *)
(***************************************************************************)

\* All chunks together are the list.
LEMMA BeginningAll ==
  ASSUME NEW list \in Seq(DiscoveredTarget)
  PROVE  Beginning(list, totalChunks(Len(list))) = normalized(list)
  <1>1. Len(list) \in Nat
    BY LenProperties
  <1> DEFINE c == totalChunks(Len(list)) * ChunkSize
  <1>2. c >= Len(list) /\ c \in Nat
    <2>1. totalChunks(Len(list)) \in Nat
      BY <1>1, ChunkCount
    <2>2. c \in Nat
      BY <2>1, ChunkAssumption
    <2> QED BY <1>1, <2>2, ChunksCover
  <1>3. (IF c > Len(list) THEN Len(list) ELSE c) = Len(list)
    BY <1>1, <1>2
  <1> QED BY <1>3 DEF Beginning, normalized

\* One chunk more.
LEMMA BeginningExtended ==
  ASSUME NEW list \in Seq(DiscoveredTarget), NEW k \in Nat,
         k < totalChunks(Len(list))
  PROVE  Beginning(list, k) \o normalized(chunkOf(list, k)) = Beginning(list, k + 1)
  <1> DEFINE c == k * ChunkSize
             d == (k + 1) * ChunkSize
             last == IF d > Len(list) THEN Len(list) ELSE d
             chunk == chunkOf(list, k)
             b == Beginning(list, k)
             whole == Beginning(list, k + 1)
             rest == normalized(chunk)
  <1>1. Len(list) \in Nat /\ c \in Nat /\ c < Len(list)
    BY LenProperties, ChunksCover, ChunkAssumption
  <1>2. d = c + ChunkSize /\ d \in Nat /\ ChunkSize \in Nat \ {0}
    BY ChunkAssumption
  <1>3. last \in Nat /\ c < last /\ last <= Len(list)
    <2> HIDE DEF c, d
    <2> QED BY <1>1, <1>2
  <1>4. chunk = SubSeq(list, c + 1, last)
    BY DEF chunkOf
  <1>5. b = [i \in 1..c |-> normalizeTarget(list[i])]
    <2>1. (IF c > Len(list) THEN Len(list) ELSE c) = c
      BY <1>1
    <2> QED BY <2>1 DEF Beginning
  <1>6. whole = [i \in 1..last |-> normalizeTarget(list[i])]
    BY DEF Beginning
  <1> HIDE DEF c, d, last, chunk, b, whole
  <1>7. /\ Len(chunk) = last - c
        /\ \A i \in 1..(last - c) : chunk[i] = list[c + i]
    <2>1. \A i \in (c + 1)..last : list[i] \in DiscoveredTarget
      BY <1>1, <1>3
    <2> QED BY <1>1, <1>3, <1>4, <2>1, SubSeqProperties
  <1>8. rest = [i \in 1..(last - c) |-> normalizeTarget(list[c + i])]
    BY <1>7 DEF normalized
  <1> HIDE DEF rest
  <1>9. b \o rest = whole
    <2> DEFINE S == {normalizeTarget(list[i]) : i \in 1..Len(list)}
    <2>1. b \in Seq(S) /\ Len(b) = c
      BY <1>1, <1>5
    <2>2. rest \in Seq(S) /\ Len(rest) = last - c
      <3>1. \A i \in 1..(last - c) : c + i \in 1..Len(list)
        BY <1>1, <1>3
      <3>2. last - c \in Nat
        BY <1>1, <1>3
      <3> QED BY <1>8, <3>1, <3>2
    <2>3. whole \in Seq(S) /\ Len(whole) = last
      <3>1. \A i \in 1..last : i \in 1..Len(list)
        BY <1>1, <1>3
      <3> QED BY <1>3, <1>6, <3>1
    <2> HIDE DEF S
    <2>4. /\ b \o rest \in Seq(S) /\ Len(b \o rest) = last
          /\ \A i \in 1..last : (b \o rest)[i] =
               IF i <= c THEN b[i] ELSE rest[i - c]
      <3>1. /\ Len(b \o rest) = Len(b) + Len(rest)
            /\ \A i \in 1 .. (Len(b) + Len(rest)) : (b \o rest)[i] =
                 IF i <= Len(b) THEN b[i] ELSE rest[i - Len(b)]
            /\ b \o rest \in Seq(S)
        BY <2>1, <2>2, ConcatProperties
      <3>2. c + (last - c) = last
        BY <1>1, <1>3
      <3> QED BY <2>1, <2>2, <3>1, <3>2
    <2>5. ASSUME NEW i \in 1..last PROVE (b \o rest)[i] = whole[i]
      <3>1. CASE i <= c
        BY <1>1, <1>3, <1>5, <1>6, <2>4, <3>1
      <3>2. CASE ~(i <= c)
        <4>1. i - c \in 1..(last - c) /\ c + (i - c) = i
          BY <1>1, <1>3, <3>2
        <4> QED BY <1>6, <1>8, <2>4, <3>2, <4>1
      <3> QED BY <3>1, <3>2
    <2> QED BY <2>3, <2>4, <2>5, SeqEqual
  <1> QED BY <1>9 DEF b, whole, rest, chunk

\* The names of two lists one after the other.
LEMMA NamesOfConcat ==
  ASSUME NEW s \in Seq(NormalTarget), NEW t \in Seq(NormalTarget)
  PROVE  NamesOf(s \o t) = NamesOf(s) \cup NamesOf(t)
  <1>1. /\ Len(s) \in Nat /\ Len(t) \in Nat
        /\ Len(s \o t) = Len(s) + Len(t)
        /\ \A i \in 1..(Len(s) + Len(t)) :
             (s \o t)[i] = IF i <= Len(s) THEN s[i] ELSE t[i - Len(s)]
    BY LenProperties, ConcatProperties
  <1>2. ASSUME NEW n \in NamesOf(s \o t) PROVE n \in NamesOf(s) \cup NamesOf(t)
    <2>1. PICK i \in 1..(Len(s) + Len(t)) : n = (s \o t)[i].name
      BY <1>1, <1>2 DEF NamesOf
    <2>2. CASE i <= Len(s)
      <3>1. i \in 1..Len(s) /\ n = s[i].name
        BY <1>1, <2>1, <2>2
      <3> QED BY <3>1 DEF NamesOf
    <2>3. CASE ~(i <= Len(s))
      <3>1. i - Len(s) \in 1..Len(t) /\ n = t[i - Len(s)].name
        BY <1>1, <2>1, <2>3
      <3> QED BY <3>1 DEF NamesOf
    <2> QED BY <2>2, <2>3
  <1>3. ASSUME NEW n \in NamesOf(s) PROVE n \in NamesOf(s \o t)
    <2>1. PICK i \in 1..Len(s) : n = s[i].name
      BY <1>3 DEF NamesOf
    <2>2. i \in 1..Len(s \o t) /\ (s \o t)[i] = s[i]
      BY <1>1
    <2> QED BY <2>1, <2>2 DEF NamesOf
  <1>4. ASSUME NEW n \in NamesOf(t) PROVE n \in NamesOf(s \o t)
    <2>1. PICK i \in 1..Len(t) : n = t[i].name
      BY <1>4 DEF NamesOf
    <2>2. i + Len(s) \in 1..Len(s \o t) /\ (s \o t)[i + Len(s)] = t[i]
      BY <1>1
    <2> QED BY <2>1, <2>2 DEF NamesOf
  <1> QED BY <1>2, <1>3, <1>4

\* Nothing is assembled or applied in the initial states.
LEMMA ApplyInit == Init => ApplyInv
  <1>1. Init => /\ mpPC = "init" /\ assembled = 0 /\ discovered = <<>>
                /\ active = NoSnapshot
    BY DEF Init, MPInit
  <1> QED BY <1>1 DEF ApplyInv, AssembledInv, ResetInv, ProgressInv

\* Steps of others do not disturb the application of a snapshot, as long as
\* they leave the list it came from alone.
LEMMA ApplyFrame ==
  ASSUME ApplyInv, ctxDone => ctxDone',
         UNCHANGED <<mpPC, assembled, discovered, active, todo, clean, targets>>,
         active.id \in IDs => fetched'[active.id] = fetched[active.id]
  PROVE  ApplyInv'
  <1>1. AssembledInv'
    BY DEF ApplyInv, AssembledInv
  <1>2. ResetInv'
    BY DEF ApplyInv, ResetInv, complete
  <1>3. ProgressInv'
    BY DEF ApplyInv, ProgressInv, AppliedSoFar
  <1> QED BY <1>1, <1>2, <1>3 DEF ApplyInv

\* A new identifier is not that of the snapshot in use.
LEMMA LoaderKeepsList ==
  ASSUME AssemblyInv, LoaderNext, active.id \in IDs
  PROVE  fetched'[active.id] = fetched[active.id]
  <1>1. fetched \in [IDs -> Seq(DiscoveredTarget)]
    BY DEF AssemblyInv, TypeOK, LoaderTypeOK
  <1>2. CASE LoaderStep
    BY <1>2
    DEF LoaderStep, LoaderStartFails, LoaderStarts, FetchFails, SendChunk,
        SendAborted, Tick, LoaderStops
  <1>3. ASSUME NEW id \in IDs \ InFlight, LoaderPage(id)
        PROVE  fetched'[active.id] = fetched[active.id]
    <2>1. active.id # id
      BY DEF InFlight
    <2>2. UNCHANGED fetched \/ \E list : fetched' = [fetched EXCEPT ![id] = list]
      BY <1>3 DEF LoaderPage, FetchPage, PaginationLoop, SendSnapshot
    <2> QED BY <1>1, <2>1, <2>2
  <1> QED BY <1>2, <1>3 DEF LoaderNext

\* Steps that do not belong to the processor.
LEMMA OthersKeepApply ==
  ASSUME AssemblyInv, ApplyInv,
         \/ LoaderNext \/ SourceNext \/ Push \/ Stop \/ Cleanup \/ UNCHANGED vars
         \/ \E n \in CRNames : CacheNext(n)
  PROVE  ApplyInv'
  <1>1. CASE LoaderNext
    <2>1. UNCHANGED <<mpVars, ctxDone>>
      BY <1>1
      DEF LoaderNext, LoaderStep, LoaderPage, LoaderStartFails, LoaderStarts,
          FetchFails, SendChunk, SendAborted, Tick, LoaderStops, FetchPage,
          PaginationLoop
    <2> QED BY <1>1, <2>1, LoaderKeepsList, ApplyFrame DEF mpVars
  <1>2. CASE SourceNext
    BY <1>2, ApplyFrame DEF SourceNext, SourceChanges, mpVars
  <1>3. CASE Push \/ Stop \/ Cleanup \/ UNCHANGED vars
    <2>1. UNCHANGED <<loaderVars, mpVars>> /\ (ctxDone => ctxDone')
      BY <1>3 DEF Push, Stop, Cleanup, vars
    <2> QED BY <2>1, ApplyFrame DEF loaderVars, mpVars
  <1>4. CASE \E n \in CRNames : CacheNext(n)
    BY <1>4, ApplyFrame DEF CacheNext, CacheSync, loaderVars, applyVars
  <1> QED BY <1>1, <1>2, <1>3, <1>4

\* A step that ends outside of applySnapshot leaves a cancelled context or
\* nothing of the last snapshot.
LEMMA Outside ==
  ASSUME mpPC' \notin {"assemble", "apply"},
         \/ mpPC' = "exited"
         \/ ctxDone'
         \/ /\ mpPC' # "init" /\ assembled' = 0 /\ discovered' = <<>>
            /\ active' = NoSnapshot \/ ~complete(active')
  PROVE  ApplyInv'
  BY DEF ApplyInv, AssembledInv, ResetInv, ProgressInv

\* Steps of Run and processEvent, the end of a snapshot.
LEMMA RunKeepsApply ==
  ASSUME AssemblyInv, ApplyInv,
         \/ RunStarts \/ ReceiveBatch \/ StopOnCancel \/ RejectChunk
         \/ ApplyCancelled \/ FinishSnapshot \/ ReplayCancelled
         \/ DeferEvent \/ ApplyEvent \/ EventFails
  PROVE  ApplyInv'
  <1>0. ResetInv
    BY DEF ApplyInv
  <1> USE DEF applyVars
  <1>1. CASE StopOnCancel \/ RejectChunk \/ EventFails
    BY <1>1, Outside DEF StopOnCancel, RejectChunk, EventFails
  <1>2. CASE ApplyCancelled \/ ReplayCancelled
    BY <1>2, Outside DEF ApplyCancelled, ReplayCancelled, AfterMessage
  <1>3. CASE FinishSnapshot
    BY <1>3, Outside DEF FinishSnapshot, AfterMessage
  <1>4. CASE RunStarts \/ ReceiveBatch \/ DeferEvent \/ ApplyEvent
    <2>1. /\ mpPC \in {"init", "select", "drain"}
          /\ mpPC' \in {"select", "drain"}
          /\ UNCHANGED <<assembled, discovered, active, ctxDone>>
      BY <1>4 DEF RunStarts, ReceiveBatch, DeferEvent, ApplyEvent, TakeMessage,
                  AfterMessage
    <2>2. complete(active') = complete(active)
      BY <2>1 DEF complete
    <2> QED BY <1>0, <2>1, <2>2, Outside DEF ResetInv
  <1> QED BY <1>1, <1>2, <1>3, <1>4

\* A chunk that completes the buffer starts applySnapshot with nothing.
LEMMA CollectKeepsApply ==
  ASSUME AssemblyInv, ApplyInv, CollectChunk, AssemblyInv'
  PROVE  ApplyInv'
  <1>1. /\ mpPC = "drain"
        /\ ~ctxDone
        /\ UNCHANGED <<assembled, discovered, ctxDone>>
        /\ mpPC' = IF complete(active') THEN "assemble" ELSE AfterMessage(queue')
    BY DEF CollectChunk, TakeMessage, applyVars
  <1>2. assembled' = 0 /\ discovered' = <<>>
    BY <1>1 DEF ApplyInv, ResetInv
  <1>3. CASE complete(active')
    <2>1. mpPC' = "assemble" /\ active' # NoSnapshot
      BY <1>1, <1>3 DEF AssemblyInv
    <2>2. SnapshotBufferOK(active') /\ complete(active')
      BY <1>3, <2>1 DEF AssemblyInv, TypeOK, MPTypeOK
    <2>3. active'.total \in Nat
      BY <2>2, CompleteHasAllChunks
    <2>4. NamesOf(<<>>) = {}
      BY DEF NamesOf
    <2>5. ASSUME NEW list \in Seq(DiscoveredTarget)
          PROVE  Beginning(list, 0) = <<>>
      <3>1. (IF 0 * ChunkSize > Len(list) THEN Len(list) ELSE 0 * ChunkSize) = 0
        BY ChunkAssumption, LenProperties
      <3> QED BY <3>1 DEF Beginning
    <2>6. active'.id \in IDs => fetched'[active'.id] \in Seq(DiscoveredTarget)
      BY DEF AssemblyInv, TypeOK, LoaderTypeOK
    <2>7. UNION {NamesOf(active'.received[i]) : i \in 0..(0 - 1)} = {}
      OBVIOUS
    <2>8. AssembledInv'
      BY <1>2, <2>1, <2>3, <2>4, <2>5, <2>6, <2>7 DEF AssembledInv
    <2> QED BY <2>1, <2>8 DEF ApplyInv, ResetInv, ProgressInv
  <1>4. CASE ~complete(active')
    BY <1>1, <1>2, <1>4, Outside DEF AfterMessage
  <1> QED BY <1>3, <1>4

\* A chunk is appended to what was assembled.
LEMMA AssembleKeepsApply ==
  ASSUME AssemblyInv, ApplyInv, AssembleChunk, UNCHANGED loaderVars
  PROVE  ApplyInv'
  <1> DEFINE k == assembled
             chunk == active.received[assembled]
  <1>1. /\ mpPC = "assemble" /\ assembled < active.total /\ mpPC' = mpPC
        /\ discovered' = discovered \o chunk /\ assembled' = assembled + 1
        /\ UNCHANGED <<active, fetched>>
    BY DEF AssembleChunk, loaderVars
  <1>2. /\ SnapshotBufferOK(active) /\ complete(active)
        /\ assembled \in Nat /\ discovered \in Seq(NormalTarget)
    BY <1>1 DEF AssemblyInv, TypeOK, MPTypeOK
  <1>3. active.total \in Nat /\ assembled \in DOMAIN active.received
    BY <1>1, <1>2, CompleteHasAllChunks
  <1>4. chunk \in Seq(NormalTarget)
    BY <1>2, <1>3 DEF SnapshotBufferOK
  <1>5. NamesOf(discovered') =
          UNION {NamesOf(active.received[i]) : i \in 0..((assembled + 1) - 1)}
    <2>1. NamesOf(discovered') = NamesOf(discovered) \cup NamesOf(chunk)
      BY <1>1, <1>2, <1>4, NamesOfConcat
    <2>2. NamesOf(discovered) =
            UNION {NamesOf(active.received[i]) : i \in 0..(assembled - 1)}
      BY <1>1 DEF ApplyInv, AssembledInv
    <2>3. 0..((assembled + 1) - 1) = 0..(assembled - 1) \cup {assembled}
      BY <1>2
    <2> QED BY <2>1, <2>2, <2>3
  <1>6. ASSUME active.id \in IDs
        PROVE  discovered' = Beginning(fetched[active.id], assembled + 1)
    <2>1. fetched[active.id] \in Seq(DiscoveredTarget)
      BY <1>6 DEF AssemblyInv, TypeOK, LoaderTypeOK
    <2>2. /\ chunk = normalized(chunkOf(fetched[active.id], assembled))
          /\ active.total = totalChunks(Len(fetched[active.id]))
      BY <1>3, <1>6 DEF AssemblyInv, FaithfulBuffer
    <2>3. discovered = Beginning(fetched[active.id], assembled)
      BY <1>1, <1>6 DEF ApplyInv, AssembledInv
    <2> QED BY <1>1, <1>2, <2>1, <2>2, <2>3, BeginningExtended
  <1>7. AssembledInv'
    BY <1>1, <1>2, <1>3, <1>5, <1>6 DEF AssembledInv
  <1> QED BY <1>1, <1>7 DEF ApplyInv, ResetInv, ProgressInv

\* What the applying steps leave alone.
LEMMA ApplyingFrame ==
  ASSUME AssembledInv, ProgressInv', mpPC \in {"assemble", "apply"}, mpPC' = "apply",
         mpPC = "assemble" => assembled = active.total,
         UNCHANGED <<assembled, discovered, active, fetched>>
  PROVE  ApplyInv'
  <1>1. AssembledInv'
    BY DEF AssembledInv
  <1>2. ResetInv'
    BY DEF ResetInv
  <1> QED BY <1>1, <1>2 DEF ApplyInv

\* The events are generated: nothing is applied yet, and what exists is
\* listed or to be deleted.
LEMMA FetchKeepsApply ==
  ASSUME AssemblyInv, ApplyInv, FetchExisting, UNCHANGED loaderVars
  PROVE  ApplyInv'
  <1>1. /\ mpPC = "assemble" /\ mpPC' = "apply" /\ assembled = active.total
        /\ UNCHANGED <<assembled, discovered, active, fetched, targets>>
    BY DEF FetchExisting, loaderVars
  <1>2. discovered \in Seq(NormalTarget) /\ Len(discovered) \in Nat
    BY LenProperties DEF AssemblyInv, TypeOK, MPTypeOK
  <1>3. PICK E : /\ todo' = generateEvents(E, discovered)
                 /\ clean' => E = Existing(targets)
    <2>1. CASE /\ todo' = generateEvents(Existing(cached), discovered)
               /\ clean' = (cached = targets)
      BY <2>1
    <2>2. CASE todo' = generateEvents({}, discovered) /\ clean' = FALSE
      BY <2>2
    <2> QED BY <2>1, <2>2 DEF FetchExisting
  <1>4. todo'.deletes = E \ NamesOf(discovered) /\ todo'.applies = discovered
    BY <1>3 DEF generateEvents
  <1>5. AppliedSoFar' = 0
    BY <1>1, <1>2, <1>4 DEF AppliedSoFar
  <1>6. ASSUME clean', NEW n \in CRNames \ NamesOf(discovered)
        PROVE  targets'[n] = NoTarget \/ n \in todo'.deletes
    BY <1>1, <1>3, <1>4, <1>6 DEF Existing
  <1>7. ProgressInv'
    BY <1>1, <1>2, <1>4, <1>5, <1>6 DEF ProgressInv
  <1> QED BY <1>1, <1>7, ApplyingFrame DEF ApplyInv

\* A Target that is not listed is deleted.
LEMMA DeleteKeepsApply ==
  ASSUME AssemblyInv, ApplyInv, NEW n \in CRNames, ApplySnapshotDelete(n),
         UNCHANGED loaderVars
  PROVE  ApplyInv'
  <1>0. /\ todo \in [deletes : SUBSET CRNames, applies : Seq(NormalTarget)]
        /\ targets \in Store
    BY DEF AssemblyInv, TypeOK, MPTypeOK
  <1>1. /\ mpPC = "apply" /\ mpPC' = "apply" /\ n \in todo.deletes
        /\ UNCHANGED <<assembled, discovered, active, fetched>>
        /\ todo' = [todo EXCEPT !.deletes = @ \ {n}]
    BY DEF ApplySnapshotDelete, loaderVars
  <1>2. todo'.deletes = todo.deletes \ {n} /\ todo'.applies = todo.applies
    BY <1>0, <1>1
  <1>3. AppliedSoFar' = AppliedSoFar /\ AppliedSoFar = 0
    BY <1>1, <1>2 DEF AppliedSoFar, ApplyInv, ProgressInv
  <1>4. ASSUME clean'
        PROVE  /\ clean /\ targets'[n] = NoTarget
               /\ \A m \in CRNames \ {n} : targets'[m] = targets[m]
    <2>1. clean /\ cached[n] = targets[n] /\ targets' = afterDelete(n)
      BY <1>4 DEF ApplySnapshotDelete
    <2> QED BY <1>0, <2>1 DEF afterDelete, Store
  <1>5. ASSUME clean', NEW m \in CRNames \ NamesOf(discovered)
        PROVE  targets'[m] = NoTarget \/ m \in todo'.deletes
    BY <1>1, <1>2, <1>4, <1>5 DEF ApplyInv, ProgressInv
  <1>6. ProgressInv'
    BY <1>1, <1>2, <1>3, <1>5 DEF ApplyInv, ProgressInv
  <1> QED BY <1>1, <1>6, ApplyingFrame DEF ApplyInv

\* The next entry of the list is applied.
LEMMA TargetKeepsApply ==
  ASSUME AssemblyInv, ApplyInv, ApplySnapshotTarget, UNCHANGED loaderVars
  PROVE  ApplyInv'
  <1>0. /\ todo \in [deletes : SUBSET CRNames, applies : Seq(NormalTarget)]
        /\ targets \in Store /\ discovered \in Seq(NormalTarget)
        /\ Len(discovered) \in Nat
    BY LenProperties DEF AssemblyInv, TypeOK, MPTypeOK
  <1>1. /\ mpPC = "apply" /\ mpPC' = "apply" /\ todo.deletes = {}
        /\ todo.applies # <<>>
        /\ UNCHANGED <<assembled, discovered, active, fetched>>
        /\ todo' = [todo EXCEPT !.applies = Tail(@)]
    BY DEF ApplySnapshotTarget, loaderVars
  <1>2. PICK k : k = AppliedSoFar
    OBVIOUS
  <1>3. PICK t : t = Head(todo.applies)
    OBVIOUS
  <1>4. /\ todo'.deletes = {} /\ todo'.applies = Tail(todo.applies)
        /\ t = todo.applies[1] /\ Len(todo.applies) \in Nat \ {0}
        /\ Len(todo'.applies) = Len(todo.applies) - 1
        /\ \A i \in 1..Len(todo'.applies) : todo'.applies[i] = todo.applies[i + 1]
    <2>1. todo'.applies = Tail(todo.applies) /\ todo'.deletes = {}
      BY <1>0, <1>1
    <2>2. todo.applies \in Seq(NormalTarget)
      BY <1>0
    <2> QED
      BY <1>1, <1>3, <2>1, <2>2, HeadTailProperties, EmptySeq, LenProperties
  <1>5. /\ k \in 0..Len(discovered)
        /\ \A i \in 1..Len(todo.applies) : todo.applies[i] = discovered[k + i]
        /\ k = Len(discovered) - Len(todo.applies)
    BY <1>1, <1>2 DEF ApplyInv, ProgressInv, AppliedSoFar
  <1>6. k + 1 \in 1..Len(discovered) /\ t = discovered[k + 1]
    BY <1>0, <1>4, <1>5
  <1>7. AppliedSoFar' = k + 1
    BY <1>0, <1>1, <1>4, <1>5 DEF AppliedSoFar
  <1>8. /\ t \in NormalTarget
        /\ t.name \in CRNames
        /\ t.name \in NamesOf(discovered)
    <2>1. t \in NormalTarget
      BY <1>0, <1>6
    <2> QED BY <1>6, <2>1, SpecTyped DEF NamesOf
  <1>9. ASSUME clean'
        PROVE  /\ clean /\ targets'[t.name] = generateTargetResource(t)
               /\ \A m \in CRNames \ {t.name} : targets'[m] = targets[m]
    <2>1. /\ clean /\ cached[t.name] = targets[t.name]
          /\ targets' = afterApply(t.name, generateTargetResource(t))
      BY <1>3, <1>9 DEF ApplySnapshotTarget
    <2> QED BY <1>0, <1>8, <2>1 DEF afterApply, Store
  <1>10. ASSUME clean', NEW m \in CRNames \ NamesOf(discovered)
         PROVE  targets'[m] = NoTarget
    BY <1>1, <1>8, <1>9, <1>10 DEF ApplyInv, ProgressInv
  <1>11. ASSUME clean', NEW i \in 1..(k + 1),
                \A j \in (i + 1)..(k + 1) : discovered[j].name # discovered[i].name
         PROVE  targets'[discovered[i].name] = generateTargetResource(discovered[i])
    <2>1. CASE i = k + 1
      BY <1>6, <1>9, <1>11, <2>1
    <2>2. CASE i # k + 1
      <3>1. /\ i \in 1..k /\ k + 1 \in (i + 1)..(k + 1)
            /\ \A j \in (i + 1)..k : j \in (i + 1)..(k + 1)
        <4>1. k \in Int /\ i \in Int /\ i < k + 1 /\ 1 <= i
          BY <1>0, <1>5, <2>2
        <4> QED BY <4>1
      <3>2. discovered[i].name # t.name
        BY <1>6, <1>11, <3>1
      <3>3. discovered[i] \in NormalTarget
        BY <1>0, <1>5, <3>1
      <3>4. discovered[i].name \in CRNames
        BY <3>3, SpecTyped
      <3>5. targets[discovered[i].name] = generateTargetResource(discovered[i])
        <4>1. \A j \in (i + 1)..k : discovered[j].name # discovered[i].name
          BY <1>11, <3>1
        <4> QED BY <1>1, <1>2, <1>9, <1>11, <3>1, <4>1 DEF ApplyInv, ProgressInv
      <3> QED BY <1>9, <1>11, <3>2, <3>4, <3>5
    <2> QED BY <2>1, <2>2
  <1>12. \A i \in 1..Len(todo'.applies) : todo'.applies[i] = discovered[(k + 1) + i]
    <2> SUFFICES ASSUME NEW i \in 1..Len(todo'.applies)
                 PROVE  todo'.applies[i] = discovered[(k + 1) + i]
      OBVIOUS
    <2>1. i + 1 \in 1..Len(todo.applies) /\ k + (i + 1) = (k + 1) + i
      BY <1>4, <1>5
    <2> QED BY <1>4, <1>5, <2>1
  <1>13. ProgressInv'
    BY <1>0, <1>1, <1>4, <1>6, <1>7, <1>10, <1>11, <1>12 DEF ProgressInv
  <1> QED BY <1>1, <1>13, ApplyingFrame DEF ApplyInv

\* ApplyInv is inductive, relative to AssemblyInv.
LEMMA ApplyNext ==
  AssemblyInv /\ AssemblyInv' /\ ApplyInv /\ [Next]_vars => ApplyInv'
  <1> SUFFICES ASSUME AssemblyInv, AssemblyInv', ApplyInv, [Next]_vars
               PROVE  ApplyInv'
    OBVIOUS
  <1>1. CASE MPNext
    <2>1. UNCHANGED loaderVars /\ MPStep
      BY <1>1 DEF MPNext
    <2> QED BY <2>1, RunKeepsApply, CollectKeepsApply, AssembleKeepsApply,
               FetchKeepsApply, DeleteKeepsApply, TargetKeepsApply DEF MPStep
  <1>2. CASE ~MPNext
    BY <1>2, OthersKeepApply DEF Next
  <1> QED BY <1>1, <1>2

\* The invariant holds in every reachable state.
THEOREM ApplyCorrect == Spec => []ApplyInv
  BY ApplyInit, ApplyNext, AssemblyCorrect, PTL DEF Spec

\* processSnapshot never meets a complete buffer, except when the runtime is
\* about to end.
THEOREM NoCompleteSnapshotMet == Spec => []NoCompleteSnapshotPending
  <1>1. ApplyInv => NoCompleteSnapshotPending
    BY DEF ApplyInv, ResetInv, NoCompleteSnapshotPending
  <1> QED BY <1>1, ApplyCorrect, PTL

\* A name that is listed has a last entry.
LEMMA LastEntry ==
  ASSUME NEW list \in Seq(NormalTarget), NEW n \in NamesOf(list)
  PROVE  \E i \in 1..Len(list) :
           list[i].name = n /\ \A j \in (i + 1)..Len(list) : list[j].name # n
  <1> DEFINE N == Len(list)
             T == {m \in Nat : m < N /\ list[N - m].name = n}
  <1>1. N \in Nat
    BY LenProperties
  <1>2. T # {}
    <2>1. PICK i \in 1..N : list[i].name = n
      BY DEF NamesOf
    <2>2. N - i \in Nat /\ N - i < N /\ N - (N - i) = i
      BY <1>1
    <2>3. N - i \in T
      BY <2>1, <2>2
    <2> QED BY <2>3
  <1>3. PICK m \in T : \A k \in T : ~(k < m)
    <2>1. IsWellFoundedOn(OpToRel(<, Nat), Nat)
      BY NatLessThanWellFounded
    <2>2. T \in SUBSET Nat
      OBVIOUS
    <2> HIDE DEF T
    <2>3. PICK m \in T : \A k \in T : <<k, m>> \notin OpToRel(<, Nat)
      BY <1>2, <2>1, <2>2, WFMin
    <2> QED BY <2>2, <2>3 DEF OpToRel
  <1>4. N - m \in 1..N /\ list[N - m].name = n /\ m \in Nat
    BY <1>1, <1>3
  <1>5. ASSUME NEW j \in ((N - m) + 1)..N, list[j].name = n PROVE FALSE
    <2>1. N - j \in Nat /\ N - j < N /\ N - (N - j) = j /\ N - j < m
      BY <1>1, <1>4, <1>5
    <2>2. N - j \in T
      BY <1>5, <2>1
    <2> QED BY <1>3, <2>1, <2>2
  <1> QED BY <1>4, <1>5

\* What is being applied is the whole list the loader fetched.
LEMMA AppliedList ==
  ASSUME AssemblyInv, ApplyInv, mpPC = "apply", active.id \in IDs
  PROVE  discovered = normalized(fetched[active.id])
  <1>1. fetched[active.id] \in Seq(DiscoveredTarget)
    BY DEF AssemblyInv, TypeOK, LoaderTypeOK
  <1>2. active.total = totalChunks(Len(fetched[active.id]))
    BY DEF AssemblyInv, FaithfulBuffer
  <1>3. discovered = Beginning(fetched[active.id], active.total)
    BY DEF ApplyInv, AssembledInv
  <1> QED BY <1>1, <1>2, <1>3, BeginningAll

\* An applied snapshot that met no failure and no stale read leaves exactly
\* the Targets of the list the loader fetched.
THEOREM SnapshotsConverge == Spec => []SnapshotConverges
  <1>1. AssemblyInv /\ ApplyInv => SnapshotConverges
    <2> SUFFICES ASSUME AssemblyInv, ApplyInv, mpPC = "apply", todo = NoEvents,
                        clean, active.id \in IDs
                 PROVE  targets = Wanted(discovered)
      BY AppliedList DEF SnapshotConverges
    <2>1. /\ targets \in Store /\ discovered \in Seq(NormalTarget)
          /\ Len(discovered) \in Nat
      BY LenProperties DEF AssemblyInv, TypeOK, MPTypeOK
    <2>2. todo.deletes = {} /\ Len(todo.applies) = 0
      BY EmptySeq DEF NoEvents
    <2>3. AppliedSoFar = Len(discovered)
      BY <2>1, <2>2 DEF AppliedSoFar
    <2>4. ASSUME NEW n \in CRNames, n \notin NamesOf(discovered)
          PROVE  targets[n] = NoTarget
      BY <2>2, <2>4 DEF ApplyInv, ProgressInv
    <2>5. ASSUME NEW n \in CRNames, n \in NamesOf(discovered)
          PROVE  targets[n] = generateTargetResource(discovered[LastOf(discovered, n)])
      <3> DEFINE i == LastOf(discovered, n)
      <3>1. /\ i \in 1..Len(discovered) /\ discovered[i].name = n
            /\ \A j \in (i + 1)..Len(discovered) : discovered[j].name # n
        BY <2>1, <2>5, LastEntry DEF LastOf
      <3> HIDE DEF i
      <3>2. targets[discovered[i].name] = generateTargetResource(discovered[i])
        BY <2>3, <3>1 DEF ApplyInv, ProgressInv
      <3> QED BY <3>1, <3>2 DEF i
    <2>6. targets = [n \in CRNames |->
                       IF n \in NamesOf(discovered)
                         THEN generateTargetResource(discovered[LastOf(discovered, n)])
                         ELSE NoTarget]
      BY <2>1, <2>4, <2>5 DEF Store
    <2> QED BY <2>6 DEF Wanted
  <1> QED BY <1>1, AssemblyCorrect, ApplyCorrect, PTL

\* A spec is not taken for a missing Target, so only a delete removes one.
LEMMA ApplyRemovesNothing ==
  ASSUME MPTypeOK, NEW t \in NormalTarget, NEW n \in CRNames,
         targets' = afterApply(t.name, generateTargetResource(t)),
         targets[n] # NoTarget
  PROVE  targets'[n] # NoTarget
  <1>1. t.name \in CRNames /\ generateTargetResource(t) # NoTarget
    BY SpecTyped, NoTargetAssumption
  <1> QED BY <1>1 DEF MPTypeOK, Store, afterApply

\* A Target disappears only because a delete event names it or because a
\* complete snapshot does not list it.
THEOREM DeletesAreJustified == Spec => DeletesJustified
  <1> DEFINE Justified(n) ==
               \/ /\ mpPC = "drain"
                  /\ Head(queue).type = "event"
                  /\ Head(queue).action = "delete"
                  /\ normalizeTarget(Head(queue).target).name = n
               \/ /\ mpPC = "apply" /\ complete(active)
                  /\ \A i \in DOMAIN active.received :
                       n \notin NamesOf(active.received[i])
                  /\ active.id \in IDs =>
                       n \notin NamesOf(normalized(fetched[active.id]))
             Own == \A n \in CRNames :
                      targets[n] # NoTarget /\ targets'[n] = NoTarget => Justified(n)
  <1>1. ASSUME AssemblyInv, ApplyInv, [Next]_vars PROVE [Own]_vars
    <2>0. MPTypeOK
      BY <1>1 DEF AssemblyInv, TypeOK
    <2> SUFFICES ASSUME NEW n \in CRNames, targets[n] # NoTarget,
                        targets'[n] = NoTarget
                 PROVE  Justified(n)
      OBVIOUS
    <2>1. CASE ApplyEvent
      <3> DEFINE t == normalizeTarget(Head(queue).target)
      <3>1. TakeMessage("event")
        BY <2>1 DEF ApplyEvent
      <3>2. Head(queue) \in DiscoveryEvent
        BY <1>1, <3>1, MessageTaken DEF DiscoveryMessage, DiscoverySnapshot
      <3>3. t \in NormalTarget
        BY <3>2, NormalizeTyped DEF DiscoveryEvent
      <3>4. /\ Head(queue).action = "delete" /\ targets' = afterDelete(t.name)
        <4>1. \/ targets' = afterApply(t.name, generateTargetResource(t))
              \/ Head(queue).action = "delete" /\ targets' = afterDelete(t.name)
          BY <2>1 DEF ApplyEvent
        <4> HIDE DEF t
        <4> QED BY <2>0, <3>3, <4>1, ApplyRemovesNothing
      <3>5. t.name = n
        <4> HIDE DEF t
        <4> QED BY <2>0, <3>4 DEF afterDelete, MPTypeOK, Store
      <3> QED BY <3>1, <3>4, <3>5 DEF TakeMessage
    <2>2. ASSUME NEW m \in CRNames, ApplySnapshotDelete(m) PROVE Justified(n)
      <3>1. mpPC = "apply" /\ m \in todo.deletes
        BY <2>2 DEF ApplySnapshotDelete
      <3>2. m = n
        BY <2>0, <2>2 DEF ApplySnapshotDelete, afterDelete, MPTypeOK, Store
      <3>3. n \notin NamesOf(discovered)
        BY <1>1, <3>1, <3>2 DEF ApplyInv, ProgressInv
      <3>4. SnapshotBufferOK(active) /\ complete(active)
        BY <1>1, <2>0, <3>1 DEF AssemblyInv, MPTypeOK
      <3>5. DOMAIN active.received = 0..(active.total - 1)
        BY <3>4, CompleteHasAllChunks
      <3>6. NamesOf(discovered) =
              UNION {NamesOf(active.received[i]) : i \in 0..(active.total - 1)}
        BY <1>1, <3>1 DEF ApplyInv, AssembledInv
      <3>7. \A i \in DOMAIN active.received : n \notin NamesOf(active.received[i])
        BY <3>3, <3>5, <3>6
      <3>8. active.id \in IDs => n \notin NamesOf(normalized(fetched[active.id]))
        BY <1>1, <3>1, <3>3, AppliedList
      <3> QED BY <3>1, <3>4, <3>7, <3>8
    <2>3. CASE ApplySnapshotTarget
      <3> DEFINE t == Head(todo.applies)
      <3>1. t \in NormalTarget
        BY <2>0, <2>3 DEF MPTypeOK, ApplySnapshotTarget
      <3>2. targets' = afterApply(t.name, generateTargetResource(t)) \/ UNCHANGED targets
        BY <2>3 DEF ApplySnapshotTarget
      <3> HIDE DEF t
      <3> QED BY <2>0, <3>1, <3>2, ApplyRemovesNothing
    <2>4. CASE UNCHANGED targets
      BY <2>4
    <2>5. \/ ApplyEvent \/ ApplySnapshotTarget \/ UNCHANGED targets
          \/ \E m \in CRNames : ApplySnapshotDelete(m)
      <3>1. CASE MPNext
        BY <3>1
        DEF MPNext, MPStep, RunStarts, ReceiveBatch, StopOnCancel,
            CollectChunk, RejectChunk, ApplyCancelled, AssembleChunk,
            FetchExisting, FinishSnapshot, ReplayCancelled, DeferEvent,
            EventFails, apiVars
      <3>2. CASE LoaderNext \/ SourceNext \/ Push \/ Stop \/ Cleanup \/ UNCHANGED vars
        BY <3>2 DEF LoaderNext, SourceNext, Push, Stop, Cleanup, vars, mpVars
      <3>3. CASE \E m \in CRNames : CacheNext(m)
        BY <3>3 DEF CacheNext, CacheSync
      <3> QED BY <1>1, <3>1, <3>2, <3>3 DEF Next
    <2> QED BY <2>1, <2>2, <2>3, <2>4, <2>5
  <1>2. AssemblyInv /\ ApplyInv /\ [Next]_vars => [Own]_vars
    BY <1>1
  <1> QED BY <1>2, AssemblyCorrect, ApplyCorrect, PTL DEF Spec, DeletesJustified
=============================================================================
