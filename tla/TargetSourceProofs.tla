-------------------------- MODULE TargetSourceProofs ------------------------
(***************************************************************************)
(* Proofs about TargetSourceController: type correctness, and that what    *)
(* stays in the registry is the current runtime, for any number of         *)
(* runtimes, generations, recreations, failures and restarts. The argument *)
(* is the inductive invariant RegistrationInv: a generation counts as      *)
(* observed only after a runtime was started from it, and what the worker  *)
(* does not know yet is on its way through the watch or the queue.         *)
(***************************************************************************)
EXTENDS TargetSourceController, TLAPS

\* An object that is gone is well formed, and it is a fresh object that the
\* API server creates.
LEMMA ObjectsTyped ==
  ASSUME NEW u \in 0..MaxUID
  PROVE  /\ Absent(u) \in Object
         /\ [Absent(u) EXCEPT !.exists = TRUE, !.gen = 1] \in Object
  <1>1. 0 \in 0..MaxGen /\ 1 \in 0..MaxGen
    BY BoundAssumption
  <1> QED BY <1>1 DEF Absent, Object

\* The writes to an object keep it well formed.
LEMMA WritesTyped ==
  ASSUME NEW o \in Object
  PROVE  /\ \A b \in BOOLEAN : [o EXCEPT !.fin = b] \in Object
         /\ \A g \in 0..MaxGen :
              /\ [o EXCEPT !.gen = g] \in Object
              /\ [o EXCEPT !.deleting = TRUE, !.gen = g] \in Object
              /\ [o EXCEPT !.obs = g] \in Object
         /\ Observed(o) \in Object
  BY DEF Object, Observed

\* So do the changes to a runtime.
LEMMA RuntimesTyped ==
  /\ NoRuntime \in Runtime
  /\ \A u \in 0..MaxUID, g \in 0..MaxGen :
       [proc |-> "running", loader |-> "new", ctxDone |-> FALSE,
        uid |-> u, gen |-> g] \in Runtime
  /\ \A r \in Runtime :
       /\ [r EXCEPT !.ctxDone = TRUE] \in Runtime
       /\ [r EXCEPT !.proc = "ended", !.ctxDone = TRUE] \in Runtime
       /\ [r EXCEPT !.loader = "running"] \in Runtime
       /\ Settled([r EXCEPT !.proc = "done"]) \in Runtime
       /\ Settled([r EXCEPT !.loader = "ended"]) \in Runtime
  <1>1. 0 \in 0..MaxGen /\ 0 \in 0..MaxUID
    BY BoundAssumption
  <1>2. NoRuntime \in Runtime
    BY <1>1 DEF NoRuntime, Runtime
  <1> QED BY <1>2 DEF Settled, Runtime

\* The fields of an object.
LEMMA Fields ==
  ASSUME NEW o \in Object
  PROVE  /\ o.uid \in 0..MaxUID /\ o.gen \in 0..MaxGen /\ o.obs \in 0..MaxGen
         /\ o.exists \in BOOLEAN /\ o.deleting \in BOOLEAN /\ o.fin \in BOOLEAN
  BY DEF Object

\* The worker between two reconciles holds a well-formed object.
LEMMA AbsentTyped == Absent(0) \in Object
  <1>1. 0 \in 0..MaxUID
    BY BoundAssumption
  <1> QED BY <1>1, ObjectsTyped, Zenon

\* TypeOK in two parts: the flags, and everything else.
FlagsOK == dirty \in BOOLEAN /\ cacheFresh \in BOOLEAN /\ heldFresh \in BOOLEAN
ValuesOK ==
  /\ obj \in Object /\ cache \in Object /\ held \in Object
  /\ pc \in PCs
  /\ registry \in Slots \cup {NoSlot}
  /\ runtime \in [Slots -> Runtime]
  /\ statusWrites \in 0..MaxStatus
  /\ failures \in 0..MaxFailures
  /\ restarts \in 0..MaxRestarts

\* Every step keeps the flags Boolean.
LEMMA FlagsNext ==
  ASSUME TypeOK, [Next]_vars PROVE FlagsOK'
  <1>1. CASE Create
    BY <1>1, Zenon DEF Create, Changed, workerVars, TypeOK, FlagsOK
  <1>2. CASE EditSpec
    BY <1>2, Zenon DEF EditSpec, Changed, workerVars, TypeOK, FlagsOK
  <1>3. CASE Delete
    BY <1>3, Zenon DEF Delete, Changed, workerVars, TypeOK, FlagsOK
  <1>4. CASE CacheSync
    BY <1>4, Zenon DEF CacheSync, TypeOK, FlagsOK
  <1>5. CASE Reconcile
    BY <1>5, Zenon DEF Reconcile, Continues, serverVars, TypeOK, FlagsOK
  <1>6. CASE fetchTargetSource
    BY <1>6, Zenon DEF fetchTargetSource, serverVars, TypeOK, FlagsOK
  <1>7. CASE FetchFails
    BY <1>7, Zenon DEF FetchFails, Returns, TypeOK, FlagsOK
  <1>8. CASE ensureFinalizer
    BY <1>8, Zenon
    DEF ensureFinalizer, Continues, Write, WriteFails, Returns, TypeOK,
        FlagsOK
  <1>9. CASE CheckRegistry
    BY <1>9, Zenon
    DEF CheckRegistry, Continues, Returns, serverVars, TypeOK, FlagsOK
  <1>10. ASSUME NEW s \in Slots, startDiscovery(s) PROVE FlagsOK'
    BY <1>10, Zenon DEF startDiscovery, Continues, serverVars, TypeOK, FlagsOK
  <1>11. CASE StartFails
    BY <1>11, Zenon DEF StartFails, Returns, TypeOK, FlagsOK
  <1>12. CASE UpdateObservedGeneration
    BY <1>12, Zenon
    DEF UpdateObservedGeneration, Write, WriteFails, Returns, TypeOK, FlagsOK
  <1>13. CASE StopRuntime
    BY <1>13, Zenon
    DEF StopRuntime, AfterStop, Continues, Returns, serverVars, TypeOK,
        FlagsOK
  <1>14. CASE UnregisterRuntime
    BY <1>14, Zenon
    DEF UnregisterRuntime, AfterStop, Continues, Returns, serverVars, TypeOK,
        FlagsOK
  <1>15. CASE RemoveFinalizer
    BY <1>15, Zenon
    DEF RemoveFinalizer, Write, WriteFails, Returns, TypeOK, FlagsOK
  <1>16. ASSUME NEW s \in Slots, ProcessorEnds(s) PROVE FlagsOK'
    BY <1>16, Zenon DEF ProcessorEnds, objVars, workerVars, TypeOK, FlagsOK
  <1>17. ASSUME NEW s \in Slots, CleanupUnregisters(s) PROVE FlagsOK'
    BY <1>17, Zenon
    DEF CleanupUnregisters, objVars, workerVars, TypeOK, FlagsOK
  <1>18. ASSUME NEW s \in Slots, LoaderStarts(s) PROVE FlagsOK'
    BY <1>18, Zenon DEF LoaderStarts, objVars, workerVars, TypeOK, FlagsOK
  <1>19. ASSUME NEW s \in Slots, LoaderEnds(s) PROVE FlagsOK'
    BY <1>19, Zenon DEF LoaderEnds, objVars, workerVars, TypeOK, FlagsOK
  <1>20. ASSUME NEW s \in Slots, ProcessorUpdatesStatus(s) PROVE FlagsOK'
    BY <1>20, Zenon
    DEF ProcessorUpdatesStatus, Changed, workerVars, TypeOK, FlagsOK
  <1>21. CASE OperatorRestart
    BY <1>21, Fields, Zenon DEF OperatorRestart, serverVars, TypeOK, FlagsOK
  <1>22. CASE UNCHANGED vars
    BY <1>22 DEF vars, TypeOK, FlagsOK
  <1> QED
    BY <1>1, <1>2, <1>3, <1>4, <1>5, <1>6, <1>7, <1>8, <1>9, <1>10, <1>11,
       <1>12, <1>13, <1>14, <1>15, <1>16, <1>17, <1>18, <1>19, <1>20, <1>21,
       <1>22
    DEF Next, Worker, RuntimeStep

\* Every step keeps the objects, the runtimes and the counters well formed.
LEMMA ValuesNext ==
  ASSUME TypeOK, [Next]_vars PROVE ValuesOK'
  <1>1. CASE Create
    <2>1. obj.uid + 1 \in 0..MaxUID
      BY <1>1, BoundAssumption, Fields DEF Create, TypeOK
    <2>2. obj' \in Object
      BY <1>1, <2>1, ObjectsTyped, Zenon DEF Create, Changed
    <2> QED BY <1>1, <2>2 DEF Create, TypeOK, ValuesOK, workerVars
  <1>2. CASE EditSpec
    <2>1. obj.gen + 1 \in 0..MaxGen
      BY <1>2, BoundAssumption, Fields DEF EditSpec, TypeOK
    <2>2. obj' \in Object
      BY <1>2, <2>1, WritesTyped, Zenon DEF EditSpec, Changed, TypeOK
    <2> QED BY <1>2, <2>2 DEF EditSpec, TypeOK, ValuesOK, workerVars
  <1>3. CASE Delete
    <2>1. obj.gen < MaxGen => obj.gen + 1 \in 0..MaxGen
      BY BoundAssumption, Fields DEF TypeOK
    <2>2. Absent(obj.uid) \in Object
      BY ObjectsTyped, Fields, Zenon DEF TypeOK
    <2>3. obj' \in Object
      BY <1>3, <2>1, <2>2, WritesTyped, Zenon DEF Delete, Changed, TypeOK
    <2> QED BY <1>3, <2>3 DEF Delete, TypeOK, ValuesOK, workerVars
  <1>4. CASE CacheSync
    BY <1>4, SlotAssumption, BoundAssumption
    DEF CacheSync, TypeOK, ValuesOK, PCs
  <1>5. CASE Reconcile
    BY <1>5, SlotAssumption, BoundAssumption
    DEF Reconcile, Continues, serverVars, TypeOK, ValuesOK, PCs
  <1>6. CASE fetchTargetSource
    BY <1>6, SlotAssumption, BoundAssumption
    DEF fetchTargetSource, serverVars, TypeOK, ValuesOK, PCs
  <1>7. CASE FetchFails
    BY <1>7, SlotAssumption, BoundAssumption, AbsentTyped
    DEF FetchFails, Returns, TypeOK, ValuesOK, PCs
  <1>8. CASE ensureFinalizer
    <2>1. obj' \in Object /\ held' \in Object
      BY <1>8, AbsentTyped, WritesTyped, Zenon
      DEF ensureFinalizer, Continues, Write, WriteFails, Returns, TypeOK
    <2> QED
      BY <1>8, <2>1, BoundAssumption
      DEF ensureFinalizer, Continues, Write, WriteFails, Returns, TypeOK,
          ValuesOK, PCs
  <1>9. CASE CheckRegistry
    BY <1>9, SlotAssumption, BoundAssumption, AbsentTyped
    DEF CheckRegistry, Continues, Returns, serverVars, TypeOK, ValuesOK, PCs
  <1>10. ASSUME NEW s \in Slots, startDiscovery(s) PROVE ValuesOK'
    BY <1>10, SlotAssumption, BoundAssumption, RuntimesTyped, Fields
    DEF startDiscovery, Continues, serverVars, TypeOK, ValuesOK, PCs
  <1>11. CASE StartFails
    BY <1>11, SlotAssumption, BoundAssumption, AbsentTyped
    DEF StartFails, Returns, TypeOK, ValuesOK, PCs
  <1>12. CASE UpdateObservedGeneration
    <2>1. obj' \in Object /\ held' \in Object
      BY <1>12, AbsentTyped, WritesTyped, Zenon
      DEF UpdateObservedGeneration, Write, WriteFails, Returns, TypeOK
    <2> QED
      BY <1>12, <2>1, BoundAssumption
      DEF UpdateObservedGeneration, Write, WriteFails, Returns, TypeOK,
          ValuesOK, PCs
  <1>13. CASE StopRuntime
    <2>1. registry # NoSlot =>
            [runtime EXCEPT ![registry].ctxDone = TRUE] \in [Slots -> Runtime]
      BY RuntimesTyped DEF TypeOK
    <2>2. runtime' \in [Slots -> Runtime] /\ held' \in Object
      BY <1>13, <2>1, AbsentTyped
      DEF StopRuntime, AfterStop, Continues, Returns, TypeOK
    <2> QED
      BY <1>13, <2>2
      DEF StopRuntime, AfterStop, Continues, Returns, serverVars, TypeOK,
          ValuesOK, PCs
  <1>14. CASE UnregisterRuntime
    BY <1>14, SlotAssumption, BoundAssumption, AbsentTyped
    DEF UnregisterRuntime, AfterStop, Continues, Returns, serverVars, TypeOK,
        ValuesOK, PCs
  <1>15. CASE RemoveFinalizer
    <2>1. Absent(held.uid) \in Object /\ [held EXCEPT !.fin = FALSE] \in Object
      BY ObjectsTyped, WritesTyped, Fields, Zenon DEF TypeOK
    <2>2. obj' \in Object /\ held' \in Object
      BY <1>15, <2>1, AbsentTyped, Zenon
      DEF RemoveFinalizer, Write, WriteFails, Returns, TypeOK
    <2> QED
      BY <1>15, <2>2, BoundAssumption
      DEF RemoveFinalizer, Write, WriteFails, Returns, TypeOK, ValuesOK, PCs
  <1>16. ASSUME NEW s \in Slots, ProcessorEnds(s) PROVE ValuesOK'
    BY <1>16, SlotAssumption, BoundAssumption, RuntimesTyped
    DEF ProcessorEnds, objVars, workerVars, TypeOK, ValuesOK, PCs
  <1>17. ASSUME NEW s \in Slots, CleanupUnregisters(s) PROVE ValuesOK'
    BY <1>17, SlotAssumption, BoundAssumption, RuntimesTyped
    DEF CleanupUnregisters, objVars, workerVars, TypeOK, ValuesOK, PCs
  <1>18. ASSUME NEW s \in Slots, LoaderStarts(s) PROVE ValuesOK'
    BY <1>18, SlotAssumption, BoundAssumption, RuntimesTyped
    DEF LoaderStarts, objVars, workerVars, TypeOK, ValuesOK, PCs
  <1>19. ASSUME NEW s \in Slots, LoaderEnds(s) PROVE ValuesOK'
    BY <1>19, SlotAssumption, BoundAssumption, RuntimesTyped
    DEF LoaderEnds, objVars, workerVars, TypeOK, ValuesOK, PCs
  <1>20. ASSUME NEW s \in Slots, ProcessorUpdatesStatus(s) PROVE ValuesOK'
    BY <1>20, SlotAssumption, BoundAssumption
    DEF ProcessorUpdatesStatus, Changed, workerVars, TypeOK, ValuesOK, PCs
  <1>21. CASE OperatorRestart
    <2>1. runtime' \in [Slots -> Runtime]
      BY <1>21, RuntimesTyped DEF OperatorRestart
    <2> QED
      BY <1>21, <2>1, AbsentTyped, BoundAssumption
      DEF OperatorRestart, TypeOK, ValuesOK, PCs
  <1>22. CASE UNCHANGED vars
    BY <1>22 DEF vars, TypeOK, ValuesOK, PCs
  <1> QED
    BY <1>1, <1>2, <1>3, <1>4, <1>5, <1>6, <1>7, <1>8, <1>9, <1>10, <1>11,
       <1>12, <1>13, <1>14, <1>15, <1>16, <1>17, <1>18, <1>19, <1>20, <1>21,
       <1>22
    DEF Next, Worker, RuntimeStep

\* What the creation of an object does to it.
LEMMA CreateEffect ==
  ASSUME TypeOK, Create
  PROVE  /\ ~obj.exists
         /\ obj'.exists /\ obj'.uid = obj.uid + 1
         /\ obj'.gen = 1 /\ obj'.obs = 0
  BY DEF Create, Changed, Absent, TypeOK, Object

\* What its deletion does: it is gone, or marked in a generation of its own.
LEMMA DeleteEffect ==
  ASSUME TypeOK, Delete
  PROVE  /\ obj.exists /\ obj'.uid = obj.uid
         /\ \/ ~obj.fin /\ ~obj'.exists /\ obj'.gen = 0 /\ obj'.obs = 0
            \/ /\ obj'.exists /\ obj'.deleting
               /\ obj'.gen = obj.gen + 1 /\ obj'.obs = obj.obs
  <1>1. CASE obj' = [obj EXCEPT !.deleting = TRUE, !.gen = @ + 1]
    BY <1>1 DEF Delete, TypeOK, Object
  <1>2. CASE obj' = Absent(obj.uid) /\ ~obj.fin
    <2>1. obj' = [exists |-> FALSE, deleting |-> FALSE, fin |-> FALSE,
                  uid |-> obj.uid, gen |-> 0, obs |-> 0]
      BY <1>2 DEF Absent
    <2>2. obj.exists
      BY DEF Delete
    <2> QED BY <1>2, <2>1, <2>2
  <1> QED BY <1>1, <1>2 DEF Delete, Changed

\* No step makes a copy that claims to be fresh differ from the object, and
\* the worker misses no generation without being queued again.
LEMMA VersionsNext ==
  ASSUME RegistrationInv, [Next]_vars
  PROVE  VersionsInv'
  <1> USE DEF RegistrationInv, TypeOK, Object, VersionsInv, WorkerInv, Older,
      SameGeneration, GenerationChanged, Working
  <1>1. CASE Create
    <2>1. UNCHANGED <<cache, held, pc, dirty>> /\ ~cacheFresh' /\ ~heldFresh'
      BY <1>1 DEF Create, Changed, workerVars
    <2> QED BY <1>1, <2>1, CreateEffect
  <1>2. CASE EditSpec
    BY <1>2 DEF EditSpec, Changed, workerVars
  <1>3. CASE Delete
    <2>1. UNCHANGED <<cache, held, pc, dirty>> /\ ~cacheFresh' /\ ~heldFresh'
      BY <1>3 DEF Delete, Changed, workerVars
    <2> QED BY <1>3, <2>1, DeleteEffect
  <1>4. CASE CacheSync
    <2>1. UNCHANGED <<obj, held, heldFresh, pc>> /\ cacheFresh' /\ cache' = obj
      BY <1>4 DEF CacheSync
    <2>2. dirty' \/ (~dirty /\ SameGeneration(cache, obj))
      BY <1>4 DEF CacheSync
    <2> QED BY <2>1, <2>2
  <1>5. CASE Reconcile
    BY <1>5 DEF Reconcile, Continues, serverVars
  <1>6. CASE fetchTargetSource
    BY <1>6 DEF fetchTargetSource, serverVars
  <1>7. CASE FetchFails
    BY <1>7 DEF FetchFails, Returns, Absent
  <1>8. CASE ensureFinalizer
    BY <1>8 DEF ensureFinalizer, Continues, Write, WriteFails, Returns, Absent
  <1>9. CASE CheckRegistry
    BY <1>9 DEF CheckRegistry, Continues, Returns, Absent, serverVars
  <1>10. ASSUME NEW s \in Slots, startDiscovery(s) PROVE VersionsInv'
    BY <1>10, SlotAssumption DEF startDiscovery, Continues, serverVars
  <1>11. CASE StartFails
    BY <1>11 DEF StartFails, Returns, Absent
  <1>12. CASE UpdateObservedGeneration
    BY <1>12
    DEF UpdateObservedGeneration, Write, WriteFails, Observed, Returns, Absent
  <1>13. CASE StopRuntime
    BY <1>13
    DEF StopRuntime, AfterStop, Continues, Returns, Absent, serverVars
  <1>14. CASE UnregisterRuntime
    BY <1>14
    DEF UnregisterRuntime, AfterStop, Continues, Returns, Absent, serverVars
  <1>15. CASE RemoveFinalizer
    BY <1>15 DEF RemoveFinalizer, Write, WriteFails, Returns, Absent
  <1>16. ASSUME NEW s \in Slots, ProcessorEnds(s) PROVE VersionsInv'
    BY <1>16 DEF ProcessorEnds, objVars, workerVars
  <1>17. ASSUME NEW s \in Slots, CleanupUnregisters(s) PROVE VersionsInv'
    BY <1>17 DEF CleanupUnregisters, Settled, NoRuntime, objVars, workerVars
  <1>18. ASSUME NEW s \in Slots, LoaderStarts(s) PROVE VersionsInv'
    BY <1>18 DEF LoaderStarts, objVars, workerVars
  <1>19. ASSUME NEW s \in Slots, LoaderEnds(s) PROVE VersionsInv'
    BY <1>19 DEF LoaderEnds, Settled, NoRuntime, objVars, workerVars
  <1>20. ASSUME NEW s \in Slots, ProcessorUpdatesStatus(s) PROVE VersionsInv'
    BY <1>20 DEF ProcessorUpdatesStatus, Changed, workerVars
  <1>21. CASE OperatorRestart
    BY <1>21 DEF OperatorRestart, Absent, NoRuntime
  <1>22. CASE UNCHANGED vars
    BY <1>22 DEF vars
  <1> QED
    BY <1>1, <1>2, <1>3, <1>4, <1>5, <1>6, <1>7, <1>8, <1>9, <1>10, <1>11,
       <1>12, <1>13, <1>14, <1>15, <1>16, <1>17, <1>18, <1>19, <1>20, <1>21,
       <1>22
    DEF Next, Worker, RuntimeStep

\* What the worker has found out about its version stays true while it works.
LEMMA WorkerNext ==
  ASSUME RegistrationInv, [Next]_vars
  PROVE  WorkerInv'
  <1> USE DEF RegistrationInv, TypeOK, Object, VersionsInv, WorkerInv,
      IsObserved, Working
  <1>1. CASE Create
    BY <1>1 DEF Create, Changed, Absent, workerVars
  <1>2. CASE EditSpec
    BY <1>2 DEF EditSpec, Changed, workerVars
  <1>3. CASE Delete
    BY <1>3 DEF Delete, Changed, Absent, workerVars
  <1>4. CASE CacheSync
    BY <1>4 DEF CacheSync
  <1>5. CASE Reconcile
    BY <1>5 DEF Reconcile, Continues, serverVars
  <1>6. CASE fetchTargetSource
    BY <1>6 DEF fetchTargetSource, serverVars
  <1>7. CASE FetchFails
    BY <1>7 DEF FetchFails, Returns, Absent
  <1>8. CASE ensureFinalizer
    BY <1>8 DEF ensureFinalizer, Continues, Write, WriteFails, Returns, Absent
  <1>9. CASE CheckRegistry
    BY <1>9 DEF CheckRegistry, Continues, Returns, Absent, serverVars
  <1>10. ASSUME NEW s \in Slots, startDiscovery(s) PROVE WorkerInv'
    BY <1>10, SlotAssumption DEF startDiscovery, Continues, serverVars
  <1>11. CASE StartFails
    BY <1>11 DEF StartFails, Returns, Absent
  <1>12. CASE UpdateObservedGeneration
    BY <1>12
    DEF UpdateObservedGeneration, Write, WriteFails, Observed, Returns, Absent
  <1>13. CASE StopRuntime
    BY <1>13
    DEF StopRuntime, AfterStop, Continues, Returns, Absent, serverVars
  <1>14. CASE UnregisterRuntime
    BY <1>14
    DEF UnregisterRuntime, AfterStop, Continues, Returns, Absent, serverVars
  <1>15. CASE RemoveFinalizer
    BY <1>15 DEF RemoveFinalizer, Write, WriteFails, Returns, Absent
  <1>16. ASSUME NEW s \in Slots, ProcessorEnds(s) PROVE WorkerInv'
    BY <1>16 DEF ProcessorEnds, objVars, workerVars
  <1>17. ASSUME NEW s \in Slots, CleanupUnregisters(s) PROVE WorkerInv'
    BY <1>17 DEF CleanupUnregisters, Settled, NoRuntime, objVars, workerVars
  <1>18. ASSUME NEW s \in Slots, LoaderStarts(s) PROVE WorkerInv'
    BY <1>18 DEF LoaderStarts, objVars, workerVars
  <1>19. ASSUME NEW s \in Slots, LoaderEnds(s) PROVE WorkerInv'
    BY <1>19 DEF LoaderEnds, Settled, NoRuntime, objVars, workerVars
  <1>20. ASSUME NEW s \in Slots, ProcessorUpdatesStatus(s) PROVE WorkerInv'
    BY <1>20 DEF ProcessorUpdatesStatus, Changed, workerVars
  <1>21. CASE OperatorRestart
    BY <1>21 DEF OperatorRestart, Absent, NoRuntime
  <1>22. CASE UNCHANGED vars
    BY <1>22 DEF vars
  <1> QED
    BY <1>1, <1>2, <1>3, <1>4, <1>5, <1>6, <1>7, <1>8, <1>9, <1>10, <1>11,
       <1>12, <1>13, <1>14, <1>15, <1>16, <1>17, <1>18, <1>19, <1>20, <1>21,
       <1>22
    DEF Next, Worker, RuntimeStep

\* A slot is left only after its runtime has been unregistered.
LEMMA RuntimeNext ==
  ASSUME RegistrationInv, [Next]_vars
  PROVE  RuntimeInv'
  <1> USE DEF RegistrationInv, TypeOK, Object, Runtime, WorkerInv, RuntimeInv
  <1>1. CASE Create
    BY <1>1 DEF Create, Changed, Absent, workerVars
  <1>2. CASE EditSpec
    BY <1>2 DEF EditSpec, Changed, workerVars
  <1>3. CASE Delete
    BY <1>3 DEF Delete, Changed, Absent, workerVars
  <1>4. CASE CacheSync
    BY <1>4 DEF CacheSync
  <1>5. CASE Reconcile
    BY <1>5 DEF Reconcile, Continues, serverVars
  <1>6. CASE fetchTargetSource
    BY <1>6 DEF fetchTargetSource, serverVars
  <1>7. CASE FetchFails
    BY <1>7 DEF FetchFails, Returns, Absent
  <1>8. CASE ensureFinalizer
    BY <1>8 DEF ensureFinalizer, Continues, Write, WriteFails, Returns, Absent
  <1>9. CASE CheckRegistry
    BY <1>9 DEF CheckRegistry, Continues, Returns, Absent, serverVars
  <1>10. ASSUME NEW s \in Slots, startDiscovery(s) PROVE RuntimeInv'
    BY <1>10, SlotAssumption DEF startDiscovery, Continues, serverVars
  <1>11. CASE StartFails
    BY <1>11 DEF StartFails, Returns, Absent
  <1>12. CASE UpdateObservedGeneration
    BY <1>12
    DEF UpdateObservedGeneration, Write, WriteFails, Observed, Returns, Absent
  <1>13. CASE StopRuntime
    BY <1>13
    DEF StopRuntime, AfterStop, Continues, Returns, Absent, serverVars
  <1>14. CASE UnregisterRuntime
    BY <1>14
    DEF UnregisterRuntime, AfterStop, Continues, Returns, Absent, serverVars
  <1>15. CASE RemoveFinalizer
    BY <1>15 DEF RemoveFinalizer, Write, WriteFails, Returns, Absent
  <1>16. ASSUME NEW s \in Slots, ProcessorEnds(s) PROVE RuntimeInv'
    BY <1>16 DEF ProcessorEnds, objVars, workerVars
  <1>17. ASSUME NEW s \in Slots, CleanupUnregisters(s) PROVE RuntimeInv'
    BY <1>17 DEF CleanupUnregisters, Settled, NoRuntime, objVars, workerVars
  <1>18. ASSUME NEW s \in Slots, LoaderStarts(s) PROVE RuntimeInv'
    BY <1>18 DEF LoaderStarts, objVars, workerVars
  <1>19. ASSUME NEW s \in Slots, LoaderEnds(s) PROVE RuntimeInv'
    BY <1>19 DEF LoaderEnds, Settled, NoRuntime, objVars, workerVars
  <1>20. ASSUME NEW s \in Slots, ProcessorUpdatesStatus(s) PROVE RuntimeInv'
    BY <1>20 DEF ProcessorUpdatesStatus, Changed, workerVars
  <1>21. CASE OperatorRestart
    BY <1>21 DEF OperatorRestart, Absent, NoRuntime
  <1>22. CASE UNCHANGED vars
    BY <1>22 DEF vars
  <1> QED
    BY <1>1, <1>2, <1>3, <1>4, <1>5, <1>6, <1>7, <1>8, <1>9, <1>10, <1>11,
       <1>12, <1>13, <1>14, <1>15, <1>16, <1>17, <1>18, <1>19, <1>20, <1>21,
       <1>22
    DEF Next, Worker, RuntimeStep

\* Whoever cancels a registered runtime is about to unregister it.
LEMMA ZombieNext ==
  ASSUME RegistrationInv, [Next]_vars
  PROVE  NoZombieRegistration'
  <1> USE DEF RegistrationInv, TypeOK, Object, Runtime, WorkerInv, RuntimeInv,
      NoZombieRegistration, Alive
  <1>1. CASE Create
    BY <1>1 DEF Create, Changed, Absent, workerVars
  <1>2. CASE EditSpec
    BY <1>2 DEF EditSpec, Changed, workerVars
  <1>3. CASE Delete
    BY <1>3 DEF Delete, Changed, Absent, workerVars
  <1>4. CASE CacheSync
    BY <1>4 DEF CacheSync
  <1>5. CASE Reconcile
    BY <1>5 DEF Reconcile, Continues, serverVars
  <1>6. CASE fetchTargetSource
    BY <1>6 DEF fetchTargetSource, serverVars
  <1>7. CASE FetchFails
    BY <1>7 DEF FetchFails, Returns, Absent
  <1>8. CASE ensureFinalizer
    BY <1>8 DEF ensureFinalizer, Continues, Write, WriteFails, Returns, Absent
  <1>9. CASE CheckRegistry
    BY <1>9 DEF CheckRegistry, Continues, Returns, Absent, serverVars
  <1>10. ASSUME NEW s \in Slots, startDiscovery(s) PROVE NoZombieRegistration'
    BY <1>10, SlotAssumption DEF startDiscovery, Continues, serverVars
  <1>11. CASE StartFails
    BY <1>11 DEF StartFails, Returns, Absent
  <1>12. CASE UpdateObservedGeneration
    BY <1>12
    DEF UpdateObservedGeneration, Write, WriteFails, Observed, Returns, Absent
  <1>13. CASE StopRuntime
    BY <1>13
    DEF StopRuntime, AfterStop, Continues, Returns, Absent, serverVars
  <1>14. CASE UnregisterRuntime
    BY <1>14
    DEF UnregisterRuntime, AfterStop, Continues, Returns, Absent, serverVars
  <1>15. CASE RemoveFinalizer
    BY <1>15 DEF RemoveFinalizer, Write, WriteFails, Returns, Absent
  <1>16. ASSUME NEW s \in Slots, ProcessorEnds(s) PROVE NoZombieRegistration'
    BY <1>16 DEF ProcessorEnds, objVars, workerVars
  <1>17. ASSUME NEW s \in Slots, CleanupUnregisters(s)
         PROVE  NoZombieRegistration'
    BY <1>17 DEF CleanupUnregisters, Settled, NoRuntime, objVars, workerVars
  <1>18. ASSUME NEW s \in Slots, LoaderStarts(s) PROVE NoZombieRegistration'
    BY <1>18 DEF LoaderStarts, objVars, workerVars
  <1>19. ASSUME NEW s \in Slots, LoaderEnds(s) PROVE NoZombieRegistration'
    BY <1>19 DEF LoaderEnds, Settled, NoRuntime, objVars, workerVars
  <1>20. ASSUME NEW s \in Slots, ProcessorUpdatesStatus(s)
         PROVE  NoZombieRegistration'
    BY <1>20 DEF ProcessorUpdatesStatus, Changed, workerVars
  <1>21. CASE OperatorRestart
    BY <1>21 DEF OperatorRestart, Absent, NoRuntime
  <1>22. CASE UNCHANGED vars
    BY <1>22 DEF vars
  <1> QED
    BY <1>1, <1>2, <1>3, <1>4, <1>5, <1>6, <1>7, <1>8, <1>9, <1>10, <1>11,
       <1>12, <1>13, <1>14, <1>15, <1>16, <1>17, <1>18, <1>19, <1>20, <1>21,
       <1>22
    DEF Next, Worker, RuntimeStep

\* A generation is marked as observed only after a runtime was started from
\* it, and no runtime of an older one is registered later.
LEMMA ObservedNext ==
  ASSUME RegistrationInv, [Next]_vars
  PROVE  ObservedInv'
  <1> USE DEF RegistrationInv, TypeOK, Object, Runtime, VersionsInv,
      WorkerInv, RuntimeInv, ObservedInv, IsObserved, SameGeneration,
      GenerationChanged, Working
  <1>1. CASE Create
    <2>1. UNCHANGED <<cache, held, pc, registry, runtime>>
      BY <1>1 DEF Create, Changed, workerVars
    <2> QED BY <1>1, <2>1, CreateEffect
  <1>2. CASE EditSpec
    BY <1>2 DEF EditSpec, Changed, workerVars
  <1>3. CASE Delete
    <2>1. UNCHANGED <<cache, held, pc, registry, runtime>>
      BY <1>3 DEF Delete, Changed, workerVars
    <2> QED BY <1>3, <2>1, DeleteEffect
  <1>4. CASE CacheSync
    BY <1>4 DEF CacheSync
  <1>5. CASE Reconcile
    BY <1>5 DEF Reconcile, Continues, serverVars
  <1>6. CASE fetchTargetSource
    BY <1>6 DEF fetchTargetSource, serverVars
  <1>7. CASE FetchFails
    BY <1>7 DEF FetchFails, Returns, Absent
  <1>8. CASE ensureFinalizer
    BY <1>8 DEF ensureFinalizer, Continues, Write, WriteFails, Returns, Absent
  <1>9. CASE CheckRegistry
    BY <1>9 DEF CheckRegistry, Continues, Returns, Absent, serverVars
  <1>10. ASSUME NEW s \in Slots, startDiscovery(s) PROVE ObservedInv'
    BY <1>10, SlotAssumption DEF startDiscovery, Continues, serverVars
  <1>11. CASE StartFails
    BY <1>11 DEF StartFails, Returns, Absent
  <1>12. CASE UpdateObservedGeneration
    BY <1>12
    DEF UpdateObservedGeneration, Write, WriteFails, Observed, Returns, Absent
  <1>13. CASE StopRuntime
    BY <1>13
    DEF StopRuntime, AfterStop, Continues, Returns, Absent, serverVars
  <1>14. CASE UnregisterRuntime
    BY <1>14
    DEF UnregisterRuntime, AfterStop, Continues, Returns, Absent, serverVars
  <1>15. CASE RemoveFinalizer
    BY <1>15 DEF RemoveFinalizer, Write, WriteFails, Returns, Absent
  <1>16. ASSUME NEW s \in Slots, ProcessorEnds(s) PROVE ObservedInv'
    BY <1>16 DEF ProcessorEnds, objVars, workerVars
  <1>17. ASSUME NEW s \in Slots, CleanupUnregisters(s) PROVE ObservedInv'
    BY <1>17 DEF CleanupUnregisters, Settled, NoRuntime, objVars, workerVars
  <1>18. ASSUME NEW s \in Slots, LoaderStarts(s) PROVE ObservedInv'
    BY <1>18 DEF LoaderStarts, objVars, workerVars
  <1>19. ASSUME NEW s \in Slots, LoaderEnds(s) PROVE ObservedInv'
    BY <1>19 DEF LoaderEnds, Settled, NoRuntime, objVars, workerVars
  <1>20. ASSUME NEW s \in Slots, ProcessorUpdatesStatus(s) PROVE ObservedInv'
    BY <1>20 DEF ProcessorUpdatesStatus, Changed, workerVars
  <1>21. CASE OperatorRestart
    BY <1>21 DEF OperatorRestart, Absent, NoRuntime
  <1>22. CASE UNCHANGED vars
    BY <1>22 DEF vars
  <1> QED
    BY <1>1, <1>2, <1>3, <1>4, <1>5, <1>6, <1>7, <1>8, <1>9, <1>10, <1>11,
       <1>12, <1>13, <1>14, <1>15, <1>16, <1>17, <1>18, <1>19, <1>20, <1>21,
       <1>22
    DEF Next, Worker, RuntimeStep

\* When the worker returns with a runtime registered and nothing queued, the
\* runtime is observed or news is on the way.
LEMMA DoneNext ==
  ASSUME RegistrationInv, [Next]_vars
  PROVE  DoneInv'
  <1> USE DEF RegistrationInv, TypeOK, Object, VersionsInv, WorkerInv,
      ObservedInv, DoneInv, Older, IsObserved, SameGeneration,
      GenerationChanged, Working
  <1>1. CASE Create
    <2>1. UNCHANGED <<cache, held, pc, dirty, registry>>
      BY <1>1 DEF Create, Changed, workerVars
    <2> QED BY <1>1, <2>1, CreateEffect
  <1>2. CASE EditSpec
    BY <1>2 DEF EditSpec, Changed, workerVars
  <1>3. CASE Delete
    <2>1. UNCHANGED <<cache, held, pc, dirty, registry>>
      BY <1>3 DEF Delete, Changed, workerVars
    <2> QED BY <1>3, <2>1, DeleteEffect
  <1>4. CASE CacheSync
    BY <1>4 DEF CacheSync
  <1>5. CASE Reconcile
    BY <1>5 DEF Reconcile, Continues, serverVars
  <1>6. CASE fetchTargetSource
    BY <1>6 DEF fetchTargetSource, serverVars
  <1>7. CASE FetchFails
    BY <1>7 DEF FetchFails, Returns, Absent
  <1>8. CASE ensureFinalizer
    BY <1>8 DEF ensureFinalizer, Continues, Write, WriteFails, Returns, Absent
  <1>9. CASE CheckRegistry
    BY <1>9 DEF CheckRegistry, Continues, Returns, Absent, serverVars
  <1>10. ASSUME NEW s \in Slots, startDiscovery(s) PROVE DoneInv'
    BY <1>10, SlotAssumption DEF startDiscovery, Continues, serverVars
  <1>11. CASE StartFails
    BY <1>11 DEF StartFails, Returns, Absent
  <1>12. CASE UpdateObservedGeneration
    BY <1>12
    DEF UpdateObservedGeneration, Write, WriteFails, Observed, Returns, Absent
  <1>13. CASE StopRuntime
    BY <1>13
    DEF StopRuntime, AfterStop, Continues, Returns, Absent, serverVars
  <1>14. CASE UnregisterRuntime
    BY <1>14
    DEF UnregisterRuntime, AfterStop, Continues, Returns, Absent, serverVars
  <1>15. CASE RemoveFinalizer
    BY <1>15 DEF RemoveFinalizer, Write, WriteFails, Returns, Absent
  <1>16. ASSUME NEW s \in Slots, ProcessorEnds(s) PROVE DoneInv'
    BY <1>16 DEF ProcessorEnds, objVars, workerVars
  <1>17. ASSUME NEW s \in Slots, CleanupUnregisters(s) PROVE DoneInv'
    BY <1>17 DEF CleanupUnregisters, Settled, NoRuntime, objVars, workerVars
  <1>18. ASSUME NEW s \in Slots, LoaderStarts(s) PROVE DoneInv'
    BY <1>18 DEF LoaderStarts, objVars, workerVars
  <1>19. ASSUME NEW s \in Slots, LoaderEnds(s) PROVE DoneInv'
    BY <1>19 DEF LoaderEnds, Settled, NoRuntime, objVars, workerVars
  <1>20. ASSUME NEW s \in Slots, ProcessorUpdatesStatus(s) PROVE DoneInv'
    BY <1>20 DEF ProcessorUpdatesStatus, Changed, workerVars
  <1>21. CASE OperatorRestart
    BY <1>21 DEF OperatorRestart, Absent, NoRuntime
  <1>22. CASE UNCHANGED vars
    BY <1>22 DEF vars
  <1> QED
    BY <1>1, <1>2, <1>3, <1>4, <1>5, <1>6, <1>7, <1>8, <1>9, <1>10, <1>11,
       <1>12, <1>13, <1>14, <1>15, <1>16, <1>17, <1>18, <1>19, <1>20, <1>21,
       <1>22
    DEF Next, Worker, RuntimeStep

\* The operator starts without a TargetSource and without runtimes.
LEMMA RegistrationInit == Init => RegistrationInv
  <1> SUFFICES ASSUME Init PROVE RegistrationInv
    OBVIOUS
  <1>1. FlagsOK
    BY Zenon DEF Init, FlagsOK
  <1>2. ValuesOK
    <2>1. obj \in Object /\ cache \in Object /\ held \in Object
      BY AbsentTyped, Zenon DEF Init
    <2>2. runtime \in [Slots -> Runtime]
      BY RuntimesTyped DEF Init
    <2> QED BY <2>1, <2>2, BoundAssumption DEF Init, ValuesOK, PCs
  <1>3. obj = cache /\ ~obj.exists /\ obj.obs = 0 /\ obj.gen = 0 /\ obj.uid = 0
    BY DEF Init, Absent
  <1>4. pc = "idle" /\ ~heldFresh /\ registry = NoSlot
    BY DEF Init
  <1>5. TypeOK
    BY <1>1, <1>2 DEF TypeOK, FlagsOK, ValuesOK
  <1> QED
    BY <1>3, <1>4, <1>5
    DEF RegistrationInv, VersionsInv, WorkerInv, RuntimeInv, ObservedInv,
        DoneInv, NoZombieRegistration, Older, IsObserved, SameGeneration,
        GenerationChanged, Working

\* RegistrationInv is inductive.
LEMMA RegistrationNext ==
  RegistrationInv /\ [Next]_vars => RegistrationInv'
  <1> SUFFICES ASSUME RegistrationInv, [Next]_vars PROVE RegistrationInv'
    OBVIOUS
  <1>1. TypeOK'
    <2>1. TypeOK
      BY DEF RegistrationInv
    <2>2. FlagsOK' /\ ValuesOK'
      BY <2>1, FlagsNext, ValuesNext
    <2> QED BY <2>2 DEF TypeOK, FlagsOK, ValuesOK
  <1> QED
    BY <1>1, VersionsNext, WorkerNext, RuntimeNext, ZombieNext, ObservedNext,
       DoneNext
    DEF RegistrationInv

\* RegistrationInv holds in every reachable state, for any number of runtimes
\* alive at a time, any number of generations, recreations, status updates,
\* failures and restarts.
THEOREM RegistrationCorrect == Spec => []RegistrationInv
  BY RegistrationInit, RegistrationNext, PTL DEF Spec

\* Type correctness of the controller, its registry and its runtimes.
THEOREM ControllerTypeCorrect == Spec => []TypeOK
  <1>1. RegistrationInv => TypeOK
    BY DEF RegistrationInv
  <1> QED BY <1>1, RegistrationCorrect, PTL

\* reconcile, startDiscovery and the cleanup of a runtime together never leave
\* an outdated runtime registered once the controller has settled: it runs the
\* observed generation of the object that exists now.
THEOREM CurrentRuntime == Spec => []RegisteredRuntimeIsCurrent
  <1>1. RegistrationInv => RegisteredRuntimeIsCurrent
    <2> SUFFICES ASSUME RegistrationInv, Quiet, registry # NoSlot
                 PROVE  /\ obj.exists /\ ~obj.deleting
                        /\ obj.obs = obj.gen
                        /\ runtime[registry].uid = obj.uid
                        /\ runtime[registry].gen = obj.gen
      BY DEF RegisteredRuntimeIsCurrent
    <2>1. cache = obj /\ ~GenerationChanged(cache, obj)
      BY DEF RegistrationInv, VersionsInv, Quiet, GenerationChanged
    <2>2. IsObserved(obj) /\ ~obj.deleting
      BY <2>1 DEF RegistrationInv, DoneInv, Quiet
    <2> QED BY <2>2 DEF RegistrationInv, ObservedInv, IsObserved
  <1> QED BY <1>1, RegistrationCorrect, PTL

\* ensureFinalizer and removeFinalizer never leave a settled, registered
\* runtime without the finalizer that announces the object's deletion.
THEOREM FinalizerHeld == Spec => []RegisteredHoldsFinalizer
  <1>1. RegistrationInv => RegisteredHoldsFinalizer
    <2> SUFFICES ASSUME RegistrationInv, Quiet, registry # NoSlot PROVE obj.fin
      BY DEF RegisteredHoldsFinalizer
    <2>1. ~GenerationChanged(cache, obj)
      BY DEF RegistrationInv, VersionsInv, Quiet, GenerationChanged
    <2>2. IsObserved(obj)
      BY <2>1 DEF RegistrationInv, DoneInv, Quiet
    <2> QED BY <2>2 DEF RegistrationInv, ObservedInv
  <1> QED BY <1>1, RegistrationCorrect, PTL

\* A runtime that was cancelled is in the registry only until the worker or
\* its own cleanup takes the next step that unregisters it.
THEOREM NoZombies == Spec => []NoZombieRegistration
  <1>1. RegistrationInv => NoZombieRegistration
    BY DEF RegistrationInv
  <1> QED BY <1>1, RegistrationCorrect, PTL
=============================================================================
