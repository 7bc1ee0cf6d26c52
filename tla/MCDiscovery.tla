----------------------------- MODULE MCDiscovery ----------------------------
(***************************************************************************)
(* Small instances of DiscoveryPipeline.                                   *)
(***************************************************************************)
EXTENDS DiscoveryPipeline, TLC

CONSTANTS a, b, u1

T(n, p) == [name |-> n, port |-> p]
OnePage(items) == [u \in {u1} |-> [items |-> items, next |-> NoNext]]
Event(act, t) == [type |-> "event", action |-> act, target |-> t]
PushChunk(i, n, ts) ==
  [type |-> "snapshot", id |-> PushID, index |-> i, total |-> n, targets |-> ts]

MCSources ==
  {OnePage(<<T(a, 0)>>), OnePage(<<T(a, 1), T(b, 0)>>)}

\* The source may also answer with an empty list.
MCSourcesLive == {OnePage(<<>>), OnePage(<<T(a, 1)>>), OnePage(<<T(b, 0)>>)}

\* An answer that does not change.
MCSourcesTwo == {OnePage(<<T(a, 1), T(b, 0)>>)}

NoTargets == [n \in CRNames |-> NoTarget]
MCInitialTargets == {NoTargets, [NoTargets EXCEPT ![<<TSName, b>>] = 1]}
MCInitialOld == {[NoTargets EXCEPT ![<<TSName, b>>] = 1]}
MCInitialEmpty == {NoTargets}

MCPushBatches ==
  {<<Event("apply", T(b, 1)), Event("delete", T(a, 0))>>,
   <<PushChunk(1, 2, <<T(b, 1)>>)>>,
   <<PushChunk(2, 2, <<T(b, 1)>>)>>}
MCPushBad == {<<PushChunk(2, 2, <<T(b, 0)>>)>>}
MCPushEvents ==
  {<<Event("apply", T(b, 1))>>, <<Event("delete", T(a, 0))>>}

Symmetry == Permutations(IDs)
=============================================================================
