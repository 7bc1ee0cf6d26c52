--------------------------- MODULE PlacementProofs --------------------------
(***************************************************************************)
(* Proofs about Placement: the hard ceiling, the uniqueness of the         *)
(* assignment, the exact size of the overflow and the stability of the     *)
(* assignment between rounds, for any targets, hash functions, capacities  *)
(* and numbers of pods, over any number of rounds.                         *)
(***************************************************************************)
EXTENDS Placement, FiniteSetTheorems, TLAPS

\* Sets of targets are finite, so their sizes are numbers.
LEMMA TargetsFinite ==
  ASSUME NEW S \in SUBSET Names
  PROVE  IsFiniteSet(S) /\ Cardinality(S) \in Nat
  BY NamesAssumption, FS_Subset, FS_CardinalityType

\* There is at least one pod, no pod index beyond the bound, and the capacity
\* is a number also when it is derived.
LEMMA OptionsTyped ==
  ASSUME TypeOK
  PROVE  /\ numPods \in Nat \ {0} /\ numPods <= MaxPods
         /\ Pods \subseteq PodIdx
         /\ capacity \in Nat
  <1>1. numPods \in Nat \ {0} /\ numPods <= MaxPods
    BY PodsAssumption DEF TypeOK, numPods
  <1>2. Pods \subseteq PodIdx
    BY <1>1, PodsAssumption DEF Pods, PodIdx
  <1>3. Cardinality(targets) \in Nat
    BY TargetsFinite DEF TypeOK
  <1>4. podCapacity \in Nat
    BY CapacityAssumption DEF TypeOK
  <1>5. capacity \in Nat
    BY <1>1, <1>3, <1>4 DEF capacity
  <1> QED BY <1>1, <1>2, <1>5

\* The start of a round: nothing assigned.
LEMMA EmptyRound ==
  ASSUME TypeOK, assignments = NoAssignment, toPlace = targets
  PROVE  PlacementInv
  <1>1. \A p \in PodIdx : assignments[p] = {}
    BY DEF NoAssignment
  <1>2. capacity \in Nat
    BY OptionsTyped
  <1>3. Cardinality({}) = 0
    BY FS_EmptySet
  <1>4. CapacityRespected
    BY <1>1, <1>2, <1>3 DEF CapacityRespected
  <1>5. AssignedOnce
    BY <1>1 DEF AssignedOnce, Placed
  <1> QED BY <1>1, <1>4, <1>5 DEF PlacementInv

\* The first round starts with nothing assigned.
LEMMA PlacementInit == Init => PlacementInv
  <1> SUFFICES ASSUME Init PROVE PlacementInv
    OBVIOUS
  <1>1. repeated \in BOOLEAN
    BY Zenon DEF Init
  <1>2. TypeOK
    BY <1>1 DEF Init, TypeOK, NoAssignment
  <1> QED BY <1>2, EmptyRound DEF Init

\* A pod keeps targets that report it, no more than the capacity.
LEMMA KeepPreserves ==
  ASSUME PlacementInv, NEW p \in PodIdx, KeepCurrent(p)
  PROVE  PlacementInv'
  <1>0. TypeOK /\ capacity \in Nat /\ numPods \in Nat
    BY OptionsTyped DEF PlacementInv
  <1>1. UNCHANGED <<inputs, capacity, numPods, toPlace, phase, repeated>>
        /\ phase = "keep"
    BY DEF KeepCurrent, inputs, capacity, numPods
  <1>2. \A q \in PodIdx : currentOn(q)' = currentOn(q)
    BY <1>1 DEF currentOn, inputs
  <1>3. CASE UNCHANGED assignments
    <2>1. TypeOK'
      BY <1>0, <1>1, <1>3 DEF TypeOK, KeepCurrent, inputs
    <2> QED BY <1>1, <1>2, <1>3, <2>1
        DEF PlacementInv, CapacityRespected, AssignedOnce, Placed, Pods,
            currentOn, inputs
  <1>4. ASSUME NEW kept \in SUBSET currentOn(p), keeps(p, kept), ~gone(p),
               assignments' = [assignments EXCEPT ![p] = kept]
        PROVE  PlacementInv'
    <2>1. /\ assignments'[p] = kept
          /\ \A q \in PodIdx \ {p} : assignments'[q] = assignments[q]
      BY <1>0, <1>4 DEF TypeOK
    <2>2. kept \in SUBSET Names /\ Cardinality(kept) <= capacity
      BY <1>0, <1>4 DEF keeps, currentOn, TypeOK
    <2>3. TypeOK'
      BY <1>0, <1>1, <1>4, <2>2 DEF TypeOK, KeepCurrent, inputs
    <2>4. CapacityRespected'
      BY <1>1, <2>1, <2>2 DEF PlacementInv, CapacityRespected
    <2>5. \A q \in PodIdx : assignments'[q] \subseteq currentOn(q)
      BY <1>1, <1>4, <2>1 DEF PlacementInv
    <2>6. AssignedOnce'
      <3>1. \A q, r \in PodIdx :
              assignments'[q] \cap assignments'[r] \subseteq currentOn(q)' \cap currentOn(r)'
        BY <1>2, <2>5
      <3>2. p \in Pods
        BY <1>0, <1>4, PodsAssumption DEF Pods, PodIdx, gone
      <3>3. \A q \in PodIdx : assignments'[q] # {} => q \in Pods
        BY <2>1, <3>2 DEF PlacementInv, AssignedOnce
      <3>4. UNION {assignments'[q] : q \in PodIdx} \subseteq targets
        BY <2>5 DEF currentOn
      <3> QED BY <1>1, <3>1, <3>3, <3>4 DEF AssignedOnce, Placed, Pods, inputs
    <2> QED BY <1>1, <1>2, <2>3, <2>4, <2>5, <2>6 DEF PlacementInv, inputs
  <1> QED BY <1>3, <1>4 DEF KeepCurrent, gone

\* A target goes to a pod that has room, and only if no pod has it.
LEMMA PlacePreserves ==
  ASSUME PlacementInv, NEW t \in Names, PlaceTarget(t)
  PROVE  PlacementInv'
  <1>0. TypeOK /\ capacity \in Nat /\ Pods \subseteq PodIdx
    BY OptionsTyped DEF PlacementInv
  <1>1. /\ UNCHANGED <<inputs, capacity, numPods, phase, repeated>>
        /\ phase' = "place" /\ t \in targets
    BY DEF PlaceTarget, inputs, capacity, numPods, PlacementInv
  <1>2. toPlace' \subseteq targets'
    BY <1>1 DEF PlaceTarget, PlacementInv, inputs
  <1>3. CASE UNCHANGED assignments
    <2>1. TypeOK'
      BY <1>0, <1>1, <1>3 DEF TypeOK, PlaceTarget, inputs
    <2> QED BY <1>1, <1>2, <1>3, <2>1
        DEF PlacementInv, CapacityRespected, AssignedOnce, Placed, Pods,
            currentOn, inputs
  <1>4. ASSUME NEW p \in PodIdx, boundedRendezvousHash(t, p), t \notin Placed,
               assignments' = [assignments EXCEPT ![p] = @ \cup {t}]
        PROVE  PlacementInv'
    <2>1. /\ assignments'[p] = assignments[p] \cup {t}
          /\ \A q \in PodIdx \ {p} : assignments'[q] = assignments[q]
      BY <1>0, <1>4 DEF TypeOK
    <2>2. p \in Pods /\ Cardinality(assignments[p]) < capacity
      BY <1>4 DEF boundedRendezvousHash, hasRoom
    <2>3. TypeOK'
      BY <1>0, <1>1, <1>4 DEF TypeOK, PlaceTarget, inputs
    <2>4. Cardinality(assignments'[p]) <= capacity
      <3>1. IsFiniteSet(assignments[p]) /\ Cardinality(assignments[p]) \in Nat
        BY <1>0, TargetsFinite DEF TypeOK
      <3>2. t \notin assignments[p]
        BY <1>4 DEF Placed
      <3>3. Cardinality(assignments[p] \cup {t}) = Cardinality(assignments[p]) + 1
        BY <3>1, <3>2, FS_AddElement
      <3> QED BY <1>0, <2>1, <2>2, <3>1, <3>3
    <2>5. CapacityRespected'
      BY <1>1, <2>1, <2>4 DEF PlacementInv, CapacityRespected
    <2>6. AssignedOnce'
      <3>1. \A q \in PodIdx : t \notin assignments[q]
        BY <1>4 DEF Placed
      <3>2. \A q, r \in PodIdx :
              q # r => assignments'[q] \cap assignments'[r]
                         \subseteq currentOn(q)' \cap currentOn(r)'
        <4>1. \A q \in PodIdx : currentOn(q)' = currentOn(q)
          BY <1>1 DEF currentOn, inputs
        <4>2. \A q, r \in PodIdx :
                q # r => assignments'[q] \cap assignments'[r]
                           = assignments[q] \cap assignments[r]
          BY <2>1, <3>1
        <4> QED BY <4>1, <4>2 DEF PlacementInv, AssignedOnce
      <3>3. \A q \in PodIdx : assignments'[q] # {} => q \in Pods
        BY <2>1, <2>2 DEF PlacementInv, AssignedOnce
      <3>4. UNION {assignments'[q] : q \in PodIdx} \subseteq targets
        BY <1>1, <2>1 DEF PlacementInv, AssignedOnce, Placed
      <3> QED BY <1>1, <3>2, <3>3, <3>4 DEF AssignedOnce, Placed, Pods, inputs
    <2> QED BY <1>1, <1>2, <2>3, <2>5, <2>6 DEF PlacementInv
  <1> QED BY <1>3, <1>4 DEF PlaceTarget

\* PlacementInv is inductive.
LEMMA PlacementNext == PlacementInv /\ [Next]_vars => PlacementInv'
  <1> SUFFICES ASSUME PlacementInv, [Next]_vars PROVE PlacementInv'
    OBVIOUS
  <1>0. TypeOK
    BY DEF PlacementInv
  <1>1. CASE KeepDone \/ PlaceDone \/ UNCHANGED vars
    <2>1. UNCHANGED <<inputs, toPlace, assignments, repeated, toKeep>>
          /\ phase' \in {phase, "place", "done"}
      BY <1>1 DEF KeepDone, PlaceDone, vars
    <2>2. UNCHANGED <<capacity, numPods>>
      BY <2>1 DEF inputs, capacity, numPods
    <2>3. TypeOK'
      BY <1>0, <2>1 DEF TypeOK, inputs
    <2> QED BY <2>1, <2>2, <2>3
        DEF PlacementInv, CapacityRespected, AssignedOnce, Placed, Pods,
            currentOn, inputs
  <1>2. CASE NextRound
    <2>1. repeated' \in BOOLEAN
      BY <1>2, Zenon DEF NextRound
    <2>2. reported(targets') \in [Names -> SUBSET PodIdx]
      BY DEF reported
    <2>3. current' \in [Names -> SUBSET PodIdx]
      <3>1. \A t \in Names : current[t] \cup reported(targets')[t] \subseteq PodIdx
        BY <1>0, <2>2 DEF TypeOK
      <3>2. targets' \subseteq Names
        BY <1>2 DEF NextRound
      <3>3. CASE current' = reported(targets')
        BY <2>2, <3>3
      <3>4. ASSUME NEW t \in targets',
                   NEW seen \in SUBSET (current[t] \cup reported(targets')[t]),
                   current' = [reported(targets') EXCEPT ![t] = seen]
            PROVE  current' \in [Names -> SUBSET PodIdx]
        BY <2>2, <3>1, <3>2, <3>4
      <3> QED BY <1>2, <3>3, <3>4 DEF NextRound
    <2>4. /\ phase' = "keep" /\ assignments' = NoAssignment
          /\ toPlace' = targets' /\ toKeep' \in SUBSET PodIdx
      BY <1>2 DEF NextRound, RoundStarts
    <2>5. TypeOK'
      <3>1. assignments' \in [PodIdx -> SUBSET Names]
        BY <2>4 DEF NoAssignment
      <3>2. /\ score' \in Scores /\ replicas' \in 0..MaxPods
            /\ podCapacity' \in Capacities /\ targets' \in SUBSET Names
        BY <1>0, <1>2 DEF NextRound, TypeOK
      <3> QED BY <2>1, <2>3, <2>4, <3>1, <3>2 DEF TypeOK
    <2>6. (TypeOK /\ assignments = NoAssignment /\ toPlace = targets => PlacementInv)'
      BY EmptyRound, PTL
    <2> QED BY <2>4, <2>5, <2>6 DEF NoAssignment
  <1> QED BY <1>1, <1>2, KeepPreserves, PlacePreserves DEF Next

\* The invariant holds in every round.
THEOREM PlacementCorrect == Spec => []PlacementInv
  BY PlacementInit, PlacementNext, PTL DEF Spec

\* No pod ever holds more targets than its capacity.
THEOREM HardCeiling == Spec => []CapacityRespected
  <1>1. PlacementInv => CapacityRespected
    BY DEF PlacementInv
  <1> QED BY <1>1, PlacementCorrect, PTL

\* No round gives a target to a second pod: two pods have a target only if
\* both were reported for it. No pod that does not exist gets one.
THEOREM UniqueAssignment == Spec => []AssignedOnce
  <1>1. PlacementInv => AssignedOnce
    BY DEF PlacementInv
  <1> QED BY <1>1, PlacementCorrect, PTL

\* Counting: pods with at most c places taken each, none shared, have together
\* at most c for every pod, and exactly that many when every pod has c.
LEMMA TotalLoad ==
  ASSUME NEW I, IsFiniteSet(I), NEW A, NEW c \in Nat,
         \A p \in I : IsFiniteSet(A[p]),
         \A p \in I : Cardinality(A[p]) <= c,
         \A p, q \in I : p # q => A[p] \cap A[q] = {}
  PROVE  LET all == UNION {A[p] : p \in I}
         IN  /\ Cardinality(all) <= Cardinality(I) * c
             /\ (\A p \in I : Cardinality(A[p]) = c) =>
                  Cardinality(all) = Cardinality(I) * c
  <1> DEFINE all == UNION {A[p] : p \in I}
             size(p) == Cardinality(A[p])
             slots == I \X (1..c)
             used == {s \in slots : s[2] <= size(s[1])}
             bij(p) == CHOOSE f : f \in Bijection(1..size(p), A[p])
             g == [s \in used |-> bij(s[1])[s[2]]]
  <1>1. \A p \in I : size(p) \in Nat /\ bij(p) \in Bijection(1..size(p), A[p])
    <2> TAKE p \in I
    <2>1. IsFiniteSet(A[p])
      OBVIOUS
    <2>2. size(p) \in Nat /\ ExistsBijection(1..size(p), A[p])
      BY <2>1, FS_CardinalityType
    <2> QED BY <2>2 DEF ExistsBijection
  <1>2. IsFiniteSet(slots) /\ Cardinality(slots) = Cardinality(I) * c
    <2>1. IsFiniteSet(1..c) /\ Cardinality(1..c) = c
      BY FS_Interval
    <2> QED BY <2>1, FS_Product
  <1>3. IsFiniteSet(used) /\ Cardinality(used) <= Cardinality(slots)
    BY <1>2, FS_Subset
  <1>4. \A p \in I, i \in 1..c : <<p, i>> \in slots
    OBVIOUS
  <1>5. \A p \in I, i \in 1..c : i <= size(p) =>
          /\ <<p, i>> \in used
          /\ g[<<p, i>>] = bij(p)[i]
          /\ g[<<p, i>>] \in A[p]
    <2> TAKE p \in I, i \in 1..c
    <2> HAVE i <= size(p)
    <2>1. <<p, i>> \in used
      OBVIOUS
    <2>2. g[<<p, i>>] = bij(p)[i]
      BY <2>1
    <2>3. i \in 1..size(p)
      BY <1>1
    <2>4. bij(p)[i] \in A[p]
      BY <1>1, <2>3 DEF Bijection, Injection
    <2> QED BY <2>1, <2>2, <2>4
  <1>6. \A s \in used : \E p \in I, i \in 1..c : s = <<p, i>> /\ i <= size(p)
    OBVIOUS
  <1>7. g = [s \in used |-> g[s]] /\ used \subseteq slots
    OBVIOUS
  <1> HIDE DEF g, bij, used, size
  <1>8. g \in [used -> all]
    <2>1. \A s \in used : g[s] \in all
      BY <1>5, <1>6
    <2> HIDE DEF all
    <2> QED BY <1>7, <2>1
  <1>9. \A t \in all : \E s \in used : g[s] = t
    <2> TAKE t \in all
    <2>1. PICK p \in I : t \in A[p]
      OBVIOUS
    <2>2. PICK i \in 1..size(p) : bij(p)[i] = t
      BY <1>1, <2>1 DEF Bijection, Surjection
    <2>3. i \in 1..c /\ i <= size(p)
      BY <1>1, <2>2 DEF size
    <2> QED BY <1>5, <2>2, <2>3
  <1>10. g \in Surjection(used, all)
    BY <1>8, <1>9 DEF Surjection
  <1>11. IsFiniteSet(all) /\ Cardinality(all) <= Cardinality(used)
    BY <1>3, <1>10, FS_Surjection
  <1>12. Cardinality(all) \in Nat /\ Cardinality(used) \in Nat
         /\ Cardinality(slots) \in Nat
    BY <1>2, <1>3, <1>11, FS_CardinalityType
  <1>13. Cardinality(all) <= Cardinality(I) * c
    BY <1>2, <1>3, <1>11, <1>12
  <1>14. ASSUME \A p \in I : Cardinality(A[p]) = c
         PROVE  Cardinality(all) = Cardinality(I) * c
    <2>1. used = slots
      BY <1>14 DEF used, size
    <2>2. \A r, s \in used : g[r] = g[s] => r = s
      <3> SUFFICES ASSUME NEW p \in I, NEW i \in 1..c, i <= size(p),
                          NEW q \in I, NEW j \in 1..c, j <= size(q),
                          g[<<p, i>>] = g[<<q, j>>]
                   PROVE  p = q /\ i = j
        BY <1>6
      <3>1. p = q
        BY <1>5
      <3>2. bij(p)[i] = bij(p)[j] /\ i \in 1..size(p) /\ j \in 1..size(p)
        BY <1>1, <1>5, <3>1
      <3>3. i = j
        BY <1>1, <3>2 DEF Bijection, Injection, IsInjective
      <3> QED BY <3>1, <3>3
    <2>3. g \in Bijection(used, all)
      BY <1>8, <1>10, <2>2 DEF Bijection, Injection, IsInjective
    <2>4. Cardinality(all) = Cardinality(used)
      BY <1>3, <2>3, FS_Bijection DEF ExistsBijection
    <2> QED BY <1>2, <2>1, <2>4
  <1> QED BY <1>13, <1>14

\* The start of a round: no pod has been looked at but those without targets.
LEMMA StickyStart ==
  ASSUME PlacementInv, phase = "keep", toPlace = targets,
         assignments = NoAssignment,
         toKeep = {p \in PodIdx : \E t \in targets : p \in current[t]}
  PROVE  KeptInv /\ OverflowInv
  <1>1. \A p \in PodIdx : assignments[p] = {}
    BY DEF NoAssignment
  <1>2. \A p \in PodIdx \ toKeep : currentOn(p) = {}
    BY DEF currentOn
  <1>3. Pods \subseteq PodIdx
    BY OptionsTyped DEF PlacementInv
  <1>4. toKeep \subseteq PodIdx
    OBVIOUS
  <1>5. KeptInv
    BY <1>1, <1>2, <1>3, <1>4 DEF KeptInv
  <1>6. OverflowInv
    BY DEF OverflowInv, Unassigned
  <1> QED BY <1>5, <1>6

\* The first round is not a repeated one.
LEMMA StickyInit == Init => StickyInv
  <1> SUFFICES ASSUME Init PROVE StickyInv
    OBVIOUS
  <1>1. PlacementInv
    BY PlacementInit
  <1>2. KeptInv /\ OverflowInv
    BY <1>1, StickyStart DEF Init
  <1>3. RepeatInv
    BY Zenon DEF Init, RepeatInv
  <1> QED BY <1>1, <1>2, <1>3 DEF StickyInv

\* A pod keeps all its targets, or as many of the best as it may hold.
LEMMA KeepSticky ==
  ASSUME StickyInv, NEW p \in PodIdx, KeepCurrent(p)
  PROVE  KeptInv' /\ OverflowInv' /\ RepeatInv'
  <1>0. /\ PlacementInv /\ KeptInv /\ OverflowInv /\ RepeatInv /\ TypeOK
        /\ capacity \in Nat /\ Pods \subseteq PodIdx /\ numPods \in Nat
        /\ assignments \in [PodIdx -> SUBSET Names]
    BY OptionsTyped DEF StickyInv, PlacementInv, TypeOK
  <1>1. /\ UNCHANGED <<inputs, capacity, numPods, Pods, toPlace, phase, repeated>>
        /\ phase = "keep" /\ p \in toKeep /\ toKeep' = toKeep \ {p}
    BY DEF KeepCurrent, inputs, capacity, numPods, Pods
  <1>2. \A q \in PodIdx : currentOn(q)' = currentOn(q)
    BY <1>1 DEF currentOn, inputs
  <1>3. \A q \in PodIdx \ {p} : assignments'[q] = assignments[q]
    BY <1>0 DEF KeepCurrent
  <1>4. assignments[p] = {} /\ (p \in Pods <=> ~gone(p))
    BY <1>0, <1>1, PodsAssumption DEF KeptInv, Pods, gone, PodIdx
  <1>5. \/ ~gone(p) /\ keeps(p, assignments'[p])
        \/ gone(p) /\ assignments'[p] = {}
    BY <1>0, <1>4 DEF KeepCurrent
  <1>6. Cardinality(currentOn(p)) \in Nat
    BY <1>0, TargetsFinite DEF currentOn, TypeOK
  <1>7. KeptInv'
    <2>1. \A q \in toKeep' : assignments'[q] = {}
      BY <1>0, <1>1, <1>3 DEF KeptInv, TypeOK
    <2>2. p \in Pods =>
            \/ currentOn(p) \subseteq assignments'[p]
            \/ /\ Cardinality(currentOn(p)) > capacity
               /\ assignments'[p] \subseteq currentOn(p)
               /\ Cardinality(assignments'[p]) = capacity
               /\ \A t \in assignments'[p], u \in currentOn(p) \ assignments'[p] :
                    score[t][p] >= score[u][p]
      BY <1>4, <1>5 DEF keeps
    <2> QED BY <1>0, <1>1, <1>2, <1>3, <2>1, <2>2 DEF KeptInv, inputs
  <1>8. OverflowInv'
    BY <1>0, <1>1 DEF OverflowInv, Unassigned, inputs
  <1>9. RepeatInv'
    <2> SUFFICES ASSUME repeated
                 PROVE  /\ \A q \in PodIdx : Cardinality(currentOn(q)) <= capacity
                        /\ \A q \in PodIdx \ Pods : currentOn(q) = {}
                        /\ \/ \A t \in targets : current[t] # {}
                           \/ \A q \in Pods : Cardinality(currentOn(q)) = capacity
                        /\ \A q \in PodIdx \ toKeep' : assignments'[q] = currentOn(q)
      BY <1>0, <1>1, <1>2 DEF RepeatInv, inputs
    <2>1. assignments'[p] = currentOn(p)
      BY <1>0, <1>4, <1>5, <1>6 DEF RepeatInv, keeps
    <2> QED BY <1>0, <1>1, <1>3, <2>1 DEF RepeatInv
  <1> QED BY <1>7, <1>8, <1>9

\* A target is placed on a pod with room, so on one that kept all it had; in a
\* repeated round there is either no such target or no such pod.
LEMMA PlaceSticky ==
  ASSUME StickyInv, NEW t \in Names, PlaceTarget(t)
  PROVE  KeptInv' /\ OverflowInv' /\ RepeatInv'
  <1>0. /\ PlacementInv /\ KeptInv /\ OverflowInv /\ RepeatInv /\ TypeOK
        /\ capacity \in Nat /\ Pods \subseteq PodIdx
        /\ assignments \in [PodIdx -> SUBSET Names]
    BY OptionsTyped DEF StickyInv, PlacementInv, TypeOK
  <1>1. /\ UNCHANGED <<inputs, capacity, numPods, Pods, toKeep, phase, repeated>>
        /\ phase = "place" /\ t \in toPlace /\ toPlace' = toPlace \ {t}
        /\ toKeep = {} /\ t \in targets
    BY <1>0
    DEF PlaceTarget, inputs, capacity, numPods, Pods, KeptInv, PlacementInv
  <1>2. \A q \in PodIdx : currentOn(q)' = currentOn(q)
    BY <1>1 DEF currentOn, inputs
  <1>3. CASE UNCHANGED assignments
    <2>1. KeptInv'
      BY <1>0, <1>1, <1>2, <1>3 DEF KeptInv, inputs
    <2>2. RepeatInv'
      BY <1>0, <1>1, <1>2, <1>3 DEF RepeatInv, inputs
    <2>3. UNCHANGED <<Placed, Full, targets>>
      BY <1>1, <1>3 DEF Placed, Full, inputs
    <2>4. t \in Placed \/ Full
      <3> SUFFICES ASSUME t \notin Placed, NEW p \in Pods
                   PROVE  Cardinality(assignments[p]) = capacity
        BY DEF Full
      <3>1. Cardinality(assignments[p]) \in Nat
        BY <1>0, TargetsFinite
      <3>2. Cardinality(assignments[p]) <= capacity
        BY <1>0 DEF PlacementInv, CapacityRespected
      <3>3. ~hasRoom(p)
        <4> SUFFICES ASSUME NEW q \in PodIdx,
                            assignments' = [assignments EXCEPT ![q] = @ \cup {t}]
                     PROVE  FALSE
          BY DEF PlaceTarget
        <4>1. t \in assignments'[q]
          BY <1>0
        <4> QED BY <1>3, <4>1 DEF Placed
      <3> QED BY <1>0, <3>1, <3>2, <3>3 DEF hasRoom
    <2>5. OverflowInv'
      BY <1>0, <1>1, <2>3, <2>4 DEF OverflowInv, Unassigned
    <2> QED BY <2>1, <2>2, <2>5
  <1>4. ASSUME NEW p \in PodIdx, boundedRendezvousHash(t, p), t \notin Placed,
               assignments' = [assignments EXCEPT ![p] = @ \cup {t}]
        PROVE  KeptInv' /\ OverflowInv' /\ RepeatInv'
    <2>1. /\ assignments'[p] = assignments[p] \cup {t}
          /\ \A q \in PodIdx \ {p} : assignments'[q] = assignments[q]
      BY <1>0, <1>4
    <2>2. p \in Pods /\ Cardinality(assignments[p]) < capacity
      BY <1>4 DEF boundedRendezvousHash, hasRoom
    <2>3. Cardinality(assignments[p]) \in Nat
      BY <1>0, TargetsFinite
    <2>4. KeptInv'
      <3>1. currentOn(p) \subseteq assignments'[p]
        BY <1>0, <1>1, <2>1, <2>2, <2>3 DEF KeptInv
      <3> QED BY <1>0, <1>1, <1>2, <2>1, <3>1 DEF KeptInv, inputs
    <2>5. OverflowInv'
      <3>1. ~Full
        BY <1>0, <2>2, <2>3 DEF Full
      <3>2. Placed' = Placed \cup {t}
        BY <1>0, <2>1 DEF Placed
      <3> QED BY <1>0, <1>1, <3>1, <3>2 DEF OverflowInv, Unassigned, inputs
    <2>6. ~repeated
      <3> SUFFICES ASSUME repeated PROVE FALSE
        OBVIOUS
      <3>1. \A q \in PodIdx : assignments[q] = currentOn(q)
        BY <1>0, <1>1 DEF RepeatInv
      <3>2. \A q \in PodIdx : q \notin current[t]
        BY <1>1, <1>4, <3>1 DEF currentOn, Placed
      <3>3. current[t] = {}
        BY <1>0, <3>2 DEF TypeOK
      <3>4. Cardinality(currentOn(p)) = capacity
        BY <1>0, <1>1, <2>2, <3>3 DEF RepeatInv
      <3> QED BY <1>0, <2>2, <2>3, <3>1, <3>4
    <2>7. RepeatInv'
      BY <1>1, <2>6, Zenon DEF RepeatInv
    <2> QED BY <2>4, <2>5, <2>7
  <1> QED BY <1>3, <1>4 DEF PlaceTarget

\* What the targets report after a round is the assignment of that round.
LEMMA ReportedIsAssigned ==
  ASSUME PlacementInv, NEW p \in PodIdx
  PROVE  {t \in targets : p \in reported(targets)[t]} = assignments[p]
  <1>1. targets \subseteq Names /\ assignments[p] \subseteq targets
    BY DEF PlacementInv, TypeOK, AssignedOnce, Placed
  <1>2. \A t \in targets : reported(targets)[t] = {q \in PodIdx : t \in assignments[q] \cap targets}
    BY <1>1 DEF reported
  <1> QED BY <1>1, <1>2

\* A repeated round starts from an assignment within all the limits, in which
\* every target has a pod or every pod is full.
LEMMA RoundSticky ==
  ASSUME StickyInv, PlacementInv', NextRound
  PROVE  KeptInv' /\ OverflowInv' /\ RepeatInv'
  <1>0. /\ PlacementInv /\ OverflowInv /\ TypeOK
        /\ CapacityRespected /\ AssignedOnce
    BY DEF StickyInv, PlacementInv
  <1>1. /\ phase' = "keep" /\ toPlace' = targets' /\ assignments' = NoAssignment
        /\ toKeep' = {p \in PodIdx : \E t \in targets' : p \in current'[t]}
    BY DEF NextRound, RoundStarts
  <1>2. KeptInv' /\ OverflowInv'
    <2>1. (PlacementInv /\ phase = "keep" /\ toPlace = targets
           /\ assignments = NoAssignment
           /\ toKeep = {p \in PodIdx : \E t \in targets : p \in current[t]}
             => KeptInv /\ OverflowInv)'
      BY StickyStart, PTL
    <2> QED BY <1>1, <2>1 DEF NoAssignment
  <1>3. RepeatInv'
    <2> SUFFICES ASSUME repeated'
                 PROVE  RepeatInv'
      BY DEF RepeatInv
    <2>1. UNCHANGED <<targets, replicas, podCapacity>> /\ current' = reported(targets)
      BY Zenon DEF NextRound
    <2>2. UNCHANGED <<capacity, numPods, Pods>>
      BY <2>1 DEF capacity, numPods, Pods
    <2>3. \A p \in PodIdx : currentOn(p)' = assignments[p]
      BY <1>0, <2>1, ReportedIsAssigned DEF currentOn
    <2>4. \A p \in PodIdx : (Cardinality(currentOn(p)) <= capacity)'
      BY <1>0, <2>2, <2>3 DEF CapacityRespected
    <2>5. \A p \in PodIdx \ Pods' : currentOn(p)' = {}
      BY <1>0, <2>2, <2>3 DEF AssignedOnce
    <2>6. \/ \A t \in targets' : current'[t] # {}
          \/ \A p \in Pods' : (Cardinality(currentOn(p)) = capacity)'
      <3>1. CASE Full
        <4>1. Pods \subseteq PodIdx
          BY <1>0, OptionsTyped
        <4> QED BY <2>2, <2>3, <3>1, <4>1 DEF Full
      <3>2. CASE Unassigned \subseteq toPlace
        <4> SUFFICES ASSUME NEW t \in targets PROVE reported(targets)[t] # {}
          BY <2>1
        <4>1. t \in Placed
          BY <1>0, <3>2 DEF NextRound, OverflowInv, Unassigned
        <4>2. PICK q \in PodIdx : t \in assignments[q]
          BY <4>1 DEF Placed
        <4>3. q \in reported(targets)[t]
          BY <1>0, <4>2, ReportedIsAssigned
        <4> QED BY <4>3
      <3> QED BY <1>0, <3>1, <3>2 DEF OverflowInv
    <2>7. \A p \in PodIdx \ toKeep' : assignments'[p] = currentOn(p)'
      BY <1>1 DEF NoAssignment, currentOn
    <2> QED BY <2>4, <2>5, <2>6, <2>7 DEF RepeatInv
  <1> QED BY <1>2, <1>3

\* StickyInv is inductive.
LEMMA StickyNext == StickyInv /\ [Next]_vars => StickyInv'
  <1> SUFFICES ASSUME StickyInv, [Next]_vars PROVE StickyInv'
    OBVIOUS
  <1>0. PlacementInv /\ KeptInv /\ OverflowInv /\ RepeatInv
    BY DEF StickyInv
  <1>1. PlacementInv'
    BY <1>0, PlacementNext
  <1>2. CASE KeepDone \/ PlaceDone \/ UNCHANGED vars
    <2>1. /\ UNCHANGED <<inputs, toPlace, assignments, repeated, toKeep>>
          /\ \/ phase' = phase
             \/ phase' = "place" /\ phase = "keep" /\ toKeep = {}
             \/ phase' = "done" /\ phase = "place" /\ toPlace = {}
      BY <1>2 DEF KeepDone, PlaceDone, vars
    <2>2. UNCHANGED <<capacity, numPods, Pods, Placed>>
          /\ \A p \in PodIdx : currentOn(p)' = currentOn(p)
      BY <2>1 DEF inputs, capacity, numPods, Pods, Placed, currentOn
    <2>3. Pods \subseteq PodIdx
      BY <1>0, OptionsTyped DEF PlacementInv
    <2>4. KeptInv'
      BY <1>0, <2>1, <2>2, <2>3 DEF KeptInv, inputs
    <2>5. OverflowInv'
      BY <1>0, <2>1, <2>2 DEF OverflowInv, Unassigned, Full, inputs
    <2>6. RepeatInv'
      BY <1>0, <2>1, <2>2, <2>3 DEF RepeatInv, inputs
    <2> QED BY <1>1, <2>4, <2>5, <2>6 DEF StickyInv
  <1>3. CASE NextRound
    BY <1>1, <1>3, RoundSticky DEF StickyInv
  <1>4. ASSUME NEW p \in PodIdx, KeepCurrent(p) PROVE StickyInv'
    BY <1>1, <1>4, KeepSticky DEF StickyInv
  <1>5. ASSUME NEW t \in Names, PlaceTarget(t) PROVE StickyInv'
    BY <1>1, <1>5, PlaceSticky DEF StickyInv
  <1> QED BY <1>2, <1>3, <1>4, <1>5 DEF Next

\* The strengthened invariant holds in every round.
THEOREM StickyCorrect == Spec => []StickyInv
  BY StickyInit, StickyNext, PTL DEF Spec

\* The state of a round keeps its type.
THEOREM PlacementTypeCorrect == Spec => []TypeOK
  <1>1. PlacementInv => TypeOK
    BY DEF PlacementInv
  <1> QED BY <1>1, PlacementCorrect, PTL

\* A target leaves the pod it reports only if that pod has more targets than
\* it may hold and keeps its full capacity of them, the best ones.
THEOREM TargetsStay == Spec => []MovesOnlyOverflow
  <1>1. StickyInv => MovesOnlyOverflow
    <2> SUFFICES ASSUME StickyInv, phase = "done", NEW p \in Pods,
                        NEW t \in currentOn(p) \ assignments[p]
                 PROVE  /\ Cardinality(currentOn(p)) > capacity
                        /\ Cardinality(assignments[p] \cap currentOn(p)) = capacity
                        /\ \A u \in assignments[p] : score[u][p] >= score[t][p]
      BY DEF MovesOnlyOverflow
    <2>1. /\ Cardinality(currentOn(p)) > capacity
          /\ assignments[p] \subseteq currentOn(p)
          /\ Cardinality(assignments[p]) = capacity
          /\ \A u \in assignments[p] : score[u][p] >= score[t][p]
      BY DEF StickyInv, KeptInv
    <2>2. assignments[p] \cap currentOn(p) = assignments[p]
      BY <2>1
    <2> QED BY <2>1, <2>2
  <1> QED BY <1>1, StickyCorrect, PTL

\* A round with the inputs of the round before it changes no assignment.
THEOREM RepeatsItself == Spec => []Reproducible
  <1>1. StickyInv => Reproducible
    BY DEF StickyInv, KeptInv, RepeatInv, Reproducible
  <1> QED BY <1>1, StickyCorrect, PTL

\* Rounded up, the derived capacity is enough for all targets.
LEMMA CeilingSuffices ==
  ASSUME NEW n \in Nat, NEW k \in Nat \ {0}
  PROVE  k * ((n + k - 1) \div k) >= n
  <1> DEFINE q == (n + k - 1) \div k
             r == (n + k - 1) % k
  <1>1. q \in Int /\ r \in 0..(k - 1) /\ n + k - 1 = k * q + r
    OBVIOUS
  <1> HIDE DEF q, r
  <1>2. k * q \in Int
    BY <1>1
  <1>3. k * q >= n
    BY <1>1, <1>2
  <1> QED BY <1>3 DEF q

\* The places taken are no more than the pods have, and all of them when every
\* pod is full.
LEMMA PlacesBounded ==
  ASSUME PlacementInv
  PROVE  /\ IsFiniteSet(Places) /\ Cardinality(Places) \in Nat
         /\ Cardinality(Places) <= numPods * capacity
         /\ Full => Cardinality(Places) = numPods * capacity
  <1>0. /\ TypeOK /\ CapacityRespected /\ AssignedOnce
        /\ numPods \in Nat \ {0} /\ capacity \in Nat /\ Pods \subseteq PodIdx
        /\ assignments \in [PodIdx -> SUBSET Names]
    BY OptionsTyped DEF PlacementInv, TypeOK
  <1>1. IsFiniteSet(Places) /\ Cardinality(Places) \in Nat
    <2>1. IsFiniteSet(PodIdx)
      BY PodsAssumption, FS_Interval DEF PodIdx
    <2>2. IsFiniteSet(PodIdx \X Names)
      BY <2>1, NamesAssumption, FS_Product
    <2> QED BY <2>2, FS_Subset, FS_CardinalityType DEF Places
  <1> DEFINE A == [p \in Pods |-> {p} \X assignments[p]]
  <1>2. \A p \in Pods : A[p] = {p} \X assignments[p]
    OBVIOUS
  <1>4. \A p \in Pods : IsFiniteSet(A[p]) /\ Cardinality(A[p]) = Cardinality(assignments[p])
    <2> TAKE p \in Pods
    <2>1. IsFiniteSet(assignments[p]) /\ Cardinality(assignments[p]) \in Nat
      BY <1>0, TargetsFinite
    <2>2. IsFiniteSet({p}) /\ Cardinality({p}) = 1
      BY FS_Singleton
    <2>3. /\ IsFiniteSet({p} \X assignments[p])
          /\ Cardinality({p} \X assignments[p]) = 1 * Cardinality(assignments[p])
      BY <2>1, <2>2, FS_Product
    <2> QED BY <1>2, <2>1, <2>3
  <1>5. Places = UNION {A[p] : p \in Pods}
    <2>1. \A s \in Places : \E p \in Pods : s \in A[p]
      BY <1>0, <1>2 DEF Places, AssignedOnce
    <2>2. \A p \in Pods : A[p] \subseteq Places
      BY <1>0, <1>2 DEF Places
    <2> HIDE DEF A
    <2> QED BY <2>1, <2>2
  <1>6. IsFiniteSet(Pods) /\ Cardinality(Pods) = numPods
    BY <1>0, FS_Interval DEF Pods
  <1>7. /\ \A p \in Pods : IsFiniteSet(A[p]) /\ Cardinality(A[p]) <= capacity
        /\ Full => \A p \in Pods : Cardinality(A[p]) = capacity
    BY <1>0, <1>4 DEF CapacityRespected, Full
  <1>8. \A p, q \in Pods : p # q => A[p] \cap A[q] = {}
    BY <1>2
  <1> HIDE DEF A
  <1>9. Cardinality(UNION {A[p] : p \in Pods}) <= Cardinality(Pods) * capacity
    BY <1>0, <1>6, <1>7, <1>8, TotalLoad
  <1>10. ASSUME Full
         PROVE  Cardinality(UNION {A[p] : p \in Pods}) = Cardinality(Pods) * capacity
    <2>1. \A p \in Pods : Cardinality(A[p]) = capacity
      BY <1>7, <1>10
    <2> QED BY <1>0, <1>6, <1>7, <1>8, <2>1, TotalLoad
  <1> QED BY <1>1, <1>5, <1>6, <1>9, <1>10

\* Every target with a pod takes a place, and just one if the copies agree.
LEMMA OnePlaceEach ==
  ASSUME PlacementInv
  PROVE  /\ Cardinality(Placed) <= Cardinality(Places)
         /\ Agreed => Cardinality(Placed) = Cardinality(Places)
  <1>0. /\ AssignedOnce /\ assignments \in [PodIdx -> SUBSET Names]
        /\ current \in [Names -> SUBSET PodIdx] /\ targets \subseteq Names
        /\ IsFiniteSet(Places)
    BY PlacesBounded DEF PlacementInv, TypeOK
  <1> DEFINE g == [s \in Places |-> s[2]]
  <1>1. g \in Surjection(Places, Placed)
    <2>1. g \in [Places -> Placed]
      BY DEF Places, Placed
    <2>2. \A t \in Placed : \E s \in Places : g[s] = t
      <3> TAKE t \in Placed
      <3>1. PICK p \in PodIdx : t \in assignments[p]
        BY DEF Placed
      <3>2. <<p, t>> \in Places
        BY <1>0, <3>1 DEF Places
      <3> QED BY <3>2
    <2> QED BY <2>1, <2>2 DEF Surjection
  <1>2. Cardinality(Placed) <= Cardinality(Places)
    BY <1>0, <1>1, FS_Surjection
  <1>3. ASSUME Agreed PROVE Cardinality(Placed) = Cardinality(Places)
    <2>1. \A r, s \in Places : g[r] = g[s] => r = s
      <3> SUFFICES ASSUME NEW p \in PodIdx, NEW q \in PodIdx, NEW t \in Names,
                          t \in assignments[p], t \in assignments[q], p # q
                   PROVE  FALSE
        BY DEF Places
      <3>1. t \in currentOn(p) /\ t \in currentOn(q)
        BY <1>0 DEF AssignedOnce
      <3> QED BY <1>3, <3>1 DEF currentOn, Agreed
    <2>2. g \in Bijection(Places, Placed)
      BY <1>1, <2>1 DEF Bijection, Injection, Surjection, IsInjective
    <2> QED BY <1>0, <2>2, FS_Bijection DEF ExistsBijection
  <1> QED BY <1>2, <1>3

\* Targets without a pod are exactly those the capacity has no room for, counting
\* the second places of targets reported on several pods.
THEOREM OverflowIsExact == Spec => []UnassignedIsOverflow
  <1>1. StickyInv => UnassignedIsOverflow
    <2> SUFFICES ASSUME StickyInv, phase = "done" PROVE UnassignedIsOverflow
      BY DEF UnassignedIsOverflow
    <2> DEFINE n == Cardinality(targets)
               m == Cardinality(Placed)
               k == Cardinality(Places)
               room == numPods * capacity
    <2>0. /\ TypeOK /\ CapacityRespected /\ AssignedOnce /\ PlacementInv
          /\ numPods \in Nat \ {0} /\ capacity \in Nat
      BY OptionsTyped DEF StickyInv, PlacementInv
    <2>1. Placed \subseteq targets /\ targets \in SUBSET Names
      BY <2>0 DEF AssignedOnce, TypeOK
    <2>2. /\ IsFiniteSet(targets) /\ n \in Nat /\ m \in Nat /\ m <= n
      BY <2>1, TargetsFinite, FS_Subset
    <2>3. Cardinality(Unassigned) = n - m
      <3>1. targets \cap Placed = Placed
        BY <2>1
      <3> QED BY <2>2, <3>1, FS_Difference DEF Unassigned
    <2>4. k \in Nat /\ k <= room /\ (Full => k = room) /\ room \in Nat
      BY <2>0, PlacesBounded
    <2>5. m <= k /\ (Agreed => m = k)
      BY <2>0, OnePlaceEach
    <2>6. m = n \/ k = room
      <3>1. CASE Full
        BY <2>4, <3>1
      <3>2. CASE Unassigned \subseteq {}
        <4>1. Placed = targets
          BY <2>1, <3>2 DEF Unassigned
        <4> QED BY <4>1
      <3> QED BY <3>1, <3>2 DEF StickyInv, OverflowInv
    <2>7. podCapacity = 0 => room >= n
      BY <2>0, <2>2, CeilingSuffices DEF capacity
    <2>8. ASSUME Agreed, podCapacity = 0 PROVE Unassigned = {}
      <3>1. n - m = 0
        BY <2>2, <2>4, <2>5, <2>6, <2>7, <2>8
      <3>2. IsFiniteSet(Unassigned)
        BY <2>1, TargetsFinite DEF Unassigned
      <3> QED BY <2>3, <3>1, <3>2, FS_EmptySet
    <2> HIDE DEF n, m, k, room
    <2>9. n - m = IF n + k - m > room THEN n + k - m - room ELSE 0
      BY <2>2, <2>4, <2>5, <2>6
    <2>10. Agreed => n + k - m = n
      BY <2>2, <2>4, <2>5
    <2> DEFINE asked == n + k - m
    <2>11. Cardinality(Unassigned) = IF asked > room THEN asked - room ELSE 0
      BY <2>2, <2>3, <2>4, <2>9
    <2>12. Agreed => asked = n
      BY <2>10
    <2>13. Agreed /\ podCapacity = 0 => Unassigned = {}
      BY <2>8, Zenon
    <2> QED
      <3> USE DEF n, m, k, room
      <3> QED BY <2>11, <2>12, <2>13 DEF UnassignedIsOverflow
  <1> QED BY <1>1, StickyCorrect, PTL
=============================================================================
