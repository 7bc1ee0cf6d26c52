------------------------------ MODULE Placement -----------------------------
(***************************************************************************)
(* Distribution of the targets of a cluster over its pods: bounded load    *)
(* rendezvous hashing, as the cluster controller runs it again and again   *)
(* while targets come and go and the cluster is scaled.                    *)
(*                                                                         *)
(* A round reads the pod of every target from its status, keeps what fits  *)
(* and places the rest by hash score. Every pipeline of the cluster has    *)
(* its own copy of a target, read at its own time, and all copies count:   *)
(* a target that two pipelines share may be read on two pods. Names are    *)
(* numbers, so that "sorted by name" has a meaning; the hash is any        *)
(* function.                                                               *)
(***************************************************************************)
EXTENDS Integers, FiniteSets

CONSTANTS
  Names,        \* target names, ordered as sort.Strings orders them
  MaxPods,      \* bound on spec.replicas
  Capacities,   \* values of targetDistribution.podCapacity, 0 if not set
  Scores        \* hash functions: scores of a target on a pod

PodIdx == 0..(MaxPods - 1)

ASSUME NamesAssumption == Names \subseteq Nat /\ IsFiniteSet(Names)
ASSUME PodsAssumption == MaxPods \in Nat \ {0}
ASSUME CapacityAssumption == Capacities \subseteq Nat
ASSUME ScoresAssumption == Scores \subseteq [Names -> [PodIdx -> Nat]]

VARIABLES
  score,        \* hashScore
  replicas,     \* spec.replicas
  podCapacity,  \* spec.targetDistribution.podCapacity
  targets,      \* plan.Targets
  current,      \* plan.CurrentTargetAssignment by target: the pods found in
                \* status.clusterStates[cluster] of the copies of a target
  phase,        \* "keep", "place", "done"
  toKeep,       \* pods whose current targets are still to be looked at
  toPlace,      \* targets still to be looked at, in the order of their names
  assignments,  \* the new assignment
  repeated      \* history: the round has the inputs of the previous one and
                \* every target reports the pod it got there

inputs == <<score, replicas, podCapacity, targets, current>>
vars == <<inputs, phase, toKeep, toPlace, assignments, repeated>>

NoAssignment == [p \in PodIdx |-> {}]

TypeOK ==
  /\ score \in Scores
  /\ replicas \in 0..MaxPods
  /\ podCapacity \in Capacities
  /\ targets \in SUBSET Names
  /\ current \in [Names -> SUBSET PodIdx]
  /\ phase \in {"keep", "place", "done"}
  /\ toKeep \in SUBSET PodIdx
  /\ toPlace \in SUBSET Names
  /\ assignments \in [PodIdx -> SUBSET Names]
  /\ repeated \in BOOLEAN

(***************************************************************************)
(* Options.                                                                *)
(***************************************************************************)
\* normalizeOptions: at least one pod.
numPods == IF replicas <= 0 THEN 1 ELSE replicas
Pods == 0..(numPods - 1)

\* Faulty variant of capacity: rounded down.
capacityFloor ==
  IF podCapacity # 0 THEN podCapacity ELSE Cardinality(targets) \div numPods

\* ceil(targets / pods) unless a capacity is configured.
capacity ==
  IF podCapacity # 0 THEN podCapacity
  ELSE (Cardinality(targets) + numPods - 1) \div numPods

\* The targets that some copy reports on the pod.
currentOn(p) == {t \in targets : p \in current[t]}
Placed == UNION {assignments[p] : p \in PodIdx}
Unassigned == targets \ Placed

(***************************************************************************)
(* boundedLoadRendezvousHash.                                              *)
(***************************************************************************)
\* A round starts with a plan and the pods that the targets report.
RoundStarts ==
  /\ phase' = "keep"
  /\ toKeep' = {p \in PodIdx : \E t \in targets' : p \in current'[t]}
  /\ toPlace' = targets'
  /\ assignments' = NoAssignment

\* Faulty variants of keeps: the lowest scores are kept; one target too few
\* is kept by a pod that is full.
keepsLowest(p, kept) ==
  /\ kept \subseteq currentOn(p)
  /\ \/ kept = currentOn(p) /\ Cardinality(kept) <= capacity
     \/ Cardinality(currentOn(p)) > capacity /\ Cardinality(kept) = capacity
  /\ \A t \in kept, u \in currentOn(p) \ kept : score[t][p] <= score[u][p]
keepsOneLess(p, kept) ==
  /\ kept \subseteq currentOn(p)
  /\ \/ kept = currentOn(p) /\ Cardinality(kept) < capacity
     \/ Cardinality(currentOn(p)) >= capacity /\ Cardinality(kept) = capacity - 1
  /\ \A t \in kept, u \in currentOn(p) \ kept : score[t][p] >= score[u][p]

\* Which targets a pod keeps: all, or as many as it may hold, those with the
\* highest scores (equal scores are kept in an order that is not defined).
keeps(p, kept) ==
  /\ kept \subseteq currentOn(p)
  /\ \/ kept = currentOn(p) /\ Cardinality(kept) <= capacity
     \/ Cardinality(currentOn(p)) > capacity /\ Cardinality(kept) = capacity
  /\ \A t \in kept, u \in currentOn(p) \ kept : score[t][p] >= score[u][p]

\* Faulty variant of gone: pods beyond the replicas still count.
goneNever(p) == FALSE

\* The pod was scaled away.
gone(p) == p >= numPods

\* One pod of the current assignment, in the order of a Go map: any. A pod
\* that no longer exists is passed over.
KeepCurrent(p) ==
  /\ phase = "keep"
  /\ p \in toKeep
  /\ toKeep' = toKeep \ {p}
  /\ \/ /\ ~gone(p)
        /\ \E kept \in SUBSET currentOn(p) :
             /\ keeps(p, kept)
             /\ assignments' = [assignments EXCEPT ![p] = kept]
     \/ /\ gone(p)
        /\ UNCHANGED assignments
  /\ UNCHANGED <<inputs, phase, toPlace, repeated>>

KeepDone ==
  /\ phase = "keep"
  /\ toKeep = {}
  /\ phase' = "place"
  /\ UNCHANGED <<inputs, toKeep, toPlace, assignments, repeated>>

\* Faulty variant of hasRoom: a full pod takes one more.
hasRoomAtLimit(p) == Cardinality(assignments[p]) <= capacity

hasRoom(p) == Cardinality(assignments[p]) < capacity

\* The pod with the highest score that has room, the lowest index on a tie.
boundedRendezvousHash(t, p) ==
  /\ p \in Pods
  /\ hasRoom(p)
  /\ \A q \in Pods :
       hasRoom(q) =>
         score[t][q] < score[t][p] \/ (score[t][q] = score[t][p] /\ p <= q)

PlaceTarget(t) ==
  /\ phase = "place"
  /\ t \in toPlace
  /\ \A u \in toPlace : t <= u
  /\ toPlace' = toPlace \ {t}
  /\ \/ /\ t \in Placed
        /\ UNCHANGED assignments
     \/ /\ t \notin Placed
        /\ \E p \in PodIdx :
             /\ boundedRendezvousHash(t, p)
             /\ assignments' = [assignments EXCEPT ![p] = @ \cup {t}]
     \/ /\ t \notin Placed
        /\ \A p \in Pods : ~hasRoom(p)
        /\ UNCHANGED assignments
  /\ UNCHANGED <<inputs, phase, toKeep, repeated>>

PlaceDone ==
  /\ phase = "place"
  /\ toPlace = {}
  /\ phase' = "done"
  /\ UNCHANGED <<inputs, toKeep, toPlace, assignments, repeated>>

(***************************************************************************)
(* The next reconcile: targets, replicas and capacity may have changed and *)
(* every target reports the pods the last round gave it. The status of a   *)
(* target holds one pod at a time; of one target the copies may have been  *)
(* read early, late or at different times.                                 *)
(***************************************************************************)
\* Faulty variant of reported: pods counted from one.
reportedFromOne(T) ==
  [t \in Names |-> {p + 1 : p \in {q \in PodIdx : t \in assignments[q] \cap T}}]

\* What the targets T report.
reported(T) == [t \in Names |-> {p \in PodIdx : t \in assignments[p] \cap T}]

NextRound ==
  /\ phase = "done"
  /\ targets' \in SUBSET Names
  /\ replicas' \in 0..MaxPods
  /\ podCapacity' \in Capacities
  /\ UNCHANGED score
  /\ \/ current' = reported(targets')
     \/ \E t \in targets' : \E seen \in SUBSET (current[t] \cup reported(targets')[t]) :
          current' = [reported(targets') EXCEPT ![t] = seen]
  /\ repeated' = (/\ UNCHANGED <<targets, replicas, podCapacity>>
                  /\ current' = reported(targets'))
  /\ RoundStarts

\* The first round: statuses left by an earlier life of the operator.
Init ==
  /\ score \in Scores
  /\ replicas \in 0..MaxPods
  /\ podCapacity \in Capacities
  /\ targets \in SUBSET Names
  /\ current \in [Names -> SUBSET PodIdx]
  /\ \A t \in Names \ targets : current[t] = {}
  /\ phase = "keep"
  /\ toKeep = {p \in PodIdx : \E t \in targets : p \in current[t]}
  /\ toPlace = targets
  /\ assignments = NoAssignment
  /\ repeated = FALSE

Next ==
  \/ \E p \in PodIdx : KeepCurrent(p)
  \/ KeepDone
  \/ \E t \in Names : PlaceTarget(t)
  \/ PlaceDone
  \/ NextRound

Spec == Init /\ [][Next]_vars

-----------------------------------------------------------------------------
\* The hard ceiling: no pod ever gets more targets than its capacity, also
\* when the capacity was lowered or the cluster scaled down with targets
\* still reporting their old pods.
CapacityRespected == \A p \in PodIdx : Cardinality(assignments[p]) <= capacity

\* A target goes to one pod unless its copies already report several: two
\* pods share a target only if both were reported for it, so a round never
\* splits a target whose copies agree. A pod with targets is one of the
\* plan's, and only targets of the plan are assigned.
AssignedOnce ==
  /\ \A p, q \in PodIdx :
       p # q => assignments[p] \cap assignments[q] \subseteq currentOn(p) \cap currentOn(q)
  /\ \A p \in PodIdx : assignments[p] # {} => p \in Pods
  /\ Placed \subseteq targets

\* Why both hold: while current targets are kept a pod has nothing but those
\* that report it, and only targets of the plan are waiting to be placed.
PlacementInv ==
  /\ TypeOK
  /\ toPlace \subseteq targets
  /\ phase = "keep" => \A p \in PodIdx : assignments[p] \subseteq currentOn(p)
  /\ CapacityRespected
  /\ AssignedOnce

\* The copies of every target report one pod, or none.
Agreed == \A t \in targets : \A p, q \in current[t] : p = q

\* The places taken on all pods: a target kept on two pods takes two.
Places == {s \in PodIdx \X Names : s[2] \in assignments[s[1]]}

\* "Non-zero when total targets exceed numPods x perPodCapacity", for any
\* reported pods: targets are left out exactly when the places asked for, one
\* for every target and one more for every further pod that keeps it, are
\* more than the pods have, and exactly so many. If the copies agree, no
\* target takes a second place, and without a configured capacity none is
\* left out.
UnassignedIsOverflow ==
  phase = "done" =>
    LET asked == Cardinality(targets) + Cardinality(Places) - Cardinality(Placed)
        room == numPods * capacity
    IN  /\ Cardinality(Unassigned) = IF asked > room THEN asked - room ELSE 0
        /\ Agreed => asked = Cardinality(targets)
        /\ Agreed /\ podCapacity = 0 => Unassigned = {}

\* Targets stay where they are: one that reported an existing pod leaves it
\* only if that pod had more targets than it may hold, and then the pod has
\* kept its full capacity of them, none with a lower score.
MovesOnlyOverflow ==
  phase = "done" =>
    \A p \in Pods : \A t \in currentOn(p) \ assignments[p] :
      /\ Cardinality(currentOn(p)) > capacity
      /\ Cardinality(assignments[p] \cap currentOn(p)) = capacity
      /\ \A u \in assignments[p] : score[u][p] >= score[t][p]

\* A reconcile with nothing new to place changes nothing, so configuration
\* is not churned by repeated reconciles.
Reproducible ==
  phase = "done" /\ repeated =>
    \A p \in PodIdx : assignments[p] = currentOn(p)

-----------------------------------------------------------------------------
(***************************************************************************)
(* Why these three hold as well: the inductive invariant.                  *)
(***************************************************************************)
\* A pod that has been looked at still has all its current targets, or it is
\* full of them.
KeptInv ==
  /\ phase # "keep" => toKeep = {}
  /\ \A p \in toKeep : assignments[p] = {}
  /\ \A p \in Pods \ toKeep :
       \/ currentOn(p) \subseteq assignments[p]
       \/ /\ Cardinality(currentOn(p)) > capacity
          /\ assignments[p] \subseteq currentOn(p)
          /\ Cardinality(assignments[p]) = capacity
          /\ \A t \in assignments[p], u \in currentOn(p) \ assignments[p] :
               score[t][p] >= score[u][p]

\* A target is passed over only when all pods are full, and they stay so.
Full == \A p \in Pods : Cardinality(assignments[p]) = capacity
OverflowInv ==
  /\ phase = "keep" => toPlace = targets
  /\ phase = "done" => toPlace = {}
  /\ Unassigned \subseteq toPlace \/ Full

\* In a repeated round the current assignment is one that a round has made.
RepeatInv ==
  repeated =>
    /\ \A p \in PodIdx : Cardinality(currentOn(p)) <= capacity
    /\ \A p \in PodIdx \ Pods : currentOn(p) = {}
    /\ \/ \A t \in targets : current[t] # {}
       \/ \A p \in Pods : Cardinality(currentOn(p)) = capacity
    /\ \A p \in PodIdx \ toKeep : assignments[p] = currentOn(p)

StickyInv == PlacementInv /\ KeptInv /\ OverflowInv /\ RepeatInv
=============================================================================
