----------------------------- MODULE PortProofs -----------------------------
(***************************************************************************)
(* Proofs about the ports of Prometheus outputs: assignPorts finds a port  *)
(* for every name as long as there is one, whatever the hashes, and gives  *)
(* no port twice. The recursion over the names is reasoned about through   *)
(* the least number for which a claim fails.                               *)
(***************************************************************************)
EXTENDS PlanBuilder, FiniteSetTheorems, WellFoundedInduction, TLAPS

\* A set of natural numbers that is not empty has a least element.
LEMMA LeastNumber ==
  ASSUME NEW T \in SUBSET Nat, T # {}
  PROVE  \E m \in T : \A k \in T : m <= k
  <1>1. IsWellFoundedOn(OpToRel(<, Nat), Nat)
    BY NatLessThanWellFounded
  <1>2. PICK m \in T : \A k \in T : <<k, m>> \notin OpToRel(<, Nat)
    BY <1>1, WFMin
  <1>3. \A k \in T : ~(k < m)
    BY <1>2 DEF OpToRel
  <1> QED BY <1>3

\* Min of a set of natural numbers is an element of it.
LEMMA MinIsElement ==
  ASSUME NEW T \in SUBSET Nat, T # {}
  PROVE  Min(T) \in T
  BY LeastNumber DEF Min

\* A multiple of P between -P and P is zero.
LEMMA SmallMultiple ==
  ASSUME NEW P \in Nat \ {0}, NEW x \in Int, P * x < P, -P < P * x
  PROVE  x = 0
  <1>1. CASE x >= 1
    BY <1>1
  <1>2. CASE x <= -1
    BY <1>2
  <1> QED BY <1>1, <1>2

\* Division with remainder.
LEMMA Division ==
  ASSUME NEW P \in Nat, P > 0, NEW a \in Int
  PROVE  /\ a \div P \in Int
         /\ a % P \in 0..(P - 1)
         /\ a = P * (a \div P) + (a % P)
  <1> DEFINE q == a \div P
             r == a % P
  <1>1. q \in Int
    OBVIOUS
  <1>2. r \in Int /\ 0 <= r /\ r < P
    OBVIOUS
  <1>3. a = P * q + r
    OBVIOUS
  <1> QED BY <1>1, <1>2, <1>3

\* Numbers with the same remainder differ by a multiple.
LEMMA SameRemainder ==
  ASSUME NEW P \in Nat \ {0}, NEW a \in Int, NEW b \in Int, a % P = b % P
  PROVE  (b - a) % P = 0
  <1> DEFINE d == b - a
             x == (b \div P) - (a \div P) - (d \div P)
  <1>1. /\ a \div P \in Int /\ b \div P \in Int /\ d \div P \in Int
        /\ a % P \in 0..(P - 1) /\ d % P \in 0..(P - 1)
        /\ a = P * (a \div P) + (a % P)
        /\ b = P * (b \div P) + (b % P)
        /\ d = P * (d \div P) + (d % P)
    <2>1. P \in Nat /\ P > 0 /\ d \in Int
      OBVIOUS
    <2> HIDE DEF d
    <2> QED BY <2>1, Division
  <1>2. P * x = P * (b \div P) - P * (a \div P) - P * (d \div P) /\ x \in Int
    BY <1>1
  <1>3. P * x = d % P
    BY <1>1, <1>2
  <1>4. x = 0
    <2> HIDE DEF x
    <2> QED BY <1>1, <1>2, <1>3, SmallMultiple
  <1>5. P * x = 0
    BY <1>4
  <1> QED BY <1>3, <1>5

\* The probing visits every slot, because the size of the pool is a prime:
\* with fewer ports in use than the pool has, one of the probes is free.
LEMMA ProbeFindsPort ==
  ASSUME NEW start \in Nat, NEW h \in Nat, NEW U, IsFiniteSet(U),
         Cardinality(U) < PortPool
  PROVE  \E i \in 0..(PortPool - 1) :
           PortBase + ((start + i * probeStep(h)) % PortPool) \notin U
  <1> DEFINE step == probeStep(h)
             I == 0..(PortPool - 1)
             f == [i \in I |-> PortBase + ((start + i * step) % PortPool)]
  <1>1. step \in 1..(PortPool - 1)
    <2>1. PortPool - 1 \in Nat \ {0}
      BY PoolAssumption
    <2>2. ASSUME NEW Q \in Nat \ {0} PROVE h % Q \in 0..(Q - 1)
      BY Division
    <2> DEFINE m == h % (PortPool - 1)
    <2>3. step = m + 1
      BY DEF probeStep
    <2>4. m \in 0..((PortPool - 1) - 1)
      BY <2>1, <2>2
    <2> HIDE DEF m, step
    <2> QED BY <2>3, <2>4, PoolAssumption
  <1> HIDE DEF step
  <1>2. ASSUME NEW i \in I, NEW j \in I, i < j, f[i] = f[j] PROVE FALSE
    <2>0. start + i * step \in Int /\ start + j * step \in Int
      BY <1>1, PoolAssumption
    <2>1. /\ (start + i * step) % PortPool \in Int
          /\ (start + j * step) % PortPool \in Int
      BY <2>0, Division, PoolAssumption
    <2>2. (start + i * step) % PortPool = (start + j * step) % PortPool
      <3> DEFINE ri == (start + i * step) % PortPool
                 rj == (start + j * step) % PortPool
      <3>1. PortBase + ri = PortBase + rj
        BY <1>2
      <3>2. ri \in Int /\ rj \in Int
        BY <2>1
      <3> HIDE DEF ri, rj
      <3>3. ri = rj
        BY <3>1, <3>2, PoolAssumption
      <3> QED BY <3>3 DEF ri, rj
    <2>3. ((start + j * step) - (start + i * step)) % PortPool = 0
      BY <2>0, <2>2, SameRemainder, PoolAssumption
    <2>4. (start + j * step) - (start + i * step) = (j - i) * step
      BY <1>1
    <2>5. j - i \in 1..(PortPool - 1)
      BY <1>2, PoolAssumption
    <2> QED BY <1>1, <2>3, <2>4, <2>5, PrimeAssumption
  <1>3. ASSUME NEW i \in I, NEW j \in I, f[i] = f[j] PROVE i = j
    <2>1. i \in Int /\ j \in Int
      OBVIOUS
    <2>2. i < j \/ j < i \/ i = j
      BY <2>1
    <2> HIDE DEF I, f
    <2> QED BY <1>2, <1>3, <2>2
  <1>4. ASSUME \A i \in I : f[i] \in U PROVE FALSE
    <2>1. f \in [I -> U]
      BY <1>4
    <2>2. f \in Injection(I, U)
      <3> HIDE DEF f, I
      <3> QED BY <1>3, <2>1 DEF Injection, IsInjective
    <2>3. Cardinality(I) <= Cardinality(U)
      BY <2>2, FS_Injection
    <2>4. Cardinality(I) = PortPool
      BY FS_Interval, PoolAssumption
    <2>5. Cardinality(U) \in Nat
      BY FS_CardinalityType
    <2> QED BY <2>3, <2>4, <2>5, PoolAssumption
  <1> QED BY <1>4 DEF step

(***************************************************************************)
(* The recursion of assignPorts. Extended is one turn of its loop.         *)
(***************************************************************************)
Slot(h1, h2, n, i) == (h1[n] + i * probeStep(h2[n])) % PortPool
FreeProbes(before, name, h1, h2) ==
  IF before = NoPlan THEN {}
  ELSE {i \in 0..(PortPool - 1) :
          \A n \in DOMAIN before : before[n] # PortBase + Slot(h1, h2, name, i)}
Extended(before, name, h1, h2) ==
  IF FreeProbes(before, name, h1, h2) = {} THEN NoPlan
  ELSE [n \in DOMAIN before \cup {name} |->
          IF n = name
            THEN PortBase + Slot(h1, h2, name, Min(FreeProbes(before, name, h1, h2)))
            ELSE before[n]]

NoPorts == [n \in {} |-> 0]

\* f holds the ports after each of the first len names.
IsLoop(f, len, names, h1, h2) ==
  f = [k \in 0..len |->
         IF k = 0 THEN NoPorts ELSE Extended(f[k - 1], names[k], h1, h2)]

\* assignPorts is the last value of the function that its recursion defines.
LEMMA AssignPortsIsLoop ==
  ASSUME NEW names, NEW h1, NEW h2
  PROVE  assignPorts(names, h1, h2) =
           (CHOOSE f : IsLoop(f, Len(names), names, h1, h2))[Len(names)]
  BY DEF assignPorts, IsLoop, Extended, FreeProbes, Slot, NoPorts

\* There is such a function.
LEMMA LoopExists ==
  ASSUME NEW len \in Nat, NEW names, NEW h1, NEW h2
  PROVE  \E f : IsLoop(f, len, names, h1, h2)
  <1> DEFINE T == {n \in Nat : ~ \E f : IsLoop(f, n, names, h1, h2)}
  <1>1. SUFFICES ASSUME T # {} PROVE FALSE
    OBVIOUS
  <1>2. PICK m \in T : \A k \in T : m <= k
    BY <1>1, LeastNumber
  <1>3. CASE m = 0
    <2> DEFINE f == [k \in 0..0 |-> NoPorts]
    <2>1. f = [k \in 0..0 |->
                 IF k = 0 THEN NoPorts ELSE Extended(f[k - 1], names[k], h1, h2)]
      OBVIOUS
    <2>2. IsLoop(f, 0, names, h1, h2)
      BY <2>1 DEF IsLoop
    <2> QED BY <1>3, <2>2
  <1>4. CASE m # 0
    <2>1. m - 1 \in Nat /\ m - 1 \notin T
      BY <1>2, <1>4
    <2>2. PICK f : IsLoop(f, m - 1, names, h1, h2)
      BY <2>1
    <2> DEFINE g == [k \in 0..m |->
                       IF k = m THEN Extended(f[m - 1], names[m], h1, h2)
                                ELSE f[k]]
    <2>3. /\ DOMAIN f = 0..(m - 1)
          /\ \A k \in 0..(m - 1) :
               f[k] = IF k = 0 THEN NoPorts ELSE Extended(f[k - 1], names[k], h1, h2)
      BY <2>2 DEF IsLoop
    <2>4. g[m] = Extended(g[m - 1], names[m], h1, h2)
      BY <2>1
    <2>5. ASSUME NEW k \in 0..m, k # m
          PROVE  g[k] = IF k = 0 THEN NoPorts
                                 ELSE Extended(g[k - 1], names[k], h1, h2)
      <3>1. k \in 0..(m - 1) /\ g[k] = f[k]
        BY <2>1, <2>5
      <3>2. k # 0 => g[k - 1] = f[k - 1]
        BY <2>1, <2>5
      <3> HIDE DEF g
      <3> QED BY <2>3, <3>1, <3>2
    <2>6. \A k \in 0..m : g[k] = IF k = 0 THEN NoPorts
                                 ELSE Extended(g[k - 1], names[k], h1, h2)
      BY <1>4, <2>4, <2>5
    <2>7. g = [k \in 0..m |-> g[k]]
      OBVIOUS
    <2> HIDE DEF g
    <2>8. IsLoop(g, m, names, h1, h2)
      BY <2>6, <2>7 DEF IsLoop
    <2> QED BY <1>2, <2>8
  <1> QED BY <1>3, <1>4

\* The recursion of assignPorts, unrolled.
LEMMA PortsRecursion ==
  ASSUME NEW names, NEW h1, NEW h2, Len(names) \in Nat
  PROVE  \E f :
           /\ f[0] = NoPorts
           /\ \A k \in 1..Len(names) :
                f[k] = Extended(f[k - 1], names[k], h1, h2)
           /\ assignPorts(names, h1, h2) = f[Len(names)]
  <1> DEFINE N == Len(names)
             f == CHOOSE g : IsLoop(g, N, names, h1, h2)
  <1>1. IsLoop(f, N, names, h1, h2)
    BY LoopExists
  <1>2. assignPorts(names, h1, h2) = f[N]
    BY AssignPortsIsLoop
  <1> HIDE DEF f
  <1>3. \A k \in 0..N :
          f[k] = IF k = 0 THEN NoPorts ELSE Extended(f[k - 1], names[k], h1, h2)
    BY <1>1 DEF IsLoop
  <1>4. f[0] = NoPorts
    BY <1>3
  <1>5. \A k \in 1..N : f[k] = Extended(f[k - 1], names[k], h1, h2)
    BY <1>3
  <1> QED BY <1>2, <1>4, <1>5

\* m gives every name of S a port of its own.
PortMap(m, S) == m \in [S -> Pool] /\ IsInjective(m)

\* The first k names.
Seen(names, k) == {names[i] : i \in 1..k}

\* A probe is a port of the pool.
LEMMA SlotInPool ==
  ASSUME NEW h1, NEW h2, NEW n, h1[n] \in Nat, h2[n] \in Nat, NEW i \in Nat
  PROVE  PortBase + Slot(h1, h2, n, i) \in Pool
  <1> DEFINE a == h1[n] + i * probeStep(h2[n])
             r == a % PortPool
  <1>1. probeStep(h2[n]) \in Int
    <2> DEFINE m == h2[n] % (PortPool - 1)
    <2>1. ASSUME NEW Q \in Nat \ {0} PROVE h2[n] % Q \in Int
      BY Division
    <2>2. m \in Int
      BY <2>1, PoolAssumption
    <2>3. probeStep(h2[n]) = m + 1
      BY DEF probeStep
    <2> HIDE DEF m
    <2> QED BY <2>2, <2>3
  <1>2. a \in Int
    BY <1>1
  <1>3. r \in 0..(PortPool - 1)
    <2> HIDE DEF a
    <2> QED BY <1>2, Division, PoolAssumption
  <1>4. Slot(h1, h2, n, i) = r
    BY DEF Slot
  <1> HIDE DEF r
  <1> QED BY <1>3, <1>4, PoolAssumption DEF Pool

\* A turn of the loop fails, or gives the name a port nobody has.
LEMMA ExtendedKeeps ==
  ASSUME NEW S, NEW before, PortMap(before, S),
         NEW h1, NEW h2, NEW name, h1[name] \in Nat, h2[name] \in Nat,
         FreeProbes(before, name, h1, h2) # {}
  PROVE  PortMap(Extended(before, name, h1, h2), S \cup {name})
  <1> DEFINE free == FreeProbes(before, name, h1, h2)
             i == Min(free)
             port == PortBase + Slot(h1, h2, name, i)
             after == Extended(before, name, h1, h2)
  <1>1. free # {} /\ before # NoPlan
    BY DEF FreeProbes
  <1>3. free \in SUBSET Nat
    BY PoolAssumption DEF FreeProbes
  <1>4. i \in free
    BY <1>1, <1>3, MinIsElement
  <1>5. i \in Nat /\ \A n \in DOMAIN before : before[n] # port
    BY <1>1, <1>3, <1>4 DEF FreeProbes
  <1>6. after = [n \in DOMAIN before \cup {name} |->
                   IF n = name THEN port ELSE before[n]]
    BY <1>1 DEF Extended
  <1>7. port \in Pool
    <2> HIDE DEF i
    <2> QED BY <1>5, SlotInPool
  <1> HIDE DEF port, i, free, after
  <1>8. after \in [S \cup {name} -> Pool]
    BY <1>6, <1>7 DEF PortMap
  <1>9. IsInjective(after)
    BY <1>5, <1>6 DEF PortMap, IsInjective
  <1> QED BY <1>8, <1>9 DEF PortMap, after

\* As long as there is a free port, a turn of the loop does not fail.
LEMMA ExtendedFinds ==
  ASSUME NEW S, IsFiniteSet(S), Cardinality(S) < PortPool,
         NEW before, before # NoPlan, PortMap(before, S),
         NEW h1, NEW h2, NEW name, h1[name] \in Nat, h2[name] \in Nat
  PROVE  FreeProbes(before, name, h1, h2) # {}
  <1> DEFINE U == {before[n] : n \in S}
  <1>1. IsFiniteSet(U) /\ Cardinality(U) <= Cardinality(S)
    <2>1. before \in Surjection(S, U)
      BY DEF PortMap, Surjection
    <2> QED BY <2>1, FS_Surjection
  <1>2. Cardinality(U) \in Nat /\ Cardinality(S) \in Nat
    BY <1>1, FS_CardinalityType
  <1>3. Cardinality(U) < PortPool
    BY <1>1, <1>2, PoolAssumption
  <1> HIDE DEF U
  <1>4. PICK i \in 0..(PortPool - 1) :
          PortBase + ((h1[name] + i * probeStep(h2[name])) % PortPool) \notin U
    BY <1>1, <1>3, ProbeFindsPort
  <1>5. PortBase + Slot(h1, h2, name, i) \notin U
    BY <1>4 DEF Slot
  <1>6. DOMAIN before = S
    BY DEF PortMap
  <1>7. i \in FreeProbes(before, name, h1, h2)
    BY <1>5, <1>6 DEF FreeProbes, U
  <1> QED BY <1>7

\* One name more is seen.
LEMMA SeenNext ==
  ASSUME NEW names, NEW k \in Nat \ {0}
  PROVE  Seen(names, k) = Seen(names, k - 1) \cup {names[k]}
  <1>1. 1..k = 1..(k - 1) \cup {k}
    OBVIOUS
  <1> QED BY <1>1 DEF Seen

\* The first k names are at most k.
LEMMA SeenFinite ==
  ASSUME NEW names, NEW k \in Nat
  PROVE  IsFiniteSet(Seen(names, k)) /\ Cardinality(Seen(names, k)) <= k
  <1> DEFINE g == [i \in 1..k |-> names[i]]
  <1>1. g \in Surjection(1..k, Seen(names, k))
    BY DEF Surjection, Seen
  <1>2. IsFiniteSet(1..k) /\ Cardinality(1..k) = k
    BY FS_Interval
  <1> QED BY <1>1, <1>2, FS_Surjection

\* What assignPorts returns without an error is a port for every name.
LEMMA AssignedPorts ==
  ASSUME NEW names, NEW h1, NEW h2, Len(names) \in Nat,
         \A i \in 1..Len(names) : h1[names[i]] \in Nat /\ h2[names[i]] \in Nat,
         assignPorts(names, h1, h2) # NoPlan
  PROVE  PortMap(assignPorts(names, h1, h2), Seen(names, Len(names)))
  <1> DEFINE N == Len(names)
  <1>1. PICK f : /\ f[0] = NoPorts
                 /\ \A k \in 1..N : f[k] = Extended(f[k - 1], names[k], h1, h2)
                 /\ assignPorts(names, h1, h2) = f[N]
    BY PortsRecursion
  <1> HIDE DEF N
  <1> DEFINE Fits(k) == f[k] = NoPlan \/ PortMap(f[k], Seen(names, k))
             T == {k \in 0..N : ~ Fits(k)}
  <1>2. N \in Nat
    BY DEF N
  <1>3. ASSUME T # {} PROVE FALSE
    <2>1. PICK m \in T : \A k \in T : m <= k
      <3>1. T \in SUBSET Nat
        BY <1>2
      <3> HIDE DEF T
      <3> QED BY <1>3, <3>1, LeastNumber
    <2>2. CASE m = 0
      <3>1. Seen(names, 0) = {}
        BY DEF Seen
      <3>2. PortMap(NoPorts, {})
        BY DEF PortMap, NoPorts, IsInjective
      <3> QED BY <1>1, <2>1, <2>2, <3>1, <3>2
    <2>3. CASE m # 0
      <3>1. m \in 1..N /\ m - 1 \in 0..N /\ m \in Nat \ {0}
        BY <1>2, <2>1, <2>3
      <3>2. m - 1 \notin T
        BY <2>1, <3>1
      <3>3. Fits(m - 1)
        BY <3>1, <3>2
      <3>4. f[m] = Extended(f[m - 1], names[m], h1, h2)
        BY <1>1, <3>1
      <3>5. h1[names[m]] \in Nat /\ h2[names[m]] \in Nat
        BY <3>1 DEF N
      <3>6. ASSUME f[m] # NoPlan
            PROVE  PortMap(f[m], Seen(names, m - 1) \cup {names[m]})
        <4>1. FreeProbes(f[m - 1], names[m], h1, h2) # {}
          BY <3>4, <3>6 DEF Extended
        <4>2. PortMap(f[m - 1], Seen(names, m - 1))
          BY <3>3, <4>1 DEF FreeProbes
        <4> QED BY <4>2, <3>4, <3>5, <4>1, ExtendedKeeps
      <3>7. Fits(m)
        BY <3>1, <3>6, SeenNext
      <3> QED BY <2>1, <3>7
    <2> QED BY <2>2, <2>3
  <1>4. Fits(N)
    BY <1>2, <1>3
  <1> QED BY <1>1, <1>4 DEF N

\* Up to the size of the pool, every name gets a port.
LEMMA EnoughPorts ==
  ASSUME NEW names, NEW h1, NEW h2, Len(names) \in 0..PortPool,
         \A i \in 1..Len(names) : h1[names[i]] \in Nat /\ h2[names[i]] \in Nat,
         \A k \in 0..Len(names) : NoPlan \notin [Seen(names, k) -> Pool]
  PROVE  assignPorts(names, h1, h2) # NoPlan
  <1> DEFINE N == Len(names)
  <1>0. N \in Nat /\ N <= PortPool
    BY PoolAssumption
  <1>1. PICK f : /\ f[0] = NoPorts
                 /\ \A k \in 1..N : f[k] = Extended(f[k - 1], names[k], h1, h2)
                 /\ assignPorts(names, h1, h2) = f[N]
    BY <1>0, PortsRecursion
  <1> HIDE DEF N
  <1> DEFINE Fits(k) == f[k] # NoPlan /\ PortMap(f[k], Seen(names, k))
             T == {k \in 0..N : ~ Fits(k)}
  <1>2. ASSUME NEW k \in 0..N, PortMap(f[k], Seen(names, k)) PROVE Fits(k)
    BY <1>2 DEF PortMap, N
  <1>3. ASSUME T # {} PROVE FALSE
    <2>1. PICK m \in T : \A k \in T : m <= k
      <3>1. T \in SUBSET Nat
        BY <1>0
      <3> HIDE DEF T
      <3> QED BY <1>3, <3>1, LeastNumber
    <2>2. CASE m = 0
      <3>1. Seen(names, 0) = {}
        BY DEF Seen
      <3>2. PortMap(NoPorts, {})
        BY DEF PortMap, NoPorts, IsInjective
      <3>3. PortMap(f[m], Seen(names, m))
        BY <1>1, <2>2, <3>1, <3>2
      <3> QED BY <1>2, <2>1, <3>3
    <2>3. CASE m # 0
      <3>1. m \in 1..N /\ m - 1 \in 0..N /\ m \in Nat \ {0} /\ m - 1 < PortPool
        BY <1>0, <2>1, <2>3, PoolAssumption
      <3>2. m - 1 \notin T
        BY <2>1, <3>1
      <3>3. Fits(m - 1)
        BY <3>1, <3>2
      <3>4. f[m] = Extended(f[m - 1], names[m], h1, h2)
        BY <1>1, <3>1
      <3>5. h1[names[m]] \in Nat /\ h2[names[m]] \in Nat
        BY <3>1 DEF N
      <3>6. /\ IsFiniteSet(Seen(names, m - 1))
            /\ Cardinality(Seen(names, m - 1)) < PortPool
        <4>1. /\ IsFiniteSet(Seen(names, m - 1))
              /\ Cardinality(Seen(names, m - 1)) <= m - 1
          BY <3>1, SeenFinite
        <4>2. Cardinality(Seen(names, m - 1)) \in Nat
          BY <4>1, FS_CardinalityType
        <4> QED BY <3>1, <4>1, <4>2, PoolAssumption
      <3>7. FreeProbes(f[m - 1], names[m], h1, h2) # {}
        BY <3>3, <3>5, <3>6, ExtendedFinds
      <3>8. PortMap(f[m], Seen(names, m - 1) \cup {names[m]})
        BY <3>3, <3>4, <3>5, <3>7, ExtendedKeeps
      <3>9. PortMap(f[m], Seen(names, m))
        BY <3>1, <3>8, SeenNext
      <3> QED BY <1>2, <2>1, <3>9
    <2> QED BY <2>2, <2>3
  <1>4. Fits(N)
    BY <1>0, <1>3
  <1> QED BY <1>1, <1>4

\* Names that all differ and that all have a port of their own are not more
\* than the pool has ports.
LEMMA NotMoreThanPorts ==
  ASSUME NEW n \in Nat, NEW S, NEW m, PortMap(m, S),
         IsFiniteSet(S), Cardinality(S) = n
  PROVE  n <= PortPool
  <1>1. IsFiniteSet(Pool) /\ Cardinality(Pool) = PortPool
    <2>1. PortBase \in Int /\ PortBase + PortPool - 1 \in Int
      BY PoolAssumption
    <2>2. /\ IsFiniteSet(Pool)
          /\ Cardinality(Pool) =
               IF PortBase > PortBase + PortPool - 1 THEN 0
               ELSE (PortBase + PortPool - 1) - PortBase + 1
      BY <2>1, FS_Interval DEF Pool
    <2> QED BY <2>2, PoolAssumption
  <1>2. m \in Injection(S, Pool)
    BY DEF PortMap, Injection, IsInjective
  <1> QED BY <1>1, <1>2, FS_Injection

\* PortsFound: whatever the hashes, a name gets a port as long as there is
\* one, no port is given twice, and an error is returned exactly when there
\* are more names than ports (assignPorts).
THEOREM ProbingIsComplete == PortsFound
  <1>1. SUFFICES ASSUME NEW n \in 0..(PortPool + 1),
                        NEW h1 \in [1..n -> 0..PortPool],
                        NEW h2 \in [1..n -> 0..PortPool]
                 PROVE  LET ports == assignPorts([k \in 1..n |-> k], h1, h2)
                        IN  IF n > PortPool THEN ports = NoPlan
                            ELSE /\ ports # NoPlan
                                 /\ IsInjective(ports)
                                 /\ \A k \in 1..n : ports[k] \in Pool
    BY DEF PortsFound
  <1> DEFINE names == [k \in 1..n |-> k]
             ports == assignPorts(names, h1, h2)
  <1>2. n \in Nat /\ Len(names) = n
    BY PoolAssumption
  <1>3. \A i \in 1..n : h1[names[i]] \in Nat /\ h2[names[i]] \in Nat
    BY PoolAssumption
  <1>4. \A k \in 0..n : Seen(names, k) = 1..k
    <2>1. ASSUME NEW k \in 0..n PROVE \A i \in 1..k : names[i] = i
      BY <1>2
    <2> HIDE DEF names
    <2> QED BY <2>1 DEF Seen
  <1> HIDE DEF names
  <1>5. ports # NoPlan => PortMap(ports, 1..n)
    BY <1>2, <1>3, <1>4, AssignedPorts
  <1>6. CASE n > PortPool
    <2>1. IsFiniteSet(1..n) /\ Cardinality(1..n) = n
      BY <1>2, FS_Interval
    <2>2. ASSUME PortMap(ports, 1..n) PROVE FALSE
      BY <1>2, <1>6, <2>1, <2>2, NotMoreThanPorts, PoolAssumption
    <2> QED BY <1>5, <1>6, <2>2 DEF names
  <1>7. CASE ~(n > PortPool)
    <2>1. n \in 0..PortPool
      BY <1>2, <1>7, PoolAssumption
    <2>2. \A k \in 0..n : NoPlan \notin [Seen(names, k) -> Pool]
      <3>1. \A k \in 0..n : k \in 0..PortPool
        BY <2>1, PoolAssumption
      <3> QED BY <1>4, <3>1, ErrorAssumption
    <2>3. ports # NoPlan
      BY <1>2, <1>3, <2>1, <2>2, EnoughPorts
    <2>4. IsInjective(ports) /\ \A k \in 1..n : ports[k] \in Pool
      BY <1>5, <2>3 DEF PortMap
    <2> QED BY <1>7, <2>3, <2>4 DEF names
  <1> QED BY <1>6, <1>7

\* The ports of one pipeline: distinct ones of the pool, for all its
\* Prometheus outputs.
LEMMA PipelinePorts ==
  ASSUME NEW datas, NEW p,
         IsFiniteSet(PrometheusNames),
         \A n \in {p} \X PrometheusNames : StartHash(n) \in Nat /\ StepHash(n) \in Nat,
         pipelinePortMap(datas, p) # NoPlan
  PROVE  PortMap(pipelinePortMap(datas, p),
                 {p} \X (DOMAIN datas[p].outputs \cap PrometheusNames))
  <1> DEFINE names == DOMAIN datas[p].outputs \cap PrometheusNames
             instances == {p} \X names
             order == SetToSeq(instances)
             h1 == [n \in instances |-> StartHash(n)]
             h2 == [n \in instances |-> StepHash(n)]
  <1>1. IsFiniteSet(instances)
    <2>1. IsFiniteSet(names)
      BY FS_Subset
    <2> DEFINE g == [n \in names |-> <<p, n>>]
    <2>2. g \in Surjection(names, instances)
      BY DEF Surjection
    <2> HIDE DEF names, g, instances
    <2> QED BY <2>1, <2>2, FS_Surjection
  <1>2. pipelinePortMap(datas, p) = assignPorts(order, h1, h2)
    BY DEF pipelinePortMap
  <1>3. Len(order) \in Nat /\ Seen(order, Len(order)) = instances
    <2>1. Cardinality(instances) \in Nat
      BY <1>1, FS_CardinalityType
    <2>2. PICK g \in Bijection(1..Cardinality(instances), instances) : TRUE
      BY <1>1, FS_CardinalityType DEF ExistsBijection
    <2>3. g \in [1..Cardinality(instances) -> instances] /\ IsInjective(g)
      BY <2>2 DEF Bijection, Injection, IsInjective
    <2>4. /\ order \in [1..Cardinality(instances) -> instances]
          /\ IsInjective(order)
      <3> HIDE DEF instances
      <3> QED BY <2>3 DEF SetToSeq
    <2> HIDE DEF order, instances
    <2>5. Len(order) = Cardinality(instances)
      BY <2>1, <2>4
    <2>6. order \in Surjection(1..Cardinality(instances), instances)
      <3>1. order \in Injection(1..Cardinality(instances), instances)
        BY <2>4 DEF Injection, IsInjective
      <3>2. Cardinality(1..Cardinality(instances)) = Cardinality(instances)
        BY <2>1, FS_Interval
      <3> QED BY <1>1, <3>1, <3>2, FS_Injection
    <2>7. Seen(order, Cardinality(instances)) = instances
      BY <2>6 DEF Seen, Surjection
    <2> QED BY <2>1, <2>5, <2>7
  <1>4. \A i \in 1..Len(order) : h1[order[i]] \in Nat /\ h2[order[i]] \in Nat
    <2>1. \A i \in 1..Len(order) : order[i] \in instances
      BY <1>3 DEF Seen
    <2> HIDE DEF order
    <2> QED BY <2>1
  <1> HIDE DEF order, h1, h2, instances
  <1> QED BY <1>2, <1>3, <1>4, AssignedPorts DEF instances
=============================================================================
