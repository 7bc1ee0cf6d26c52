---------------------------- MODULE LoaderProofs ----------------------------
(***************************************************************************)
(* Proofs about HTTPLoader: the types of the loader and its chunks, and    *)
(* the chunking of a fetched list, for any list, chunk size, buffer size   *)
(* and pagination.                                                         *)
(***************************************************************************)
EXTENDS HTTPLoader, SequenceTheorems, WellFoundedInduction, TLAPS

\* A set of natural numbers that is not empty has a first element.
LEMMA FirstNumber ==
  ASSUME NEW T \in SUBSET Nat, T # {}
  PROVE  \E m \in T : \A k \in T : m <= k
  <1>1. IsWellFoundedOn(OpToRel(<, Nat), Nat)
    BY NatLessThanWellFounded
  <1>2. PICK m \in T : \A k \in T : <<k, m>> \notin OpToRel(<, Nat)
    BY <1>1, WFMin
  <1>3. \A k \in T : ~(k < m)
    BY <1>2 DEF OpToRel
  <1> QED BY <1>3

(***************************************************************************)
(* Facts about chunks.                                                     *)
(***************************************************************************)

\* createDiscoverySnapshots announces at least one chunk for a nonempty list.
LEMMA ChunkCount ==
  ASSUME NEW n \in Nat
  PROVE  /\ totalChunks(n) \in Nat
         /\ n # 0 => totalChunks(n) >= 1
  BY ChunkAssumption DEF totalChunks

\* A chunk of a list of discovered targets is such a list.
LEMMA ChunkTyped ==
  ASSUME NEW list \in Seq(DiscoveredTarget), NEW k \in Nat
  PROVE  chunkOf(list, k) \in Seq(DiscoveredTarget)
  <1> DEFINE first == k * ChunkSize + 1
             last == IF (k + 1) * ChunkSize > Len(list) THEN Len(list)
                     ELSE (k + 1) * ChunkSize
  <1>1. first \in Nat /\ first >= 1
    BY ChunkAssumption
  <1>2. last \in Nat /\ last <= Len(list)
    BY ChunkAssumption
  <1>3. \A i \in first..last : list[i] \in DiscoveredTarget
    BY <1>1, <1>2
  <1> HIDE DEF first, last
  <1>4. SubSeq(list, first, last) \in Seq(DiscoveredTarget)
    BY <1>1, <1>2, <1>3, SubSeqProperties
  <1> QED BY <1>4 DEF chunkOf, first, last

\* The chunks made of a nonempty list: a nonempty sequence of messages, each
\* announcing the total and carrying the part its index stands for.
LEMMA SnapshotsTyped ==
  ASSUME NEW list \in Seq(DiscoveredTarget), list # <<>>, NEW id \in IDs
  PROVE  /\ createDiscoverySnapshots(list, id) \in Seq(DiscoverySnapshot)
         /\ createDiscoverySnapshots(list, id) # <<>>
         /\ \A i \in 1..Len(createDiscoverySnapshots(list, id)) :
              LET m == createDiscoverySnapshots(list, id)[i]
              IN  /\ m.id = id
                  /\ m.total = totalChunks(Len(list))
                  /\ m.index \in 0..(m.total - 1)
                  /\ m.targets = chunkOf(list, m.index)
  <1> DEFINE n == totalChunks(Len(list))
  <1> DEFINE cs == createDiscoverySnapshots(list, id)
  <1>1. n \in Nat /\ n >= 1
    BY ChunkCount, EmptySeq, LenProperties
  <1> DEFINE e(k) == [type |-> "snapshot", id |-> id, index |-> k - 1,
                      total |-> n, targets |-> chunkOf(list, k - 1)]
  <1>2. \A k \in 1..n : e(k) \in DiscoverySnapshot
    BY <1>1, ChunkTyped DEF DiscoverySnapshot
  <1>3. cs = [k \in 1..n |-> e(k)]
    BY DEF createDiscoverySnapshots
  <1> HIDE DEF n, cs, e
  <1>4. cs \in Seq(DiscoverySnapshot) /\ Len(cs) = n
    BY <1>1, <1>2, <1>3
  <1>5. \A k \in 1..n : cs[k] = e(k)
    BY <1>3
  <1>6. cs # <<>>
    BY <1>1, <1>4, EmptySeq
  <1>7. \A i \in 1..Len(cs) :
          /\ cs[i].id = id
          /\ cs[i].total = n
          /\ cs[i].index \in 0..(cs[i].total - 1)
          /\ cs[i].targets = chunkOf(list, cs[i].index)
    BY <1>1, <1>4, <1>5 DEF e
  <1> QED BY <1>4, <1>6, <1>7 DEF n, cs

\* The chunks announced are enough for the list, and none of them is empty.
LEMMA ChunksCover ==
  ASSUME NEW n \in Nat
  PROVE  /\ totalChunks(n) * ChunkSize >= n
         /\ \A k \in Nat : k < totalChunks(n) => k * ChunkSize < n
  <1> DEFINE q == (n + ChunkSize - 1) \div ChunkSize
             r == (n + ChunkSize - 1) % ChunkSize
  <1>1. ChunkSize \in Nat /\ ChunkSize > 0
    BY ChunkAssumption
  <1>2. q \in Nat
    BY <1>1
  <1>3. r \in Int /\ 0 <= r /\ r < ChunkSize
    BY <1>1
  <1>4. n + ChunkSize - 1 = ChunkSize * q + r
    BY <1>1
  <1>5. totalChunks(n) = q
    BY DEF totalChunks
  <1> HIDE DEF q, r
  <1>6. q * ChunkSize = ChunkSize * q /\ q * ChunkSize \in Nat
    BY <1>1, <1>2
  <1>7. q * ChunkSize >= n
    BY <1>1, <1>3, <1>4, <1>6
  <1>8. ASSUME NEW k \in Nat, k < q PROVE k * ChunkSize < n
    <2>1. PICK d \in Nat : q = k + 1 + d
      <3>1. q - k - 1 \in Nat /\ q = k + 1 + (q - k - 1)
        BY <1>2, <1>8
      <3> QED BY <3>1
    <2>2. q * ChunkSize = k * ChunkSize + ChunkSize + d * ChunkSize
      BY <1>1, <2>1
    <2>3. d * ChunkSize \in Nat /\ k * ChunkSize \in Nat
      BY <1>1
    <2>4. k * ChunkSize + ChunkSize <= q * ChunkSize
      BY <1>1, <2>2, <2>3
    <2>5. q * ChunkSize <= n + ChunkSize - 1
      BY <1>1, <1>3, <1>4, <1>6
    <2> QED BY <1>1, <2>3, <2>4, <2>5, <1>6
  <1> QED BY <1>5, <1>7, <1>8

(***************************************************************************)
(* The chunks put together again.                                          *)
(***************************************************************************)

\* Two parts of a list that meet are one part of it.
LEMMA PartsJoin ==
  ASSUME NEW S, NEW list \in Seq(S), NEW x \in Nat, NEW y \in Nat, NEW z \in Nat,
         x <= y, y <= z, z <= Len(list)
  PROVE  SubSeq(list, x + 1, y) \o SubSeq(list, y + 1, z) = SubSeq(list, x + 1, z)
  <1> DEFINE s == SubSeq(list, x + 1, y)
             t == SubSeq(list, y + 1, z)
             u == SubSeq(list, x + 1, z)
  <1>0. \A i \in 1..Len(list) : list[i] \in S
    OBVIOUS
  <1>1. /\ s \in Seq(S) /\ Len(s) = y - x
        /\ \A i \in 1..(y - x) : s[i] = list[x + i]
    <2>1. \A i \in (x + 1)..y : list[i] \in S
      BY <1>0
    <2>2. /\ s \in Seq(S) /\ Len(s) = IF x + 1 <= y THEN y - (x + 1) + 1 ELSE 0
          /\ \A i \in 1..(y - (x + 1) + 1) : s[i] = list[x + 1 + i - 1]
      BY <2>1, SubSeqProperties
    <2> HIDE DEF s
    <2> QED BY <2>2
  <1>2. /\ t \in Seq(S) /\ Len(t) = z - y
        /\ \A i \in 1..(z - y) : t[i] = list[y + i]
    <2>1. \A i \in (y + 1)..z : list[i] \in S
      BY <1>0
    <2>2. /\ t \in Seq(S) /\ Len(t) = IF y + 1 <= z THEN z - (y + 1) + 1 ELSE 0
          /\ \A i \in 1..(z - (y + 1) + 1) : t[i] = list[y + 1 + i - 1]
      BY <2>1, SubSeqProperties
    <2> HIDE DEF t
    <2> QED BY <2>2
  <1>3. /\ u \in Seq(S) /\ Len(u) = z - x
        /\ \A i \in 1..(z - x) : u[i] = list[x + i]
    <2>1. \A i \in (x + 1)..z : list[i] \in S
      BY <1>0
    <2>2. /\ u \in Seq(S) /\ Len(u) = IF x + 1 <= z THEN z - (x + 1) + 1 ELSE 0
          /\ \A i \in 1..(z - (x + 1) + 1) : u[i] = list[x + 1 + i - 1]
      BY <2>1, SubSeqProperties
    <2> HIDE DEF u
    <2> QED BY <2>2
  <1> HIDE DEF s, t, u
  <1>4. /\ s \o t \in Seq(S) /\ Len(s \o t) = z - x
        /\ \A i \in 1..(z - x) :
             (s \o t)[i] = IF i <= y - x THEN s[i] ELSE t[i - (y - x)]
    <2>1. /\ s \o t \in Seq(S) /\ Len(s \o t) = Len(s) + Len(t)
          /\ \A i \in 1..(Len(s) + Len(t)) :
               (s \o t)[i] = IF i <= Len(s) THEN s[i] ELSE t[i - Len(s)]
      BY <1>1, <1>2, ConcatProperties
    <2>2. Len(s) + Len(t) = z - x
      BY <1>1, <1>2
    <2> QED BY <1>1, <2>1, <2>2
  <1>5. \A i \in 1..(z - x) : (s \o t)[i] = u[i]
    <2> TAKE i \in 1..(z - x)
    <2>1. CASE i <= y - x
      <3>1. i \in 1..(y - x)
        BY <2>1
      <3>2. (s \o t)[i] = s[i]
        BY <2>1, <1>4, Zenon
      <3> QED BY <3>1, <3>2, <1>1, <1>3, Zenon
    <2>2. CASE i > y - x
      <3> DEFINE j == i - (y - x)
      <3>1. j \in 1..(z - y) /\ y + j = x + i
        BY <2>2
      <3>2. (s \o t)[i] = t[j]
        BY <2>2, <1>4
      <3> HIDE DEF j
      <3>3. t[j] = list[y + j]
        BY <3>1, <1>2
      <3> QED BY <3>1, <3>2, <3>3, <1>3
    <2>3. i <= y - x \/ i > y - x
      OBVIOUS
    <2> QED BY <2>1, <2>2, <2>3, Zenon
  <1>6. s \o t = u
    BY <1>3, <1>4, <1>5, SeqEqual
  <1> QED BY <1>6 DEF s, t, u

\* f is the function that FlattenSeq defines by recursion.
IsFlatten(f, parts) ==
  f = [i \in 1..Len(parts) |-> IF i = 1 THEN parts[i] ELSE f[i - 1] \o parts[i]]

\* FlattenSeq of a nonempty sequence in terms of IsFlatten.
LEMMA FlattenIs ==
  ASSUME NEW parts, Len(parts) # 0
  PROVE  FlattenSeq(parts) = (CHOOSE f : IsFlatten(f, parts))[Len(parts)]
  BY DEF FlattenSeq, IsFlatten

\* Parts that lie one after the other in a list flatten to one part of it.
LEMMA FlattenParts ==
  ASSUME NEW S, NEW list \in Seq(S), NEW n \in Nat \ {0},
         NEW c, \A i \in 0..n : c[i] \in 0..Len(list) /\ c[0] <= c[i],
         \A i \in 1..n : c[i - 1] <= c[i],
         NEW parts, Len(parts) = n,
         \A i \in 1..n : parts[i] = SubSeq(list, c[i - 1] + 1, c[i])
  PROVE  FlattenSeq(parts) = SubSeq(list, c[0] + 1, c[n])
  <1> DEFINE g == [i \in 1..n |-> SubSeq(list, c[0] + 1, c[i])]
             f == CHOOSE h : IsFlatten(h, parts)
  <1>1. ASSUME NEW i \in 2..n
        PROVE  SubSeq(list, c[0] + 1, c[i - 1]) \o parts[i]
                 = SubSeq(list, c[0] + 1, c[i])
    <2>1. i \in 1..n /\ i - 1 \in 0..n /\ i \in 0..n /\ 0 \in 0..n
      OBVIOUS
    <2>2. parts[i] = SubSeq(list, c[i - 1] + 1, c[i])
      BY <2>1
    <2>3. /\ c[0] \in Nat /\ c[i - 1] \in Nat /\ c[i] \in Nat
          /\ c[0] <= c[i - 1] /\ c[i - 1] <= c[i] /\ c[i] <= Len(list)
      BY <2>1
    <2>4. SubSeq(list, c[0] + 1, c[i - 1]) \o SubSeq(list, c[i - 1] + 1, c[i])
            = SubSeq(list, c[0] + 1, c[i])
      <3>1. \A x, y, z \in Nat :
              x <= y /\ y <= z /\ z <= Len(list) =>
                SubSeq(list, x + 1, y) \o SubSeq(list, y + 1, z)
                  = SubSeq(list, x + 1, z)
        BY PartsJoin
      <3> QED BY <2>3, <3>1, Zenon
    <2> QED BY <2>2, <2>4, Zenon
  <1>2. IsFlatten(g, parts)
    <2>1. ASSUME NEW i \in 1..n
          PROVE  g[i] = IF i = 1 THEN parts[i] ELSE g[i - 1] \o parts[i]
      <3>1. CASE i = 1
        BY <3>1
      <3>2. CASE i # 1
        <4>1. i \in 2..n /\ i - 1 \in 1..n
          BY <3>2
        <4> QED BY <3>2, <4>1, <1>1
      <3> QED BY <3>1, <3>2
    <2>2. g = [i \in 1..n |-> g[i]]
      OBVIOUS
    <2> HIDE DEF g
    <2>3. g = [i \in 1..n |-> IF i = 1 THEN parts[i] ELSE g[i - 1] \o parts[i]]
      BY <2>1, <2>2
    <2> QED BY <2>3 DEF IsFlatten
  <1>3. IsFlatten(f, parts)
    BY <1>2
  <1>4. FlattenSeq(parts) = f[n]
    BY FlattenIs
  <1> HIDE DEF f
  <1>5. \A i \in 1..n : f[i] = IF i = 1 THEN parts[i] ELSE f[i - 1] \o parts[i]
    BY <1>3 DEF IsFlatten
  <1> DEFINE T == {i \in 1..n : f[i] # g[i]}
  <1>6. T = {}
    <2> SUFFICES ASSUME T # {} PROVE FALSE
      OBVIOUS
    <2>1. T \in SUBSET Nat
      OBVIOUS
    <2> HIDE DEF T
    <2>2. PICK m \in T : \A k \in T : m <= k
      BY <2>1, FirstNumber
    <2>3. m \in 1..n /\ f[m] # g[m]
      BY <2>2 DEF T
    <2>4. CASE m = 1
      <3>1. g[1] = parts[1]
        <4>1. 1 \in 1..n /\ 1 - 1 = 0
          OBVIOUS
        <4>2. parts[1] = SubSeq(list, c[0] + 1, c[1])
          BY <4>1
        <4> QED BY <4>1, <4>2
      <3> HIDE DEF g
      <3> QED BY <3>1, <2>3, <2>4, <1>5
    <2>5. CASE m # 1
      <3>1. m - 1 \in 1..n /\ m \in 2..n
        BY <2>3, <2>5
      <3>2. f[m - 1] = g[m - 1]
        BY <2>2, <2>3, <3>1 DEF T
      <3>3. g[m] = g[m - 1] \o parts[m]
        <4>1. /\ g[m] = SubSeq(list, c[0] + 1, c[m])
              /\ g[m - 1] = SubSeq(list, c[0] + 1, c[m - 1])
          BY <3>1, <2>3
        <4> HIDE DEF g
        <4> QED BY <3>1, <4>1, <1>1, Zenon
      <3>4. f[m] = f[m - 1] \o parts[m]
        BY <2>3, <2>5, <1>5
      <3> HIDE DEF g
      <3> QED BY <3>2, <3>3, <3>4, <2>3, Zenon
    <2> QED BY <2>4, <2>5
  <1>7. n \in 1..n
    OBVIOUS
  <1>8. g[n] = SubSeq(list, c[0] + 1, c[n])
    BY <1>7
  <1> HIDE DEF g
  <1>9. f[n] = g[n]
    BY <1>6, <1>7, Zenon
  <1> QED BY <1>4, <1>8, <1>9, Zenon

\* The rest of a list is a suffix of it.
LEMMA RestIsSuffix ==
  ASSUME NEW S, NEW list \in Seq(S), NEW x \in 0..Len(list)
  PROVE  /\ IsSuffix(SubSeq(list, x + 1, Len(list)), list)
         /\ Len(SubSeq(list, x + 1, Len(list))) = Len(list) - x
  <1> DEFINE n == Len(list)
             k == n - x
             s == SubSeq(list, x + 1, n)
             rs == [i \in 1..k |-> s[k - i + 1]]
             rl == [i \in 1..n |-> list[n - i + 1]]
  <1>0. n \in Nat /\ k \in 0..n /\ x \in Nat
    OBVIOUS
  <1>1. s \in Seq(S) /\ Len(s) = k /\ \A i \in 1..k : s[i] = list[x + i]
    <2>1. \A i \in (x + 1)..n : list[i] \in S
      OBVIOUS
    <2>2. /\ s \in Seq(S) /\ Len(s) = IF x + 1 <= n THEN n - (x + 1) + 1 ELSE 0
          /\ \A i \in 1..(n - (x + 1) + 1) : s[i] = list[x + 1 + i - 1]
      BY <2>1, SubSeqProperties
    <2> HIDE DEF s
    <2> QED BY <2>2
  <1>2. Reverse(s) = rs /\ Reverse(list) = rl
    BY <1>1 DEF Reverse
  <1>3. rl \in Seq(S) /\ Len(rl) = n /\ \A i \in 1..n : rl[i] = list[n - i + 1]
    <2>1. \A i \in 1..n : list[n - i + 1] \in S
      OBVIOUS
    <2> QED BY <2>1
  <1>4. rs \in Seq(S) /\ Len(rs) = k /\ \A i \in 1..k : rs[i] = list[n - i + 1]
    <2>1. \A i \in 1..k : k - i + 1 \in 1..k /\ x + (k - i + 1) = n - i + 1
      OBVIOUS
    <2> HIDE DEF s, k
    <2>2. \A i \in 1..k : s[k - i + 1] = list[n - i + 1]
      BY <1>1, <2>1
    <2>3. \A i \in 1..k : s[k - i + 1] \in S
      BY <1>0, <1>1, <2>1
    <2> QED BY <1>0, <2>2, <2>3
  <1> HIDE DEF rs, rl, s, k
  <1>5. SubSeq(rl, 1, k) \in Seq(S) /\ Len(SubSeq(rl, 1, k)) = k
        /\ \A i \in 1..k : SubSeq(rl, 1, k)[i] = rl[i]
    <2>1. \A i \in 1..k : rl[i] \in S
      BY <1>0, <1>3
    <2>2. /\ SubSeq(rl, 1, k) \in Seq(S)
          /\ Len(SubSeq(rl, 1, k)) = IF 1 <= k THEN k - 1 + 1 ELSE 0
          /\ \A i \in 1..(k - 1 + 1) : SubSeq(rl, 1, k)[i] = rl[1 + i - 1]
      BY <1>0, <2>1, SubSeqProperties
    <2> QED BY <1>0, <2>2
  <1>6. SubSeq(rs, 1, k) \in Seq(S) /\ Len(SubSeq(rs, 1, k)) = k
        /\ \A i \in 1..k : SubSeq(rs, 1, k)[i] = rs[i]
    <2>1. \A i \in 1..k : rs[i] \in S
      BY <1>0, <1>4
    <2>2. /\ SubSeq(rs, 1, k) \in Seq(S)
          /\ Len(SubSeq(rs, 1, k)) = IF 1 <= k THEN k - 1 + 1 ELSE 0
          /\ \A i \in 1..(k - 1 + 1) : SubSeq(rs, 1, k)[i] = rs[1 + i - 1]
      BY <1>0, <2>1, SubSeqProperties
    <2> QED BY <1>0, <2>2
  <1>7. \A i \in 1..k : rs[i] = rl[i]
    <2>1. \A i \in 1..k : i \in 1..n
      BY <1>0
    <2> QED BY <1>3, <1>4, <2>1, Zenon
  <1>8. SubSeq(rs, 1, k) = SubSeq(rl, 1, k)
    <2>1. \A i \in 1..k : SubSeq(rs, 1, k)[i] = SubSeq(rl, 1, k)[i]
      BY <1>5, <1>6, <1>7, Zenon
    <2> QED BY <1>5, <1>6, <2>1, SeqEqual
  <1>9. IsPrefix(Reverse(s), Reverse(list))
    BY <1>0, <1>2, <1>3, <1>4, <1>8 DEF IsPrefix
  <1> QED BY <1>1, <1>9 DEF IsSuffix, s, k

\* A chunk ends where the next one begins, or with the list.
LEMMA ChunkBounds ==
  ASSUME NEW list \in Seq(DiscoveredTarget), NEW k \in Nat,
         k < totalChunks(Len(list))
  PROVE  LET end == IF (k + 1) * ChunkSize > Len(list) THEN Len(list)
                    ELSE (k + 1) * ChunkSize
         IN  /\ chunkOf(list, k) = SubSeq(list, k * ChunkSize + 1, end)
             /\ k * ChunkSize \in 0..Len(list) /\ end \in 0..Len(list)
             /\ k * ChunkSize < end
             /\ end - k * ChunkSize <= ChunkSize
             /\ Len(chunkOf(list, k)) = end - k * ChunkSize
             /\ k + 1 < totalChunks(Len(list)) => end = (k + 1) * ChunkSize
             /\ k + 1 = totalChunks(Len(list)) => end = Len(list)
  <1> DEFINE n == Len(list)
             x == k * ChunkSize
             y == (k + 1) * ChunkSize
             end == IF y > n THEN n ELSE y
  <1>1. n \in Nat /\ ChunkSize \in Nat /\ ChunkSize > 0
    BY ChunkAssumption
  <1>2. x \in Nat /\ y \in Nat /\ y = x + ChunkSize
    BY <1>1
  <1>3. x < n
    BY <1>1, ChunksCover
  <1>4. k + 1 < totalChunks(n) => y < n
    BY <1>1, ChunksCover
  <1>5. k + 1 = totalChunks(n) => y >= n
    BY <1>1, ChunksCover
  <1>6. chunkOf(list, k) = SubSeq(list, x + 1, end)
    BY DEF chunkOf
  <1> HIDE DEF x, y
  <1>7. end \in 0..n /\ x < end /\ end - x <= ChunkSize
    BY <1>1, <1>2, <1>3
  <1>8. /\ k + 1 < totalChunks(n) => end = y
        /\ k + 1 = totalChunks(n) => end = n
    BY <1>1, <1>2, <1>4, <1>5
  <1>9. \A i \in (x + 1)..end : list[i] \in DiscoveredTarget
    BY <1>2, <1>7
  <1> HIDE DEF end
  <1>10. Len(SubSeq(list, x + 1, end)) = end - x
    <2>1. Len(SubSeq(list, x + 1, end)) = IF x + 1 <= end THEN end - (x + 1) + 1 ELSE 0
      <3>1. x + 1 \in Int /\ end \in Int
        BY <1>1, <1>2, <1>7
      <3> QED BY <3>1, <1>9, SubSeqProperties
    <2> QED BY <1>1, <1>2, <1>7, <2>1
  <1>11. x \in 0..n
    BY <1>1, <1>2, <1>3
  <1>12. Len(chunkOf(list, k)) = end - x
    BY <1>6, <1>10, Zenon
  <1> QED BY <1>6, <1>7, <1>8, <1>11, <1>12, Zenon DEF x, y, end

\* The chunks of a list from number m on, put one after the other, are the
\* rest of the list.
LEMMA ChunksJoin ==
  ASSUME NEW list \in Seq(DiscoveredTarget), NEW m \in Nat,
         m < totalChunks(Len(list)),
         NEW parts, Len(parts) = totalChunks(Len(list)) - m,
         \A i \in 1..Len(parts) : parts[i] = chunkOf(list, m + i - 1)
  PROVE  FlattenSeq(parts) = SubSeq(list, m * ChunkSize + 1, Len(list))
  <1> DEFINE t == totalChunks(Len(list))
             n == t - m
             end(k) == IF (k + 1) * ChunkSize > Len(list) THEN Len(list)
                       ELSE (k + 1) * ChunkSize
             c == [i \in 0..n |-> IF i = 0 THEN m * ChunkSize ELSE end(m + i - 1)]
  <1>1. t \in Nat /\ n \in Nat \ {0}
    BY ChunkCount
  <1>2. Len(parts) = n
    OBVIOUS
  <1>3. ASSUME NEW i \in 1..n
        PROVE  /\ c[i] = end(m + i - 1) /\ m + i - 1 \in Nat /\ m + i - 1 < t
               /\ c[i - 1] = (m + i - 1) * ChunkSize
    <2>1. m + i - 1 \in Nat /\ m + i - 1 < t /\ i \in 0..n /\ i # 0
      BY <1>1
    <2>2. c[i] = end(m + i - 1)
      <3> HIDE DEF n, end
      <3> QED BY <2>1
    <2>3. CASE i = 1
      BY <1>1, <2>3
    <2>4. CASE i # 1
      <3> DEFINE k == m + i - 2
      <3>1. /\ i - 1 \in 0..n /\ i - 1 # 0 /\ m + (i - 1) - 1 = k
            /\ k \in Nat /\ k + 1 = m + i - 1
        BY <1>1, <2>4
      <3>2. c[i - 1] = end(k)
        <4> HIDE DEF n, end, k
        <4> QED BY <3>1
      <3> HIDE DEF k, n
      <3>3. k + 1 < totalChunks(Len(list)) /\ k < totalChunks(Len(list))
        BY <1>1, <2>1, <3>1
      <3>4. end(k) = (k + 1) * ChunkSize
        BY <3>1, <3>3, ChunkBounds
      <3> QED BY <2>1, <2>2, <3>1, <3>2, <3>4
    <2> QED BY <2>1, <2>2, <2>3, <2>4
  <1>4. c[0] = m * ChunkSize
    <2>1. 0 \in 0..n
      BY <1>1
    <2> HIDE DEF n, end
    <2> QED BY <2>1
  <1>5. c[n] = Len(list)
    <2>1. /\ n \in 1..n
          /\ m + n - 1 \in Nat
          /\ (m + n - 1) + 1 = t
          /\ m + n - 1 < t
      BY <1>1
    <2>2. c[n] = end(m + n - 1)
      BY <2>1, <1>3
    <2> HIDE DEF n, c
    <2>3. end(m + n - 1) = Len(list)
      BY <2>1, ChunkBounds
    <2> QED BY <2>2, <2>3
  <1> HIDE DEF c, n, end
  <1>6. ASSUME NEW i \in 1..n
        PROVE  /\ c[i - 1] < c[i]
               /\ c[i] \in 0..Len(list)
               /\ parts[i] = SubSeq(list, c[i - 1] + 1, c[i])
    <2> DEFINE k == m + i - 1
    <2>1. k \in Nat /\ k < totalChunks(Len(list))
      BY <1>3
    <2>2. parts[i] = chunkOf(list, k)
      BY <1>2
    <2>3. c[i] = end(k) /\ c[i - 1] = k * ChunkSize
      BY <1>3
    <2> HIDE DEF k
    <2>4. /\ chunkOf(list, k) = SubSeq(list, k * ChunkSize + 1, end(k))
          /\ k * ChunkSize < end(k) /\ end(k) \in 0..Len(list)
      BY <2>1, ChunkBounds DEF end
    <2> QED BY <2>2, <2>3, <2>4, Zenon
  <1>7. ASSUME NEW i \in 0..n
        PROVE  c[i] \in 0..Len(list) /\ c[0] <= c[i]
    <2>1. m * ChunkSize \in 0..Len(list)
      BY ChunkBounds
    <2>2. CASE i = 0
      <3>1. m * ChunkSize \in Int
        BY <2>1
      <3> QED BY <2>1, <2>2, <3>1, <1>4
    <2>3. CASE i # 0
      <3>1. i \in 1..n
        BY <2>3, <1>1
      <3>2. c[i] \in 0..Len(list) /\ c[i - 1] = (m + i - 1) * ChunkSize
        BY <3>1, <1>3, <1>6
      <3>3. m * ChunkSize <= (m + i - 1) * ChunkSize
        <4>1. PICK d \in Nat : i - 1 = d
          BY <3>1, <1>1
        <4>2. (m + d) * ChunkSize = m * ChunkSize + d * ChunkSize
          BY ChunkAssumption
        <4>3. m + i - 1 = m + d
          BY <3>1, <4>1, <1>1
        <4>4. m * ChunkSize \in Nat /\ d * ChunkSize \in Nat
          BY ChunkAssumption
        <4>5. m * ChunkSize <= (m + d) * ChunkSize
          BY <4>2, <4>4
        <4> QED BY <4>3, <4>5, Zenon
      <3>4. c[i - 1] < c[i]
        BY <3>1, <1>6
      <3>5. /\ m * ChunkSize \in Int
            /\ (m + i - 1) * ChunkSize \in Int
            /\ c[i] \in Int
        BY <3>1, <3>2, <1>1, ChunkAssumption
      <3> QED BY <3>2, <3>3, <3>4, <3>5, <1>4
    <2> QED BY <2>2, <2>3
  <1>8. \A i \in 1..n : c[i - 1] <= c[i]
    <2> TAKE i \in 1..n
    <2>1. i - 1 \in 0..n /\ i \in 0..n
      BY <1>1
    <2>2. c[i - 1] \in Int /\ c[i] \in Int /\ c[i - 1] < c[i]
      BY <2>1, <1>6, <1>7
    <2> QED BY <2>2
  <1>9. FlattenSeq(parts) = SubSeq(list, c[0] + 1, c[n])
    BY <1>1, <1>2, <1>6, <1>7, <1>8, FlattenParts
  <1> QED BY <1>4, <1>5, <1>9, Zenon

(***************************************************************************)
(* The loader on its own keeps ChunksInv.                                  *)
(***************************************************************************)

\* Initially nothing is to be sent.
LEMMA ChunksInit == LoaderAloneInit => ChunksInv
  <1> SUFFICES ASSUME LoaderAloneInit PROVE ChunksInv
    OBVIOUS
  <1> USE DEF LoaderAloneInit, LoaderInit
  <1>1. ctxDone \in BOOLEAN
    BY Zenon
  <1>2. channel \in Seq(Seq(DiscoveryMessage)) /\ Len(channel) <= BufferSize
    BY BufferAssumption, EmptySeq
  <1>3. LoaderTypeOK
    BY FirstURLAssumption, ChunkAssumption, EmptySeq
    DEF LoaderTypeOK, LoaderPCs
  <1>4. LoaderAloneTypeOK
    BY <1>1, <1>2, <1>3, Zenon DEF LoaderAloneTypeOK, ChannelTypeOK
  <1> QED BY <1>4 DEF ChunksInv

\* The end of a fetch: all chunks of the list are to be sent, or none.
LEMMA SendKeepsChunks ==
  ASSUME ChunksInv, loaderPC = "fetch", NEW id \in IDs,
         NEW list \in Seq(DiscoveredTarget), SendSnapshot(list, id),
         UNCHANGED <<source, fetchErrors, channel, ctxDone>>
  PROVE  ChunksInv'
  <1> USE DEF SendSnapshot, FetchLocalsReset
  <1>0. ChannelTypeOK /\ LoaderTypeOK /\ pending = <<>>
    BY DEF ChunksInv, LoaderAloneTypeOK
  <1>1. ChannelTypeOK'
    BY <1>0 DEF ChannelTypeOK
  <1>2. CASE list = <<>>
    <2>1. LoaderTypeOK'
      BY <1>0, <1>2, FirstURLAssumption, EmptySeq DEF LoaderTypeOK, LoaderPCs
    <2>2. loaderPC' = "wait" /\ pending' = <<>>
      BY <1>0, <1>2
    <2> QED BY <1>1, <2>1, <2>2 DEF ChunksInv, LoaderAloneTypeOK
  <1>3. CASE list # <<>>
    <2> DEFINE cs == createDiscoverySnapshots(list, id)
    <2>1. /\ loaderPC' = "send" /\ pending' = cs
          /\ fetched' = [fetched EXCEPT ![id] = list]
      BY <1>3
    <2>2. cs \in Seq(DiscoverySnapshot) /\ cs # <<>>
      BY <1>3, SnapshotsTyped
    <2>3. fetched' \in [IDs -> Seq(DiscoveredTarget)] /\ fetched'[id] = list
      BY <1>0, <2>1 DEF LoaderTypeOK
    <2>4. createDiscoverySnapshots(fetched'[id], id) = cs
      BY <2>3
    <2> HIDE DEF cs
    <2>5. LoaderTypeOK'
      BY <1>0, <2>1, <2>2, <2>3, FirstURLAssumption, EmptySeq
      DEF LoaderTypeOK, LoaderPCs
    <2>6. Len(cs) \in Nat /\ Len(cs) # 0
      BY <2>2, EmptySeq
    <2>7. 0 \in 0..(Len(cs) - 1) /\ Len(pending') = Len(cs) - 0
      BY <2>1, <2>6
    <2>8. \A i \in 1..Len(pending') : pending'[i] = cs[0 + i]
      BY <2>1, <2>6
    <2>9. Remaining'
      BY <2>4, <2>7, <2>8, Zenon DEF Remaining
    <2> QED BY <1>1, <2>1, <2>2, <2>5, <2>9
        DEF ChunksInv, LoaderAloneTypeOK, Remaining
  <1> QED BY <1>2, <1>3

\* Sending a chunk leaves the ones after it.
LEMMA SendChunkKeepsChunks ==
  ASSUME ChunksInv, SendChunk
  PROVE  ChunksInv'
  <1>0. ChannelTypeOK /\ LoaderTypeOK /\ pending # <<>> /\ Remaining
    BY DEF ChunksInv, LoaderAloneTypeOK, SendChunk, Remaining
  <1>1. /\ pending \in Seq(DiscoverySnapshot)
        /\ channel \in Seq(Seq(DiscoveryMessage))
    BY <1>0 DEF LoaderTypeOK, ChannelTypeOK
  <1>2. /\ pending' = Tail(pending) /\ pending' \in Seq(DiscoverySnapshot)
        /\ Head(pending) \in DiscoverySnapshot
        /\ Len(pending') = Len(pending) - 1
        /\ \A i \in 1..Len(pending') : pending'[i] = pending[i + 1]
    BY <1>0, <1>1, HeadTailProperties DEF SendChunk
  <1>3. <<Head(pending)>> \in Seq(DiscoveryMessage)
    BY <1>2 DEF DiscoveryMessage
  <1>4. /\ channel' \in Seq(Seq(DiscoveryMessage))
        /\ Len(channel') <= BufferSize
    BY <1>1, <1>3, BufferAssumption DEF SendChunk, sendMessages
  <1>5. ChannelTypeOK'
    BY <1>0, <1>4 DEF ChannelTypeOK, SendChunk
  <1>6. Len(pending) \in Nat \ {0} /\ (Len(pending') = 0 <=> pending' = <<>>)
    BY <1>0, <1>1, <1>2, EmptySeq
  <1>7. loaderPC' = IF Len(pending) = 1 THEN "wait" ELSE "send"
    BY DEF SendChunk
  <1>8. loaderPC' = "send" <=> pending' # <<>>
    BY <1>2, <1>6, <1>7
  <1>9. LoaderTypeOK'
    BY <1>0, <1>2, <1>7 DEF LoaderTypeOK, LoaderPCs, SendChunk
  <1>10. ASSUME loaderPC' = "send" PROVE Remaining'
    <2>1. PICK id \in IDs :
            LET chunks == createDiscoverySnapshots(fetched[id], id)
            IN  \E m \in 0..(Len(chunks) - 1) :
                  /\ Len(pending) = Len(chunks) - m
                  /\ \A i \in 1..Len(pending) : pending[i] = chunks[m + i]
      BY <1>0 DEF Remaining
    <2>2. PICK cs : cs = createDiscoverySnapshots(fetched[id], id)
      OBVIOUS
    <2>3. PICK m \in 0..(Len(cs) - 1) :
            /\ Len(pending) = Len(cs) - m
            /\ \A i \in 1..Len(pending) : pending[i] = cs[m + i]
      BY <2>1, <2>2
    <2>4. Len(pending') # 0 /\ Len(pending) \in Nat
      BY <1>6, <1>8, <1>10
    <2>5. Len(cs) \in Int
      <3>1. totalChunks(Len(fetched[id])) \in Nat
        BY <1>0, ChunkCount, LenProperties DEF LoaderTypeOK
      <3>2. Len(cs) = totalChunks(Len(fetched[id]))
        BY <2>2, <3>1 DEF createDiscoverySnapshots
      <3> QED BY <3>1, <3>2
    <2>6. m + 1 \in 0..(Len(cs) - 1) /\ Len(pending') = Len(cs) - (m + 1)
      <3>1. PICK L \in Int, p \in Nat, q \in Nat :
              L = Len(cs) /\ p = Len(pending) /\ q = Len(pending')
        BY <1>2, <2>4, <2>5, LenProperties
      <3>2. q = p - 1 /\ q # 0 /\ m \in 0..(L - 1) /\ p = L - m
        BY <1>2, <2>3, <2>4, <3>1, Zenon
      <3>3. m + 1 \in 0..(L - 1) /\ q = L - (m + 1)
        BY <3>2
      <3> QED BY <3>1, <3>3, Zenon
    <2>7. ASSUME NEW i \in 1..Len(pending')
          PROVE  pending'[i] = cs[(m + 1) + i]
      <3>1. i + 1 \in 1..Len(pending) /\ m + (i + 1) = (m + 1) + i
        BY <1>2, <2>3, <2>4, <2>5
      <3>2. pending'[i] = pending[i + 1]
        BY <1>2
      <3> QED BY <3>1, <3>2, <2>3
    <2>8. cs = createDiscoverySnapshots(fetched'[id], id)
      BY <2>2 DEF SendChunk
    <2>9. \E k \in 0..(Len(cs) - 1) :
            /\ Len(pending') = Len(cs) - k
            /\ \A i \in 1..Len(pending') : pending'[i] = cs[k + i]
      BY <2>6, <2>7
    <2> QED BY <2>8, <2>9, Zenon DEF Remaining
  <1> QED BY <1>5, <1>8, <1>9, <1>10 DEF ChunksInv, LoaderAloneTypeOK, Remaining

\* A step that neither sends nor ends a fetch.
LEMMA QuietKeepsChunks ==
  ASSUME ChunksInv, LoaderAloneTypeOK', UNCHANGED <<fetched, pending>>,
         loaderPC' = "send" <=> loaderPC = "send"
  PROVE  ChunksInv'
  BY DEF ChunksInv, Remaining

\* Every step of the loader, of its source and of its consumer.
LEMMA ChunksNext == ChunksInv /\ [LoaderAloneNext]_loaderAloneVars => ChunksInv'
  <1> SUFFICES ASSUME ChunksInv, [LoaderAloneNext]_loaderAloneVars
               PROVE  ChunksInv'
    OBVIOUS
  <1>0. LoaderAloneTypeOK /\ ChannelTypeOK /\ LoaderTypeOK
    BY DEF ChunksInv, LoaderAloneTypeOK
  <1>1. CASE LoaderStartFails \/ LoaderStarts \/ Tick \/ LoaderStops
    <2>1. LoaderTypeOK'
      BY <1>0, <1>1
      DEF LoaderTypeOK, LoaderPCs, LoaderStartFails, LoaderStarts, Tick,
          LoaderStops
    <2>2. /\ UNCHANGED <<fetched, pending, channel, ctxDone>>
          /\ loaderPC' # "send" /\ loaderPC # "send"
      BY <1>1 DEF LoaderStartFails, LoaderStarts, Tick, LoaderStops
    <2>3. ChannelTypeOK'
      BY <1>0, <2>2 DEF ChannelTypeOK
    <2> QED BY <2>1, <2>2, <2>3, QuietKeepsChunks DEF LoaderAloneTypeOK
  <1>2. CASE FetchFails
    <2>1. fetchErrors' \in 0..MaxFetchErrors
      BY <1>0, <1>2, ChunkAssumption DEF LoaderTypeOK, FetchFails
    <2>2. LoaderTypeOK'
      BY <1>0, <1>2, <2>1, FirstURLAssumption, EmptySeq
      DEF LoaderTypeOK, LoaderPCs, FetchFails, FetchLocalsReset
    <2>3. /\ UNCHANGED <<fetched, pending, channel, ctxDone>>
          /\ loaderPC' # "send" /\ loaderPC # "send"
      BY <1>2 DEF FetchFails
    <2>4. ChannelTypeOK'
      BY <1>0, <2>3 DEF ChannelTypeOK
    <2> QED BY <2>2, <2>3, <2>4, QuietKeepsChunks DEF LoaderAloneTypeOK
  <1>3. CASE SendChunk
    BY <1>3, SendChunkKeepsChunks
  <1>4. CASE SendAborted
    <2>1. LoaderTypeOK'
      BY <1>0, <1>4, EmptySeq DEF LoaderTypeOK, LoaderPCs, SendAborted
    <2>2. ChannelTypeOK'
      BY <1>0, <1>4 DEF ChannelTypeOK, SendAborted
    <2> QED BY <1>4, <2>1, <2>2 DEF ChunksInv, LoaderAloneTypeOK, SendAborted
  <1>5. ASSUME NEW id \in IDs, FetchPage(id)
        PROVE  ChunksInv'
    <2> DEFINE page == source[currentURL]
               list == allTargets \o extractTargetsFromResponse(page)
    <2>1. page \in [items : Seq(DiscoveredTarget), next : URLs \cup {NoNext, BadNext}]
      BY <1>0, SourcesAssumption DEF LoaderTypeOK
    <2>2. list \in Seq(DiscoveredTarget)
      BY <1>0, <2>1 DEF LoaderTypeOK, extractTargetsFromResponse
    <2>3. CASE SendSnapshot(list, id)
      BY <1>5, <2>2, <2>3, SendKeepsChunks DEF FetchPage
    <2>4. CASE ~SendSnapshot(list, id)
      <3>1. /\ page.next \in URLs
            /\ currentURL' = page.next /\ seen' = seen \cup {currentURL}
            /\ allTargets' = list /\ UNCHANGED <<loaderPC, pending, fetched>>
        BY <1>5, <2>4 DEF FetchPage, visited
      <3>2. LoaderTypeOK'
        BY <1>0, <1>5, <2>2, <3>1 DEF LoaderTypeOK, FetchPage
      <3>3. ChannelTypeOK'
        BY <1>0, <1>5 DEF ChannelTypeOK, FetchPage
      <3> QED BY <3>1, <3>2, <3>3, QuietKeepsChunks DEF LoaderAloneTypeOK
    <2> QED BY <2>3, <2>4
  <1>6. ASSUME NEW id \in IDs, PaginationLoop(id)
        PROVE  ChunksInv'
    <2>1. allTargets \in Seq(DiscoveredTarget)
      BY <1>0 DEF LoaderTypeOK
    <2> QED BY <1>6, <2>1, SendKeepsChunks DEF PaginationLoop
  <1>7. CASE SourceChanges
    <2>1. LoaderTypeOK' /\ ChannelTypeOK'
      BY <1>0, <1>7 DEF LoaderTypeOK, ChannelTypeOK, SourceChanges
    <2> QED BY <1>7, <2>1, QuietKeepsChunks DEF LoaderAloneTypeOK, SourceChanges
  <1>8. CASE ConsumerReceives
    <2>1. /\ channel' \in Seq(Seq(DiscoveryMessage))
          /\ Len(channel') = Len(channel) - 1
      BY <1>0, <1>8, HeadTailProperties DEF ChannelTypeOK, ConsumerReceives
    <2>2. ChannelTypeOK'
      BY <1>0, <1>8, <2>1, BufferAssumption DEF ChannelTypeOK, ConsumerReceives
    <2>3. LoaderTypeOK'
      BY <1>0, <1>8 DEF LoaderTypeOK, ConsumerReceives, loaderVars
    <2> QED BY <1>8, <2>2, <2>3, QuietKeepsChunks
        DEF LoaderAloneTypeOK, ConsumerReceives, loaderVars
  <1>9. CASE ContextCancelled
    <2>1. LoaderTypeOK'
      BY <1>0, <1>9 DEF LoaderTypeOK, ContextCancelled, loaderVars
    <2>2. ctxDone' \in BOOLEAN /\ UNCHANGED channel
      BY <1>9, Zenon DEF ContextCancelled
    <2>3. ChannelTypeOK'
      BY <1>0, <2>2, Zenon DEF ChannelTypeOK
    <2> QED BY <1>9, <2>1, <2>3, QuietKeepsChunks
        DEF LoaderAloneTypeOK, ContextCancelled, loaderVars
  <1>10. CASE UNCHANGED loaderAloneVars
    <2>1. LoaderTypeOK' /\ ChannelTypeOK'
      BY <1>0, <1>10
      DEF LoaderTypeOK, ChannelTypeOK, loaderAloneVars, loaderVars
    <2> QED BY <1>10, <2>1, QuietKeepsChunks
        DEF LoaderAloneTypeOK, loaderAloneVars, loaderVars
  <1> QED
    BY <1>1, <1>2, <1>3, <1>4, <1>5, <1>6, <1>7, <1>8, <1>9, <1>10
    DEF LoaderAloneNext, LoaderGoroutine, LoaderStep, LoaderPage

\* The loader alone keeps the inductive invariant.
THEOREM ChunksCorrect == LoaderAloneSpec => []ChunksInv
  BY ChunksInit, ChunksNext, PTL DEF LoaderAloneSpec

\* The loader's state has its types and the channel its capacity, for every
\* pagination, chunk size and buffer size (Loader.Run, sendMessages).
THEOREM LoaderTypeCorrect == LoaderAloneSpec => []LoaderAloneTypeOK
  <1>1. ChunksInv => LoaderAloneTypeOK
    BY DEF ChunksInv
  <1> QED BY <1>1, ChunksCorrect, PTL

\* Cutting a list into chunks and sending them one by one loses, repeats and
\* reorders nothing, for every list, chunk size and pagination
\* (createDiscoverySnapshots, SendSnapshot).
THEOREM NothingLostInChunks == LoaderAloneSpec => []ChunksReassemble
  <1>1. ASSUME ChunksInv, loaderPC = "send"
        PROVE  LET list == fetched[pending[1].id]
                   rest == FlattenSeq([i \in 1..Len(pending) |-> pending[i].targets])
               IN  /\ \A i \in 1..Len(pending) :
                        /\ pending[i].index = pending[1].index + i - 1
                        /\ pending[i].total = pending[1].index + Len(pending)
                        /\ Len(pending[i].targets) \in 1..ChunkSize
                   /\ IsSuffix(rest, list)
                   /\ Len(list) = Len(rest) + pending[1].index * ChunkSize
    <2>1. pending # <<>> /\ pending \in Seq(DiscoverySnapshot) /\ Remaining
      BY <1>1 DEF ChunksInv, LoaderAloneTypeOK, LoaderTypeOK, Remaining
    <2>2. PICK id \in IDs :
            LET chunks == createDiscoverySnapshots(fetched[id], id)
            IN  \E m \in 0..(Len(chunks) - 1) :
                  /\ Len(pending) = Len(chunks) - m
                  /\ \A i \in 1..Len(pending) : pending[i] = chunks[m + i]
      BY <2>1 DEF Remaining
    <2>3. PICK list \in Seq(DiscoveredTarget) : list = fetched[id]
      BY <1>1 DEF ChunksInv, LoaderAloneTypeOK, LoaderTypeOK
    <2>4. PICK t \in Nat : t = totalChunks(Len(list))
      BY <2>3, ChunkCount, LenProperties
    <2> DEFINE e(k) == [type |-> "snapshot", id |-> id, index |-> k - 1,
                        total |-> t, targets |-> chunkOf(list, k - 1)]
    <2>5. createDiscoverySnapshots(fetched[id], id) = [k \in 1..t |-> e(k)]
      BY <2>3, <2>4 DEF createDiscoverySnapshots
    <2>6. PICK cs : cs = [k \in 1..t |-> e(k)]
      OBVIOUS
    <2>7. Len(cs) = t /\ \A k \in 1..t : cs[k] = e(k)
      <3> HIDE DEF e
      <3> QED BY <2>4, <2>6
    <2>8. PICK m \in 0..(t - 1) :
            /\ Len(pending) = t - m
            /\ \A i \in 1..Len(pending) : pending[i] = cs[m + i]
      BY <2>2, <2>5, <2>6, <2>7
    <2>9. PICK n \in Nat \ {0} : n = Len(pending)
      BY <2>1, EmptySeq
    <2>10. ASSUME NEW i \in 1..n
           PROVE  /\ pending[i].id = id
                  /\ pending[i].index = m + i - 1
                  /\ pending[i].total = t
                  /\ pending[i].targets = chunkOf(list, m + i - 1)
                  /\ m + i - 1 \in Nat /\ m + i - 1 < t
      <3>1. m + i \in 1..t
        BY <2>4, <2>8, <2>9
      <3>2. pending[i] = e(m + i)
        BY <3>1, <2>7, <2>8, <2>9
      <3> QED BY <3>1, <3>2
    <2>11. pending[1].id = id /\ pending[1].index = m
      BY <2>9, <2>10
    <2> DEFINE parts == [i \in 1..n |-> pending[i].targets]
    <2>12. Len(parts) = t - m /\ \A i \in 1..Len(parts) : parts[i] = chunkOf(list, m + i - 1)
      <3>1. Len(parts) = n /\ \A i \in 1..n : parts[i] = pending[i].targets
        OBVIOUS
      <3> HIDE DEF parts
      <3> QED BY <3>1, <2>8, <2>9, <2>10
    <2>13. m \in Nat /\ m < t
      BY <2>4
    <2> HIDE DEF parts
    <2>14. FlattenSeq(parts) = SubSeq(list, m * ChunkSize + 1, Len(list))
      BY <2>4, <2>12, <2>13, ChunksJoin
    <2>15. m * ChunkSize \in 0..Len(list)
      BY <2>4, <2>13, ChunkBounds
    <2>16. /\ IsSuffix(FlattenSeq(parts), list)
           /\ Len(FlattenSeq(parts)) = Len(list) - m * ChunkSize
      BY <2>14, <2>15, RestIsSuffix
    <2>17. Len(list) = Len(FlattenSeq(parts)) + m * ChunkSize
      <3>1. Len(list) \in Int /\ m * ChunkSize \in Int
        BY <2>15
      <3> QED BY <2>16, <3>1
    <2>18. ASSUME NEW i \in 1..n
           PROVE  Len(pending[i].targets) \in 1..ChunkSize
      <3>1. PICK k \in Nat : k = m + i - 1
        BY <2>10
      <3>2. k < totalChunks(Len(list)) /\ pending[i].targets = chunkOf(list, k)
        BY <3>1, <2>4, <2>10
      <3> DEFINE end == IF (k + 1) * ChunkSize > Len(list) THEN Len(list)
                        ELSE (k + 1) * ChunkSize
      <3>3. /\ k * ChunkSize \in 0..Len(list) /\ end \in 0..Len(list)
            /\ k * ChunkSize < end /\ end - k * ChunkSize <= ChunkSize
            /\ Len(chunkOf(list, k)) = end - k * ChunkSize
        BY <3>2, ChunkBounds
      <3> HIDE DEF end
      <3>4. ASSUME NEW x \in Int, NEW y \in Int, x < y, y - x <= ChunkSize
            PROVE  y - x \in 1..ChunkSize
        BY <3>4, ChunkAssumption
      <3> QED BY <3>2, <3>3, <3>4
    <2>19. ASSUME NEW i \in 1..n
           PROVE  /\ pending[i].index = pending[1].index + i - 1
                  /\ pending[i].total = pending[1].index + n
      BY <2>4, <2>8, <2>9, <2>10, <2>11
    <2> QED BY <2>3, <2>9, <2>11, <2>16, <2>17, <2>18, <2>19, Zenon DEF parts
  <1>2. ChunksInv => ChunksReassemble
    BY <1>1 DEF ChunksReassemble
  <1> QED BY <1>2, ChunksCorrect, PTL
=============================================================================
