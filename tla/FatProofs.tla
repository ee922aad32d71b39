----------------------------- MODULE FatProofs -----------------------------
(***************************************************************************)
(* Proofs about the files of the FAT file system (FatFile) and about the   *)
(* boot loader that reads them (BootFiles), for sectors, clusters, chains  *)
(* and files of every size.                                                *)
(*                                                                         *)
(* Readable are the clusters from which on next_cluster reads the chain    *)
(* that is meant from the bytes of the FAT; ChainsReadBack, at the end,    *)
(* shows when all are.  Placed is the invariant that everything rests on:  *)
(* the position of a file is that of sector o of cluster q of its chain,   *)
(* and the structure holds just that cluster and that sector.              *)
(***************************************************************************)
EXTENDS BootFiles, NatLemmas

\* Every leaf is tried with Zenon, with the SMT solver, and with Zenon for longer.
USE ZenonT(2), SMTT(30), ZenonT(30)

\* The clusters from which on the bytes of the FAT stand for the chain.
Readable(v) ==
  {c \in Clusters : \A i \in Nat :
     LET d == ClusterAt(v, c, i) IN d # EndOfChain => next_cluster(v.fs, v.bytes, d) = v.chain[d]}

FatGood(v) ==
  /\ v.chain \in [Clusters -> Clusters \cup {EndOfChain}] /\ v.data_start \in Int
  /\ \A c \in Clusters : first_sector_of_cluster(v.fs, c) = (c - 2) * SectorsPerCluster + v.data_start

FileRecords(v) ==
  [start_cluster : Readable(v), active_cluster : Readable(v), sector_offset : 0 .. SectorsPerCluster,
   size : 0 .. PositionModulus - 1, position : Nat]

Ordinary(f) == f.size + SectorSize <= PositionModulus

\* The file is at sector o of its q-th cluster.
At(v, f, q, o) ==
  /\ f.position = (q * SectorsPerCluster + o) * SectorSize
  /\ f.sector_offset = o /\ f.active_cluster = ClusterAt(v, f.start_cluster, q)

Placed(v, f) ==
  Ordinary(f) =>
    /\ f.position <= f.size
    /\ f.position < f.size => \E q \in Nat, o \in 0 .. SectorsPerCluster : At(v, f, q, o)

-----------------------------------------------------------------------------
(* Arithmetic *)

LEMMA Sizes ==
  /\ SectorSize \in Nat /\ SectorSize # 0 /\ SectorsPerCluster \in Nat /\ SectorsPerCluster # 0
  /\ PositionModulus \in Nat /\ PositionModulus # 0
BY FatFileAssumption

LEMMA DivMonotone ==
  ASSUME NEW d \in Nat, d # 0, NEW a \in Nat, NEW b \in Nat, a <= b
  PROVE  a \div d \in Nat /\ b \div d \in Nat /\ a \div d <= b \div d
OBVIOUS

\* A position below a multiple of d, itself a multiple, is at least d below it.
LEMMA NextMultiple ==
  ASSUME NEW d \in Nat, d # 0, NEW k \in Nat, NEW t \in Nat, t % d = 0, k * d < t
  PROVE  k * d + d <= t
<1>1. PICK m \in Nat : t = m * d
  <2>1. t \div d \in Nat /\ t = (t \div d) * d
    OBVIOUS
  <2>. QED BY <2>1
<1>2. CASE m <= k
  <2>1. m * d <= k * d
    BY <1>2, Times
  <2>2. m * d \in Nat /\ k * d \in Nat
    BY Product
  <2>. QED BY <1>1, <2>1, <2>2
<1>3. CASE k + 1 <= m
  <2>1. (k + 1) * d <= m * d
    BY <1>3, Times
  <2>2. (k + 1) * d = k * d + d
    OBVIOUS
  <2>. QED BY <1>1, <2>1, <2>2
<1>. QED BY <1>1, <1>2, <1>3

-----------------------------------------------------------------------------
(* The volume and its chains *)

LEMMA VolumeGood ==
  ASSUME fat \in Volumes, fat.fs.first_data_sector = fat.data_start
  PROVE  FatGood(fat)
<1>1. PICK v \in Fats :
        fat = [fs |-> Mounted(v.header), bytes |-> v.bytes, chain |-> v.chain, data_start |-> v.data_start]
  BY DEF Volumes
<1>2. /\ v.chain \in [Clusters -> Clusters \cup {EndOfChain}] /\ v.data_start \in Nat
      /\ v.header.sectors_per_cluster = SectorsPerCluster
  BY FatFileAssumption
<1>3. fat.chain = v.chain /\ fat.data_start = v.data_start /\ fat.fs = Mounted(v.header)
  BY <1>1
<1>4. fat.fs.sectors_per_cluster = SectorsPerCluster
  BY <1>2, <1>3 DEF Mounted
<1>5. ASSUME NEW c \in Clusters
      PROVE  first_sector_of_cluster(fat.fs, c) = (c - 2) * SectorsPerCluster + fat.data_start
  BY <1>4, Zenon DEF first_sector_of_cluster
<1>. QED BY <1>2, <1>3, <1>5 DEF FatGood

Follow(c) == IF c = EndOfChain THEN EndOfChain ELSE fat.chain[c]

\* The clusters of a chain one after another.
LEMMA ChainIs ==
  ASSUME FatGood(fat), NEW start \in Clusters
  PROVE  \E g \in [Nat -> Clusters \cup {EndOfChain}] :
           /\ g[0] = start /\ \A n \in Nat : g[n + 1] = Follow(g[n])
           /\ \A i \in Nat : ClusterAt(fat, start, i) = g[i]
<1>. DEFINE T == Clusters \cup {EndOfChain}
            s == [n \in Nat |-> [c \in T |-> Follow(c)]]
<1>1. \A c \in T : Follow(c) \in T
  BY DEF FatGood, Follow
<1>2. s \in [Nat -> [T -> T]] /\ start \in T
  BY <1>1
<1>. HIDE DEF s
<1>3. PICK g : Iterates(g, T, start, s)
  BY <1>2, Recursion, Zenon
<1>4. g \in [Nat -> T] /\ g[0] = start /\ \A n \in Nat : g[n + 1] = Follow(g[n])
  BY <1>3 DEF Iterates, s
<1>. HIDE DEF T
<1>5. ASSUME NEW i \in Nat PROVE ClusterAt(fat, start, i) = g[i]
  <2>. DEFINE Steps(f) == f = [j \in 0 .. i |-> IF j = 0 THEN start
                                ELSE IF f[j - 1] = EndOfChain THEN EndOfChain ELSE fat.chain[f[j - 1]]]
              chain == CHOOSE f : Steps(f)
              h == [j \in 0 .. i |-> g[j]]
  <2>1. ClusterAt(fat, start, i) = chain[i]
    BY Zenon DEF ClusterAt
  <2>2. Steps(h)
    <3>1. ASSUME NEW j \in 0 .. i
          PROVE  h[j] = IF j = 0 THEN start
                        ELSE IF h[j - 1] = EndOfChain THEN EndOfChain ELSE fat.chain[h[j - 1]]
      <4>1. CASE j = 0
        BY <1>4, <4>1
      <4>2. CASE j # 0
        <5>1. j - 1 \in Nat /\ j - 1 \in 0 .. i /\ (j - 1) + 1 = j
          BY <4>2
        <5>2. g[j] = Follow(g[j - 1])
          BY <1>4, <5>1
        <5>. QED BY <4>2, <5>1, <5>2 DEF Follow
      <4>. QED BY <4>1, <4>2
    <3>. QED BY <3>1, Zenon
  <2>3. Steps(chain)
    BY <2>2, Zenon
  <2>. HIDE DEF chain
  <2>4. /\ chain[0] = start
        /\ \A n \in Nat : n + 1 \in 0 .. i => chain[n + 1] = Follow(chain[n])
    <3>1. \A j \in 0 .. i : chain[j] = IF j = 0 THEN start
                ELSE IF chain[j - 1] = EndOfChain THEN EndOfChain ELSE fat.chain[chain[j - 1]]
      BY <2>3, Zenon
    <3>. HIDE DEF Steps
    <3>. QED BY <3>1 DEF Follow
  <2>. DEFINE S == {n \in Nat : n \in 0 .. i => chain[n] = g[n]}
  <2>5. 0 \in S
    BY <1>4, <2>4
  <2>6. ASSUME NEW n \in Nat, n \in S PROVE n + 1 \in S
    <3>. SUFFICES ASSUME n + 1 \in 0 .. i PROVE chain[n + 1] = g[n + 1]
      OBVIOUS
    <3>1. n \in 0 .. i
      OBVIOUS
    <3>2. chain[n] = g[n]
      BY <2>6, <3>1
    <3>. QED BY <1>4, <2>4, <3>2
  <2>7. \A n \in Nat : n \in S
    BY <2>5, <2>6, NatInduct
  <2>. QED BY <2>1, <2>7
<1>. QED BY <1>4, <1>5, Zenon DEF T

\* What follows from it for the clusters of a file.
LEMMA ClusterChain ==
  ASSUME FatGood(fat), NEW start \in Clusters
  PROVE  /\ ClusterAt(fat, start, 0) = start
         /\ \A i \in Nat : ClusterAt(fat, start, i) \in Clusters \cup {EndOfChain}
         /\ \A i \in Nat : ClusterAt(fat, start, i) \in Clusters =>
                             ClusterAt(fat, start, i + 1) = fat.chain[ClusterAt(fat, start, i)]
<1>1. PICK g \in [Nat -> Clusters \cup {EndOfChain}] :
           /\ g[0] = start /\ \A n \in Nat : g[n + 1] = Follow(g[n])
           /\ \A i \in Nat : ClusterAt(fat, start, i) = g[i]
  BY ChainIs, Zenon
<1>2. EndOfChain \notin Clusters
  BY FatFileAssumption
<1>. QED BY <1>1, <1>2 DEF Follow

\* A chain that has ended stays so.
LEMMA ChainEnded ==
  ASSUME FatGood(fat), NEW start \in Clusters, NEW i \in Nat, ClusterAt(fat, start, i) = EndOfChain,
         NEW j \in Nat, i <= j
  PROVE  ClusterAt(fat, start, j) = EndOfChain
<1>1. PICK g \in [Nat -> Clusters \cup {EndOfChain}] :
           /\ g[0] = start /\ \A n \in Nat : g[n + 1] = Follow(g[n])
           /\ \A n \in Nat : ClusterAt(fat, start, n) = g[n]
  BY ChainIs, Zenon
<1>. DEFINE S == {n \in Nat : i <= n => g[n] = EndOfChain}
<1>2. 0 \in S
  BY <1>1
<1>3. ASSUME NEW n \in Nat, n \in S PROVE n + 1 \in S
  <2>1. CASE i <= n
    BY <1>1, <1>3, <2>1 DEF Follow
  <2>2. CASE ~ i <= n
    <3>1. i <= n + 1 => i = n + 1
      BY <2>2
    <3>. QED BY <1>1, <3>1
  <2>. QED BY <2>1, <2>2
<1>4. \A n \in Nat : n \in S
  <2>. HIDE DEF S
  <2>. QED BY <1>2, <1>3, NatInduct
<1>. QED BY <1>1, <1>4

LEMMA ReadableClusters == ASSUME NEW v PROVE Readable(v) \subseteq Clusters
BY Zenon DEF Readable

\* The FAT is read right at such a cluster, and the next one is such a cluster too.
LEMMA ReadableNext ==
  ASSUME FatGood(fat), NEW c \in Readable(fat)
  PROVE  /\ NextOf(c) = fat.chain[c]
         /\ fat.chain[c] = EndOfChain \/ fat.chain[c] \in Readable(fat)
<1>. DEFINE Right(d) == d # EndOfChain => next_cluster(fat.fs, fat.bytes, d) = fat.chain[d]
<1>1. c \in Clusters /\ \A i \in Nat : Right(ClusterAt(fat, c, i))
  BY Zenon DEF Readable
<1>2. EndOfChain \notin Clusters
  BY FatFileAssumption
<1>3. NextOf(c) = fat.chain[c]
  <2>1. ClusterAt(fat, c, 0) = c /\ 0 \in Nat
    BY <1>1, ClusterChain
  <2>2. Right(c)
    BY <1>1, <2>1, Zenon
  <2>. QED BY <1>1, <1>2, <2>2 DEF NextOf
<1>4. ASSUME fat.chain[c] # EndOfChain PROVE fat.chain[c] \in Readable(fat)
  <2>. DEFINE d == fat.chain[c]
  <2>1. d \in Clusters
    BY <1>1, <1>4 DEF FatGood
  <2>. HIDE DEF d
  <2>2. PICK g \in [Nat -> Clusters \cup {EndOfChain}] :
           /\ g[0] = c /\ \A n \in Nat : g[n + 1] = Follow(g[n])
           /\ \A i \in Nat : ClusterAt(fat, c, i) = g[i]
    BY <1>1, ChainIs, Zenon
  <2>3. PICK h \in [Nat -> Clusters \cup {EndOfChain}] :
           /\ h[0] = d /\ \A n \in Nat : h[n + 1] = Follow(h[n])
           /\ \A i \in Nat : ClusterAt(fat, d, i) = h[i]
    BY <2>1, ChainIs, Zenon
  <2>. DEFINE S == {n \in Nat : h[n] = g[n + 1]}
  <2>4. 0 \in S
    <3>1. g[0 + 1] = Follow(g[0])
      BY <2>2
    <3>2. Follow(c) = d
      BY <1>1, <1>2 DEF Follow, d
    <3>. QED BY <2>2, <2>3, <3>1, <3>2
  <2>5. ASSUME NEW n \in Nat, n \in S PROVE n + 1 \in S
    <3>1. n + 1 \in Nat /\ h[n] = g[n + 1]
      BY <2>5
    <3>2. h[n + 1] = Follow(h[n]) /\ g[(n + 1) + 1] = Follow(g[n + 1])
      BY <2>2, <2>3, <3>1
    <3>. QED BY <3>1, <3>2
  <2>6. \A n \in Nat : n \in S
    <3>. HIDE DEF S
    <3>. QED BY <2>4, <2>5, NatInduct
  <2>7. ASSUME NEW i \in Nat PROVE Right(ClusterAt(fat, d, i))
    <3>1. i + 1 \in Nat
      OBVIOUS
    <3>2. ClusterAt(fat, d, i) = ClusterAt(fat, c, i + 1)
      BY <2>2, <2>3, <2>6, <3>1
    <3>. QED BY <1>1, <3>1, <3>2, Zenon
  <2>8. d \in Readable(fat)
    BY <2>1, <2>7, Zenon DEF Readable
  <2>. QED BY <2>8 DEF d
<1>. QED BY <1>3, <1>4, Zenon

-----------------------------------------------------------------------------
(* The operations of a file *)

LEMMA OutcomeFields ==
  ASSUME NEW f, NEW result, NEW data, NEW count
  PROVE  /\ Outcome(f, result, data, count).file = f /\ Outcome(f, result, data, count).result = result
         /\ Outcome(f, result, data, count).data = data /\ Outcome(f, result, data, count).count = count
BY DEF Outcome

LEMMA WithoutFields ==
  ASSUME NEW f, NEW result
  PROVE  /\ Without(f, result).file = f /\ Without(f, result).result = result
         /\ Without(f, result).data = << >> /\ Without(f, result).count = 0
BY DEF Without, Outcome

\* Two records of the same file at the same position.
SameFile(v, f, g) ==
  g \in FileRecords(v) /\ g.start_cluster = f.start_cluster /\ g.size = f.size

SamePosition(v, f, g) == SameFile(v, f, g) /\ g.position = f.position

LEMMA SameItself == ASSUME NEW v, NEW f \in FileRecords(v) PROVE SamePosition(v, f, f)
BY DEF SameFile, SamePosition

\* The file at the beginning of another cluster.
InCluster(f, c) == [f EXCEPT !.active_cluster = c, !.sector_offset = 0]

LEMMA InClusterFields ==
  ASSUME NEW f \in FileRecords(fat), NEW c \in Readable(fat)
  PROVE  /\ SamePosition(fat, f, InCluster(f, c))
         /\ InCluster(f, c).active_cluster = c /\ InCluster(f, c).sector_offset = 0
<1>1. 0 \in 0 .. SectorsPerCluster
  BY Sizes
<1>. QED BY <1>1 DEF InCluster, FileRecords, SameFile, SamePosition

\* What Cross may come to: an error, or a place within a cluster.
CrossOK(v, f, r) ==
  /\ SamePosition(v, f, r.file) /\ r.data = << >> /\ r.count = 0
  /\ \/ r.result = "BlockError" /\ r.file = f
     \/ /\ r.result = "EndOfFile" /\ r.file = f
        /\ f.sector_offset = SectorsPerCluster /\ v.chain[f.active_cluster] = EndOfChain
     \/ r.result = "Ok" /\ r.file = f /\ f.sector_offset # SectorsPerCluster
     \/ /\ r.result = "Ok" /\ f.sector_offset = SectorsPerCluster
        /\ r.file.sector_offset = 0 /\ r.file.active_cluster = v.chain[f.active_cluster]
        /\ r.file.active_cluster # EndOfChain

LEMMA CrossCases ==
  ASSUME FatGood(fat), NEW f \in FileRecords(fat), NEW fatOk
  PROVE  CrossOK(fat, f, Cross(f, fatOk))
<1>. DEFINE r == Cross(f, fatOk)
            next == NextOf(f.active_cluster)
<1>1. next = fat.chain[f.active_cluster] /\ (next = EndOfChain \/ next \in Readable(fat))
  <2>1. f.active_cluster \in Readable(fat)
    BY DEF FileRecords
  <2>. QED BY <2>1, ReadableNext, Zenon
<1>2. SamePosition(fat, f, f)
  BY SameItself
<1>3. CASE f.sector_offset # SectorsPerCluster
  <2>1. r = Without(f, "Ok")
    BY <1>3 DEF Cross
  <2>3. r.file = f /\ r.result = "Ok" /\ r.data = << >> /\ r.count = 0
    BY <2>1, WithoutFields
  <2>. QED BY <1>2, <1>3, <2>3, Zenon DEF CrossOK
<1>4. CASE f.sector_offset = SectorsPerCluster /\ ~ fatOk
  <2>1. r = Without(f, "BlockError")
    BY <1>4 DEF Cross
  <2>3. r.file = f /\ r.result = "BlockError" /\ r.data = << >> /\ r.count = 0
    BY <2>1, WithoutFields
  <2>. QED BY <1>2, <2>3, Zenon DEF CrossOK
<1>5. CASE f.sector_offset = SectorsPerCluster /\ fatOk /\ next = EndOfChain
  <2>1. r = Without(f, "EndOfFile")
    BY <1>5 DEF Cross
  <2>2. fat.chain[f.active_cluster] = EndOfChain
    BY <1>1, <1>5
  <2>3. r.file = f /\ r.result = "EndOfFile" /\ r.data = << >> /\ r.count = 0
    BY <2>1, WithoutFields
  <2>. QED BY <1>2, <1>5, <2>2, <2>3, Zenon DEF CrossOK
<1>6. CASE f.sector_offset = SectorsPerCluster /\ fatOk /\ next # EndOfChain
  <2>1. r = Without(InCluster(f, next), "Ok")
    BY <1>6, Zenon DEF Cross, InCluster
  <2>2. next \in Readable(fat)
    BY <1>1, <1>6
  <2>3. /\ SamePosition(fat, f, InCluster(f, next))
        /\ InCluster(f, next).active_cluster = next /\ InCluster(f, next).sector_offset = 0
    BY <2>2, InClusterFields
  <2>4. r.file = InCluster(f, next) /\ r.result = "Ok" /\ r.data = << >> /\ r.count = 0
    BY <2>1, WithoutFields
  <2>5. SamePosition(fat, f, r.file) /\ r.file.sector_offset = 0 /\ r.file.active_cluster = next
    BY <2>3, <2>4, Zenon
  <2>. QED BY <1>1, <1>6, <2>2, <2>4, <2>5, Zenon DEF CrossOK
<1>. QED BY <1>3, <1>4, <1>5, <1>6, Zenon

\* Crossing leads from a place to a place of the same position; the chain ends only where
\* it has no cluster for the position.
LEMMA CrossPlace ==
  ASSUME FatGood(fat), NEW f \in FileRecords(fat), NEW fatOk, NEW q \in Nat, NEW o \in 0 .. SectorsPerCluster,
         At(fat, f, q, o)
  PROVE  LET r == Cross(f, fatOk)
         IN  /\ r.result = "EndOfFile" => o = SectorsPerCluster /\ ClusterAt(fat, f.start_cluster, q + 1) = EndOfChain
             /\ r.result = "BlockError" => r.file = f
             /\ r.result = "Ok" => \E p \in Nat, n \in 0 .. SectorsPerCluster - 1 : At(fat, r.file, p, n)
<1>. DEFINE r == Cross(f, fatOk)
<1>1. CrossOK(fat, f, r)
  BY CrossCases
<1>. HIDE DEF r
<1>2. f.start_cluster \in Clusters /\ f.active_cluster \in Clusters
  BY ReadableClusters DEF FileRecords
<1>3. f.active_cluster = ClusterAt(fat, f.start_cluster, q) /\ f.sector_offset = o
  BY DEF At
<1>4. ClusterAt(fat, f.start_cluster, q + 1) = fat.chain[f.active_cluster]
  BY <1>2, <1>3, ClusterChain
<1>5. r.result = "EndOfFile" => o = SectorsPerCluster /\ ClusterAt(fat, f.start_cluster, q + 1) = EndOfChain
  BY <1>1, <1>3, <1>4 DEF CrossOK
<1>6. r.result = "BlockError" => r.file = f
  BY <1>1 DEF CrossOK
<1>7. ASSUME r.result = "Ok", r.file = f, f.sector_offset # SectorsPerCluster
      PROVE  \E p \in Nat, n \in 0 .. SectorsPerCluster - 1 : At(fat, r.file, p, n)
  <2>1. o \in 0 .. SectorsPerCluster - 1
    BY <1>3, <1>7, Sizes
  <2>. QED BY <1>7, <2>1
<1>8. ASSUME r.result = "Ok", f.sector_offset = SectorsPerCluster,
             r.file.sector_offset = 0, r.file.active_cluster = fat.chain[f.active_cluster]
      PROVE  \E p \in Nat, n \in 0 .. SectorsPerCluster - 1 : At(fat, r.file, p, n)
  <2>1. r.file.position = f.position /\ r.file.start_cluster = f.start_cluster
    BY <1>1 DEF CrossOK, SamePosition, SameFile
  <2>2. f.position = (q * SectorsPerCluster + SectorsPerCluster) * SectorSize
    BY <1>3, <1>8 DEF At
  <2>3. q * SectorsPerCluster + SectorsPerCluster = (q + 1) * SectorsPerCluster + 0
    BY Sizes
  <2>4. r.file.position = ((q + 1) * SectorsPerCluster + 0) * SectorSize
    BY <2>1, <2>2, <2>3, Zenon
  <2>5. At(fat, r.file, q + 1, 0)
    BY <1>4, <1>8, <2>1, <2>4, Zenon DEF At
  <2>6. q + 1 \in Nat /\ 0 \in 0 .. SectorsPerCluster - 1
    BY Sizes
  <2>. QED BY <2>5, <2>6, Zenon
<1>9. r.result = "Ok" => \E p \in Nat, n \in 0 .. SectorsPerCluster - 1 : At(fat, r.file, p, n)
  BY <1>1, <1>7, <1>8, Zenon DEF CrossOK
<1>. QED BY <1>5, <1>6, <1>9, Zenon DEF r

\* Where the bytes of the disk come from.
Cells == Int \X Int

\* The bytes of the file from its position on, a sector of them.
Delivers(v, f, data) ==
  /\ data \in Seq(Cells) /\ Len(data) = SectorSize
  /\ \A k \in 1 .. SectorSize : data[k] = ByteAt(v, f.start_cluster, f.position + k - 1)

LEMMA SectorBytes ==
  ASSUME FatGood(fat), NEW f \in FileRecords(fat), NEW q \in Nat, NEW o \in 0 .. SectorsPerCluster - 1,
         At(fat, f, q, o)
  PROVE  Delivers(fat, f, SectorData(f))
<1>. DEFINE c == f.active_cluster
            base == (c - 2) * SectorsPerCluster
<1>1. c \in Clusters /\ c \in Int /\ o \in Nat /\ fat.data_start \in Int /\ base \in Int
  <2>1. c \in Clusters
    BY ReadableClusters DEF FileRecords
  <2>2. Clusters \subseteq Nat
    BY FatFileAssumption
  <2>3. c \in Nat
    BY <2>1, <2>2
  <2>. HIDE DEF c
  <2>4. c \in Int /\ o \in Nat /\ base \in Int
    BY <2>3, Sizes
  <2>5. fat.data_start \in Int
    BY DEF FatGood
  <2>. QED BY <2>1, <2>4, <2>5
<1>2. first_sector_of_cluster(fat.fs, c) = base + fat.data_start
  BY <1>1 DEF FatGood
<1>3. c = ClusterAt(fat, f.start_cluster, q) /\ f.sector_offset = o
  BY DEF At
<1>. DEFINE sector == q * SectorsPerCluster + o
<1>4. f.position = sector * SectorSize /\ sector \in Nat
  <2>1. f.position = sector * SectorSize
    BY DEF At
  <2>2. q * SectorsPerCluster \in Nat
    BY Sizes, Product
  <2>. QED BY <1>1, <2>1, <2>2
<1>5. sector \div SectorsPerCluster = q /\ sector % SectorsPerCluster = o
  BY Sizes, Divided
<1>. HIDE DEF sector, base, c
<1>6. ASSUME NEW k \in 1 .. SectorSize
      PROVE  SectorData(f)[k] = ByteAt(fat, f.start_cluster, f.position + k - 1)
  <2>. DEFINE p == f.position + k - 1
  <2>1. k - 1 \in 0 .. SectorSize - 1 /\ p = sector * SectorSize + (k - 1)
    <3>1. sector * SectorSize \in Nat
      BY <1>4, Sizes, Product
    <3>. QED BY <1>4, <3>1, Sizes
  <2>2. p \div SectorSize = sector /\ p % SectorSize = k - 1
    <3>1. /\ (sector * SectorSize + (k - 1)) \div SectorSize = sector
          /\ (sector * SectorSize + (k - 1)) % SectorSize = k - 1
      BY <1>4, <2>1, Sizes, Divided, Zenon
    <3>. QED BY <2>1, <3>1, Zenon
  <2>. HIDE DEF p
  <2>3. ByteAt(fat, f.start_cluster, p) =
          <<fat.data_start + (ClusterAt(fat, f.start_cluster, q) - 2) * SectorsPerCluster + o, (k - 1) + 1>>
    BY <1>5, <2>2, Zenon DEF ByteAt
  <2>4. ByteAt(fat, f.start_cluster, p) = <<fat.data_start + base + o, (k - 1) + 1>>
    BY <1>3, <2>3, Zenon DEF base
  <2>5. SectorData(f)[k] = <<first_sector_of_cluster(fat.fs, c) + f.sector_offset, k>>
    BY Zenon DEF SectorData, c
  <2>6. (k - 1) + 1 = k /\ fat.data_start + base + o = (base + fat.data_start) + o
    BY <1>1, Sizes
  <2>. QED BY <1>2, <1>3, <2>4, <2>5, <2>6, Zenon DEF p
<1>7. SectorData(f) \in Seq(Cells) /\ Len(SectorData(f)) = SectorSize
  <2>1. ASSUME NEW k \in 1 .. SectorSize
        PROVE  <<first_sector_of_cluster(fat.fs, c) + f.sector_offset, k>> \in Cells
    BY <1>1, <1>2, <1>3, Sizes DEF Cells
  <2>2. SectorData(f) = [k \in 1 .. SectorSize |-> <<first_sector_of_cluster(fat.fs, c) + f.sector_offset, k>>]
    BY Zenon DEF SectorData, c
  <2>3. SectorData(f) \in [1 .. SectorSize -> Cells]
    BY <2>1, <2>2, Zenon
  <2>. QED BY <2>3, Sizes
<1>. QED BY <1>6, <1>7 DEF Delivers

\* The file one sector further on, at position p.
Advance(f, p) == [f EXCEPT !.sector_offset = f.sector_offset + 1, !.position = p]

LEMMA AdvanceFields ==
  ASSUME NEW v, NEW f \in FileRecords(v), f.sector_offset # SectorsPerCluster, NEW p \in Nat
  PROVE  /\ SameFile(v, f, Advance(f, p)) /\ Advance(f, p).position = p
         /\ Advance(f, p).sector_offset = f.sector_offset + 1
         /\ Advance(f, p).active_cluster = f.active_cluster
<1>1. f.sector_offset + 1 \in 0 .. SectorsPerCluster
  BY Sizes DEF FileRecords
<1>. QED BY <1>1 DEF Advance, FileRecords, SameFile

\* Reading has nothing more to give: the file or its chain is at its end.
Ended(v, f) ==
  \/ f.position >= f.size
  \/ ClusterAt(v, f.start_cluster, (f.position \div SectorSize) \div SectorsPerCluster) = EndOfChain

\* What File::read does to a file and hands over.
ReadOK(v, f, r) ==
  /\ SameFile(v, f, r.file) /\ Placed(v, r.file)
  /\ \/ r.result = "EndOfFile" /\ r.data = << >> /\ r.file = f /\ Ended(v, f)
     \/ r.result = "BlockError" /\ r.data = << >> /\ r.file.position = f.position
     \/ /\ r.result = "Ok" /\ f.position < f.size /\ Delivers(v, f, r.data)
        /\ r.count \in 1 .. SectorSize /\ r.file.position = f.position + r.count
        /\ r.count = SectorSize \/ r.file.position = f.size

\* The forms that a read takes.
ReadForm(f, devOk, next, r) ==
  \/ f.position >= f.size /\ r = Without(f, "EndOfFile")
  \/ f.position < f.size /\ next.result # "Ok" /\ r = next
  \/ f.position < f.size /\ next.result = "Ok" /\ r = Without(next.file, "BlockError")
  \/ /\ f.position < f.size /\ next.result = "Ok"
     /\ (f.position + SectorSize) % PositionModulus > f.size
     /\ r = Outcome(Advance(next.file, f.size), "Ok", SectorData(next.file), f.size - f.position)
  \/ /\ f.position < f.size /\ next.result = "Ok"
     /\ ~ (f.position + SectorSize) % PositionModulus > f.size
     /\ r = Outcome(Advance(next.file, (f.position + SectorSize) % PositionModulus), "Ok",
                    SectorData(next.file), SectorSize)

LEMMA ReadForms ==
  ASSUME NEW f \in FileRecords(fat), NEW fatOk, NEW devOk
  PROVE  ReadForm(f, devOk, Cross(f, fatOk), Read(f, fatOk, devOk))
<1>1. f.position >= f.size \/ f.position < f.size
  BY DEF FileRecords
<1>2. f.position < f.size => ~ f.position >= f.size
  BY DEF FileRecords
<1>. QED BY <1>1, <1>2, Zenon DEF ReadForm, Read, Advance

\* Whatever fails, the File structure stays one.
LEMMA ReadType ==
  ASSUME FatGood(fat), NEW f \in FileRecords(fat), NEW fatOk, NEW devOk
  PROVE  SameFile(fat, f, Read(f, fatOk, devOk).file)
<1>. DEFINE r == Read(f, fatOk, devOk)
            next == Cross(f, fatOk)
<1>1. CrossOK(fat, f, next)
  BY CrossCases
<1>2. ReadForm(f, devOk, next, r)
  BY ReadForms
<1>. HIDE DEF r, next
<1>3. SameFile(fat, f, next.file) /\ next.file \in FileRecords(fat)
  BY <1>1 DEF CrossOK, SamePosition, SameFile
<1>4. SameFile(fat, f, f)
  BY SameItself DEF SamePosition
<1>5. ASSUME next.result = "Ok", NEW p \in Nat PROVE SameFile(fat, f, Advance(next.file, p))
  <2>1. next.file.sector_offset # SectorsPerCluster
    <3>1. SectorsPerCluster # 0
      BY Sizes
    <3>. QED BY <1>1, <1>5, <3>1 DEF CrossOK
  <2>2. SameFile(fat, next.file, Advance(next.file, p))
    BY <1>3, <2>1, AdvanceFields
  <2>. QED BY <1>3, <2>2 DEF SameFile
<1>6. f.size \in Nat /\ (f.position + SectorSize) % PositionModulus \in Nat
  <2>1. f.size \in 0 .. PositionModulus - 1 /\ f.position \in Nat
    BY DEF FileRecords
  <2>. QED BY <2>1, Sizes
<1>7. CASE r = Without(f, "EndOfFile")
  BY <1>4, <1>7, WithoutFields DEF r
<1>8. CASE r = next
  BY <1>3, <1>8 DEF r
<1>9. CASE r = Without(next.file, "BlockError")
  <2>1. r.file = next.file
    BY <1>9, WithoutFields
  <2>. QED BY <1>3, <2>1 DEF r
<1>10. ASSUME next.result = "Ok", NEW p \in Nat, NEW data, NEW count,
              r = Outcome(Advance(next.file, p), "Ok", data, count)
       PROVE  SameFile(fat, f, r.file)
  <2>1. r.file = Advance(next.file, p)
    BY <1>10, OutcomeFields
  <2>. QED BY <1>5, <1>10, <2>1
<1>. QED BY <1>2, <1>6, <1>7, <1>8, <1>9, <1>10, Zenon DEF ReadForm, r

\* A file that is not at its end and not too large stays at a place.
LEMMA PlacedThere ==
  ASSUME NEW v, NEW f \in FileRecords(v), f.position <= f.size,
         NEW q \in Nat, NEW o \in 0 .. SectorsPerCluster, f.position < f.size => At(v, f, q, o)
  PROVE  Placed(v, f)
BY Zenon DEF Placed

\* The place one sector on.
LEMMA AdvancedPlace ==
  ASSUME NEW v, NEW f \in FileRecords(v), NEW q \in Nat, NEW o \in 0 .. SectorsPerCluster - 1, At(v, f, q, o)
  PROVE  /\ f.sector_offset # SectorsPerCluster /\ o + 1 \in 0 .. SectorsPerCluster
         /\ At(v, Advance(f, f.position + SectorSize), q, o + 1)
<1>1. /\ f.position = (q * SectorsPerCluster + o) * SectorSize
      /\ f.sector_offset = o /\ f.active_cluster = ClusterAt(v, f.start_cluster, q)
  BY DEF At
<1>2. o \in Nat /\ o # SectorsPerCluster /\ o + 1 \in 0 .. SectorsPerCluster
  BY Sizes
<1>. DEFINE k == q * SectorsPerCluster
<1>3. k \in Nat
  BY Sizes, Product
<1>. HIDE DEF k
<1>4. (k + o) * SectorSize + SectorSize = (k + (o + 1)) * SectorSize
  BY <1>2, <1>3, Sizes
<1>5. f.position + SectorSize = (q * SectorsPerCluster + (o + 1)) * SectorSize
  BY <1>1, <1>4 DEF k
<1>6. f.position \in Nat /\ f.position + SectorSize \in Nat
  BY Sizes DEF FileRecords
<1>7. LET g == Advance(f, f.position + SectorSize)
      IN  /\ g.position = f.position + SectorSize /\ g.sector_offset = f.sector_offset + 1
          /\ g.active_cluster = f.active_cluster /\ g.start_cluster = f.start_cluster
  BY <1>1, <1>2, <1>6, AdvanceFields DEF SameFile
<1>. QED BY <1>1, <1>2, <1>5, <1>7, Zenon DEF At

\* The sector at a place, by division.
LEMMA PlaceSector ==
  ASSUME NEW v, NEW f, NEW q \in Nat, NEW o \in 0 .. SectorsPerCluster, At(v, f, q, o)
  PROVE  /\ f.position % SectorSize = 0 /\ f.position \div SectorSize = q * SectorsPerCluster + o
         /\ f.position \div SectorSize \in Nat
         /\ o # SectorsPerCluster => /\ (f.position \div SectorSize) \div SectorsPerCluster = q
                                     /\ (f.position \div SectorSize) % SectorsPerCluster = o
         /\ o = SectorsPerCluster => /\ (f.position \div SectorSize) \div SectorsPerCluster = q + 1
                                     /\ (f.position \div SectorSize) % SectorsPerCluster = 0
<1>. DEFINE k == q * SectorsPerCluster
            s == k + o
<1>1. k \in Nat /\ s \in Nat
  BY Sizes, Product
<1>2. f.position = s * SectorSize + 0
  <2>1. f.position = s * SectorSize
    BY DEF At
  <2>2. s * SectorSize \in Nat
    BY <1>1, Sizes, Product
  <2>. QED BY <2>1, <2>2
<1>3. 0 \in 0 .. SectorSize - 1
  BY Sizes
<1>. HIDE DEF s
<1>4. f.position \div SectorSize = s /\ f.position % SectorSize = 0
  BY <1>1, <1>2, <1>3, Sizes, Divided
<1>5. ASSUME o # SectorsPerCluster PROVE s \div SectorsPerCluster = q /\ s % SectorsPerCluster = o
  <2>1. o \in 0 .. SectorsPerCluster - 1
    BY <1>5, Sizes
  <2>. QED BY <2>1, Sizes, Divided DEF s
<1>6. ASSUME o = SectorsPerCluster PROVE s \div SectorsPerCluster = q + 1 /\ s % SectorsPerCluster = 0
  <2>1. s = (q + 1) * SectorsPerCluster + 0
    BY <1>6, Sizes DEF s
  <2>2. 0 \in 0 .. SectorsPerCluster - 1 /\ q + 1 \in Nat
    BY Sizes
  <2>. QED BY <2>1, <2>2, Sizes, Divided
<1>. QED BY <1>1, <1>4, <1>5, <1>6 DEF s

\* No position wraps in an ordinary file.
LEMMA NoWrap ==
  ASSUME NEW f \in FileRecords(fat), Ordinary(f), f.position < f.size
  PROVE  (f.position + SectorSize) % PositionModulus = f.position + SectorSize
<1>1. f.position \in Nat /\ f.size \in Nat /\ f.position + SectorSize < PositionModulus
  BY Sizes DEF FileRecords, Ordinary
<1>. QED BY <1>1, Sizes

\* File::read gives the sector at the position and moves past it, or the file stays where
\* it is.
LEMMA ReadPlace ==
  ASSUME FatGood(fat), NEW f \in FileRecords(fat), Placed(fat, f), Ordinary(f), NEW fatOk, NEW devOk
  PROVE  ReadOK(fat, f, Read(f, fatOk, devOk))
<1>. DEFINE r == Read(f, fatOk, devOk)
            next == Cross(f, fatOk)
<1>1. CrossOK(fat, f, next)
  BY CrossCases
<1>2. ReadForm(f, devOk, next, r)
  BY ReadForms
<1>3. SameFile(fat, f, r.file)
  BY ReadType
<1>4. f.position \in Nat /\ f.size \in Nat
  BY DEF FileRecords
<1>5. CASE f.position >= f.size
  <2>1. r = Without(f, "EndOfFile")
    BY <1>2, <1>4, <1>5 DEF ReadForm
  <2>2. r.result = "EndOfFile" /\ r.data = << >> /\ r.file = f
    BY <2>1, WithoutFields
  <2>3. Ended(fat, f)
    BY <1>5 DEF Ended
  <2>. HIDE DEF r
  <2>4. ReadOK(fat, f, r)
    BY <1>3, <2>2, <2>3, Zenon DEF ReadOK
  <2>. QED BY <2>4 DEF r
<1>6. CASE f.position < f.size
  <2>1. PICK q \in Nat, o \in 0 .. SectorsPerCluster : At(fat, f, q, o)
    BY <1>6 DEF Placed
  <2>2. /\ next.result = "EndOfFile" => o = SectorsPerCluster /\ ClusterAt(fat, f.start_cluster, q + 1) = EndOfChain
        /\ next.result = "BlockError" => next.file = f
        /\ next.result = "Ok" => \E p \in Nat, n \in 0 .. SectorsPerCluster - 1 : At(fat, next.file, p, n)
    BY <2>1, CrossPlace
  <2>. HIDE DEF r, next
  <2>3. CASE next.result # "Ok"
    <3>1. r = next
      BY <1>2, <1>4, <1>6, <2>3 DEF ReadForm
    <3>2. next.data = << >> /\ next.file = f /\ next.result \in {"BlockError", "EndOfFile"}
      BY <1>1, <2>3 DEF CrossOK
    <3>3. next.result = "EndOfFile" => Ended(fat, f)
      BY <2>1, <2>2, PlaceSector DEF Ended
    <3>4. ReadOK(fat, f, r)
      BY <1>3, <3>1, <3>2, <3>3 DEF ReadOK
    <3>. QED BY <3>4 DEF r
  <2>4. CASE next.result = "Ok"
    <3>. DEFINE at == next.file
    <3>1. PICK p \in Nat, n \in 0 .. SectorsPerCluster - 1 : At(fat, at, p, n)
      BY <2>2, <2>4
    <3>2. at \in FileRecords(fat) /\ at.position = f.position /\ at.size = f.size /\ at.start_cluster = f.start_cluster
      BY <1>1 DEF CrossOK, SamePosition, SameFile
    <3>. HIDE DEF at
    <3>3. /\ at.sector_offset # SectorsPerCluster /\ n + 1 \in 0 .. SectorsPerCluster
          /\ At(fat, Advance(at, f.position + SectorSize), p, n + 1)
      BY <3>1, <3>2, AdvancedPlace
    <3>4. Delivers(fat, f, SectorData(at))
      <4>1. Delivers(fat, at, SectorData(at))
        BY <3>1, <3>2, SectorBytes
      <4>. QED BY <3>2, <4>1, Zenon DEF Delivers
    <3>5. (f.position + SectorSize) % PositionModulus = f.position + SectorSize
      BY <1>6, NoWrap
    <3>6. n \in 0 .. SectorsPerCluster
      BY Sizes
    <3>7. CASE r = Without(at, "BlockError")
      <4>1. r.file = at /\ r.data = << >> /\ r.result = "BlockError"
        BY <3>7, WithoutFields
      <4>2. Placed(fat, at)
        BY <1>4, <1>6, <3>1, <3>2, <3>6, PlacedThere
      <4>3. ReadOK(fat, f, r)
        BY <1>3, <3>2, <4>1, <4>2 DEF ReadOK
      <4>. QED BY <4>3 DEF r
    <3>8. CASE f.position + SectorSize > f.size /\ r = Outcome(Advance(at, f.size), "Ok", SectorData(at), f.size - f.position)
      <4>1. /\ r.file = Advance(at, f.size) /\ r.result = "Ok" /\ r.data = SectorData(at)
            /\ r.count = f.size - f.position
        BY <3>8, OutcomeFields
      <4>2. r.file.position = f.size /\ r.file \in FileRecords(fat) /\ r.file.size = f.size
        BY <1>4, <3>2, <3>3, <4>1, AdvanceFields DEF SameFile
      <4>3. Placed(fat, r.file)
        BY <1>4, <4>2 DEF Placed
      <4>4. r.count \in 1 .. SectorSize /\ r.file.position = f.position + r.count
        BY <1>4, <1>6, <3>8, <4>1, <4>2, Sizes
      <4>5. ReadOK(fat, f, r)
        BY <1>3, <1>6, <3>4, <4>1, <4>2, <4>3, <4>4, Zenon DEF ReadOK
      <4>. QED BY <4>5 DEF r
    <3>9. CASE ~ f.position + SectorSize > f.size /\ r = Outcome(Advance(at, f.position + SectorSize), "Ok", SectorData(at), SectorSize)
      <4>1. /\ r.file = Advance(at, f.position + SectorSize) /\ r.result = "Ok" /\ r.data = SectorData(at)
            /\ r.count = SectorSize
        BY <3>9, OutcomeFields
      <4>2. r.file.position = f.position + SectorSize /\ r.file \in FileRecords(fat) /\ r.file.size = f.size
        <5>1. f.position + SectorSize \in Nat
          BY <1>4, Sizes
        <5>. QED BY <5>1, <3>2, <3>3, <4>1, AdvanceFields DEF SameFile
      <4>3. r.file.position <= r.file.size
        BY <1>4, <3>9, <4>2, Sizes
      <4>4. Placed(fat, r.file)
        BY <3>3, <4>1, <4>2, <4>3, PlacedThere
      <4>5. r.count \in 1 .. SectorSize
        BY <4>1, Sizes
      <4>6. ReadOK(fat, f, r)
        BY <1>3, <1>6, <3>4, <4>1, <4>2, <4>4, <4>5, Zenon DEF ReadOK
      <4>. QED BY <4>6 DEF r
    <3>10. ~ f.position >= f.size
      BY <1>4, <1>6
    <3>11. \/ r = Without(at, "BlockError")
           \/ /\ f.position + SectorSize > f.size
              /\ r = Outcome(Advance(at, f.size), "Ok", SectorData(at), f.size - f.position)
           \/ /\ ~ f.position + SectorSize > f.size
              /\ r = Outcome(Advance(at, f.position + SectorSize), "Ok", SectorData(at), SectorSize)
      BY <1>2, <2>4, <3>5, <3>10, Zenon DEF ReadForm, at
    <3>. QED BY <3>7, <3>8, <3>9, <3>11, Zenon
  <2>. QED BY <2>3, <2>4, Zenon
<1>. QED BY <1>4, <1>5, <1>6

LEMMA StartPlace ==
  ASSUME FatGood(fat), NEW g \in FileRecords(fat), g.position = 0, g.sector_offset = 0,
         g.active_cluster = g.start_cluster
  PROVE  Placed(fat, g)
<1>1. 0 \in 0 .. SectorsPerCluster /\ 0 \in Nat
  BY Sizes
<1>2. g.start_cluster \in Clusters /\ g.position <= g.size
  BY ReadableClusters DEF FileRecords
<1>3. g.active_cluster = ClusterAt(fat, g.start_cluster, 0)
  BY <1>2, ClusterChain
<1>4. 0 = (0 * SectorsPerCluster + 0) * SectorSize
  BY Sizes
<1>5. At(fat, g, 0, 0)
  BY <1>3, <1>4 DEF At
<1>. QED BY <1>1, <1>2, <1>5, PlacedThere

\* The file at its start.
Rewound(f) == [f EXCEPT !.position = 0, !.sector_offset = 0, !.active_cluster = f.start_cluster]

LEMMA RewoundPlace ==
  ASSUME FatGood(fat), NEW f \in FileRecords(fat)
  PROVE  SameFile(fat, f, Rewound(f)) /\ Rewound(f).position = 0 /\ Placed(fat, Rewound(f))
<1>. DEFINE g == Rewound(f)
<1>1. 0 \in 0 .. SectorsPerCluster /\ 0 \in Nat
  BY Sizes
<1>2. /\ SameFile(fat, f, g) /\ g.position = 0 /\ g.sector_offset = 0 /\ g.active_cluster = g.start_cluster
  BY <1>1 DEF Rewound, FileRecords, SameFile
<1>. HIDE DEF g
<1>3. Placed(fat, g)
  BY <1>2, StartPlace DEF SameFile
<1>. QED BY <1>2, <1>3 DEF g

\* A file just opened.
LEMMA OpenedPlace ==
  ASSUME FatGood(fat), NEW d \in [start : Readable(fat), size : 0 .. PositionModulus - 1]
  PROVE  /\ Opened(d) \in FileRecords(fat) /\ Placed(fat, Opened(d)) /\ Opened(d).position = 0
         /\ Opened(d).start_cluster = d.start /\ Opened(d).size = d.size
<1>. DEFINE f == Opened(d)
<1>1. 0 \in 0 .. SectorsPerCluster /\ 0 \in Nat
  BY Sizes
<1>2. /\ f \in FileRecords(fat) /\ f.position = 0 /\ f.start_cluster = d.start /\ f.size = d.size
      /\ f.sector_offset = 0 /\ f.active_cluster = f.start_cluster
  BY <1>1 DEF Opened, FileRecords
<1>. HIDE DEF f
<1>3. Placed(fat, f)
  BY <1>2, StartPlace
<1>. QED BY <1>2, <1>3 DEF f

\* What File::seek does before its loop.
SeekStartOK(v, f, target, s) ==
  /\ SameFile(v, f, s.file) /\ (Placed(v, f) => Placed(v, s.file))
  /\ s.result = "Ok" => target % SectorSize = 0 /\ target < f.size /\ s.file.position <= target

LEMMA SeekStartPlace ==
  ASSUME FatGood(fat), NEW f \in FileRecords(fat), NEW target \in Nat
  PROVE  SeekStartOK(fat, f, target, SeekStart(f, target))
<1>. DEFINE s == SeekStart(f, target)
<1>1. SameFile(fat, f, f) /\ f.position \in Nat /\ f.size \in Nat
  BY SameItself DEF SamePosition, FileRecords
<1>2. ASSUME NEW result, result # "Ok", s = Without(f, result) PROVE SeekStartOK(fat, f, target, s)
  <2>1. s.file = f /\ s.result = result
    BY <1>2, WithoutFields
  <2>. HIDE DEF s
  <2>. QED BY <1>1, <1>2, <2>1, Zenon DEF SeekStartOK
<1>3. CASE target % SectorSize # 0
  BY <1>2, <1>3 DEF SeekStart
<1>4. CASE target % SectorSize = 0 /\ target >= f.size
  BY <1>2, <1>4 DEF SeekStart
<1>5. CASE target % SectorSize = 0 /\ ~ target >= f.size /\ target < f.position
  <2>1. s = Without(Rewound(f), "Ok")
    BY <1>5, Zenon DEF SeekStart, Rewound
  <2>2. s.file = Rewound(f)
    BY <2>1, WithoutFields
  <2>3. SameFile(fat, f, s.file) /\ s.file.position = 0 /\ Placed(fat, s.file)
    BY <2>2, RewoundPlace
  <2>4. target < f.size /\ 0 <= target
    BY <1>1, <1>5
  <2>. HIDE DEF s
  <2>5. SeekStartOK(fat, f, target, s)
    BY <1>5, <2>3, <2>4 DEF SeekStartOK
  <2>. QED BY <2>5 DEF s
<1>6. CASE target % SectorSize = 0 /\ ~ target >= f.size /\ ~ target < f.position
  <2>1. s = Without(f, "Ok")
    BY <1>6 DEF SeekStart
  <2>2. s.file = f
    BY <2>1, WithoutFields
  <2>3. target < f.size /\ f.position <= target
    BY <1>1, <1>6
  <2>. HIDE DEF s
  <2>4. SeekStartOK(fat, f, target, s)
    BY <1>1, <1>6, <2>2, <2>3 DEF SeekStartOK
  <2>. QED BY <2>4 DEF s
<1>. QED BY <1>3, <1>4, <1>5, <1>6, Zenon

\* What a turn of the loop of File::seek does.
SeekTurnForm(f, next, s) ==
  \/ next.result # "Ok" /\ s = next
  \/ /\ next.result = "Ok" /\ s.result = "Ok"
     /\ s.file = Advance(next.file, (f.position + SectorSize) % PositionModulus)

LEMMA SeekTurnForms ==
  ASSUME FatGood(fat), NEW f \in FileRecords(fat), NEW fatOk
  PROVE  SeekTurnForm(f, Cross(f, fatOk), SeekTurn(f, fatOk))
<1>. DEFINE next == Cross(f, fatOk)
            s == SeekTurn(f, fatOk)
<1>1. CrossOK(fat, f, next)
  BY CrossCases
<1>2. \E g : \E result : next = Without(g, result)
  BY Zenon DEF Cross
<1>3. s = IF next.result # "Ok" THEN next
          ELSE [next EXCEPT !.file.sector_offset = @ + 1, !.file.position = (@ + SectorSize) % PositionModulus]
  BY Zenon DEF SeekTurn
<1>. HIDE DEF next, s
<1>4. PICK g, result : next = Without(g, result)
  BY <1>2
<1>5. next = [file |-> g, result |-> result, data |-> << >>, count |-> 0] /\ next.file = g
  BY <1>4 DEF Without, Outcome
<1>6. g \in FileRecords(fat) /\ g.position = f.position
  BY <1>1, <1>5 DEF CrossOK, SamePosition, SameFile
<1>7. ASSUME next.result = "Ok"
      PROVE  s.result = "Ok" /\ s.file = Advance(g, (f.position + SectorSize) % PositionModulus)
  <2>1. s = [next EXCEPT !.file.sector_offset = @ + 1, !.file.position = (@ + SectorSize) % PositionModulus]
    BY <1>3, <1>7
  <2>2. /\ s.result = next.result
        /\ s.file = [g EXCEPT !.sector_offset = g.sector_offset + 1, !.position = (g.position + SectorSize) % PositionModulus]
    BY <1>5, <1>6, <2>1 DEF FileRecords
  <2>. QED BY <1>6, <1>7, <2>2 DEF Advance
<1>8. SeekTurnForm(f, next, s)
  BY <1>3, <1>5, <1>7, Zenon DEF SeekTurnForm
<1>. QED BY <1>8 DEF next, s

\* A turn below the target goes one sector on, not past the target; when it fails the file
\* stays where it is.
SeekTurnOK(v, f, target, s) ==
  /\ SameFile(v, f, s.file) /\ Placed(v, s.file)
  /\ s.result = "Ok" => s.file.position <= target

LEMMA SeekTurnType ==
  ASSUME FatGood(fat), NEW f \in FileRecords(fat), NEW fatOk
  PROVE  SameFile(fat, f, SeekTurn(f, fatOk).file)
<1>. DEFINE next == Cross(f, fatOk)
            s == SeekTurn(f, fatOk)
<1>1. CrossOK(fat, f, next)
  BY CrossCases
<1>2. SeekTurnForm(f, next, s)
  BY SeekTurnForms
<1>. HIDE DEF next, s
<1>3. SameFile(fat, f, next.file) /\ next.file \in FileRecords(fat)
  BY <1>1 DEF CrossOK, SamePosition, SameFile
<1>4. CASE s = next
  BY <1>3, <1>4 DEF s
<1>5. CASE next.result = "Ok" /\ s.file = Advance(next.file, (f.position + SectorSize) % PositionModulus)
  <2>1. (f.position + SectorSize) % PositionModulus \in Nat
    BY Sizes DEF FileRecords
  <2>2. next.file.sector_offset # SectorsPerCluster
    <3>1. SectorsPerCluster # 0
      BY Sizes
    <3>. QED BY <1>1, <1>5, <3>1 DEF CrossOK
  <2>3. SameFile(fat, next.file, s.file)
    BY <1>3, <1>5, <2>1, <2>2, AdvanceFields
  <2>4. SameFile(fat, f, s.file)
    BY <1>3, <2>3 DEF SameFile
  <2>. QED BY <2>4 DEF s
<1>. QED BY <1>2, <1>4, <1>5 DEF SeekTurnForm

LEMMA SeekTurnPlace ==
  ASSUME FatGood(fat), NEW f \in FileRecords(fat), Placed(fat, f), Ordinary(f), NEW fatOk,
         NEW target \in Nat, target % SectorSize = 0, target < f.size, f.position < target
  PROVE  SeekTurnOK(fat, f, target, SeekTurn(f, fatOk))
<1>. DEFINE next == Cross(f, fatOk)
            s == SeekTurn(f, fatOk)
<1>1. CrossOK(fat, f, next)
  BY CrossCases
<1>2. SeekTurnForm(f, next, s)
  BY SeekTurnForms
<1>3. SameFile(fat, f, s.file)
  BY SeekTurnType
<1>4. f.position \in Nat /\ f.size \in Nat /\ f.position < f.size
  BY DEF FileRecords
<1>5. PICK q \in Nat, o \in 0 .. SectorsPerCluster : At(fat, f, q, o)
  BY <1>4 DEF Placed
<1>6. /\ next.result = "BlockError" => next.file = f
      /\ next.result = "Ok" => \E p \in Nat, n \in 0 .. SectorsPerCluster - 1 : At(fat, next.file, p, n)
  BY <1>5, CrossPlace
<1>. HIDE DEF s, next
<1>7. CASE next.result # "Ok"
  <2>1. s = next
    BY <1>2, <1>7 DEF SeekTurnForm
  <2>2. s.file = f /\ s.result # "Ok"
    BY <1>1, <1>7, <2>1 DEF CrossOK
  <2>3. SeekTurnOK(fat, f, target, s)
    BY <1>3, <2>2, Zenon DEF SeekTurnOK
  <2>. QED BY <2>3 DEF s
<1>8. CASE next.result = "Ok"
  <2>. DEFINE at == next.file
  <2>1. PICK p \in Nat, n \in 0 .. SectorsPerCluster - 1 : At(fat, at, p, n)
    BY <1>6, <1>8
  <2>2. at \in FileRecords(fat) /\ at.position = f.position /\ at.size = f.size
    BY <1>1 DEF CrossOK, SamePosition, SameFile
  <2>3. s.file = Advance(at, f.position + SectorSize)
    <3>1. (f.position + SectorSize) % PositionModulus = f.position + SectorSize
      BY <1>4, NoWrap
    <3>. QED BY <1>2, <1>8, <3>1, Zenon DEF SeekTurnForm
  <2>. HIDE DEF at
  <2>4. /\ at.sector_offset # SectorsPerCluster /\ n + 1 \in 0 .. SectorsPerCluster
        /\ At(fat, Advance(at, f.position + SectorSize), p, n + 1)
    BY <2>1, <2>2, AdvancedPlace
  <2>5. s.file.position = f.position + SectorSize /\ s.file \in FileRecords(fat) /\ s.file.size = f.size
    <3>1. f.position + SectorSize \in Nat
      BY <1>4, Sizes
    <3>. QED BY <2>2, <2>3, <2>4, <3>1, AdvanceFields DEF SameFile
  <2>6. f.position + SectorSize <= target
    <3>. DEFINE k == q * SectorsPerCluster + o
    <3>1. f.position = k * SectorSize
      BY <1>5 DEF At
    <3>2. k \in Nat
      <4>1. q * SectorsPerCluster \in Nat
        BY Sizes, Product
      <4>. QED BY <4>1, Sizes
    <3>. HIDE DEF k
    <3>3. k * SectorSize < target
      BY <3>1
    <3>4. k * SectorSize + SectorSize <= target
      BY <3>2, <3>3, Sizes, NextMultiple
    <3>. QED BY <3>1, <3>4
  <2>7. s.file.position <= s.file.size
    BY <1>4, <2>5, <2>6, Sizes
  <2>8. Placed(fat, s.file)
    BY <2>3, <2>4, <2>5, <2>7, PlacedThere
  <2>9. SeekTurnOK(fat, f, target, s)
    BY <1>3, <2>5, <2>6, <2>8, Zenon DEF SeekTurnOK
  <2>. QED BY <2>9 DEF s
<1>. QED BY <1>7, <1>8

-----------------------------------------------------------------------------
(* What a caller has been given *)

\* The bytes of a file from a position on.
CopiedFrom(v, start, from, copied) ==
  /\ copied \in Seq(Cells)
  /\ \A i \in 1 .. Len(copied) : copied[i] = ByteAt(v, start, from + i - 1)

LEMMA Joined ==
  ASSUME NEW S, NEW s \in Seq(S), NEW t \in Seq(S)
  PROVE  /\ s \o t \in Seq(S) /\ Len(s \o t) = Len(s) + Len(t)
         /\ \A i \in 1 .. Len(s) + Len(t) : i <= Len(s) => (s \o t)[i] = s[i]
         /\ \A i \in 1 .. Len(s) + Len(t) : ~ i <= Len(s) => (s \o t)[i] = t[i - Len(s)]
OBVIOUS

LEMMA CopyOn ==
  ASSUME NEW v, NEW f \in FileRecords(v), NEW from \in Nat, NEW copied, NEW data, NEW m \in 0 .. SectorSize,
         CopiedFrom(v, f.start_cluster, from, copied), f.position = from + Len(copied),
         Delivers(v, f, data)
  PROVE  /\ CopiedFrom(v, f.start_cluster, from, copied \o SubSeq(data, 1, m))
         /\ Len(copied \o SubSeq(data, 1, m)) = Len(copied) + m
<1>. DEFINE part == SubSeq(data, 1, m)
            all == copied \o part
            l == Len(copied)
<1>1. copied \in Seq(Cells) /\ data \in Seq(Cells) /\ Len(data) = SectorSize /\ l \in Nat
  BY DEF CopiedFrom, Delivers
<1>2. /\ part \in Seq(Cells) /\ Len(part) = m /\ \A i \in 1 .. m : part[i] = data[i]
  BY <1>1, Sizes
<1>. HIDE DEF part
<1>3. /\ all \in Seq(Cells) /\ Len(all) = l + m
      /\ \A i \in 1 .. l + m : all[i] = IF i <= l THEN copied[i] ELSE part[i - l]
  <2>1. copied \in Seq(Cells) /\ part \in Seq(Cells)
    BY <1>1, <1>2, Zenon
  <2>. HIDE DEF l
  <2>2. all \in Seq(Cells) /\ Len(all) = Len(copied) + Len(part)
    BY <2>1, Joined, Zenon
  <2>3. /\ \A i \in 1 .. Len(copied) + Len(part) : i <= Len(copied) => all[i] = copied[i]
        /\ \A i \in 1 .. Len(copied) + Len(part) : ~ i <= Len(copied) => all[i] = part[i - Len(copied)]
    BY <2>1, Joined
  <2>. HIDE DEF all
  <2>. QED BY <1>2, <2>2, <2>3, Zenon DEF l
<1>. HIDE DEF all
<1>4. ASSUME NEW i \in 1 .. Len(all) PROVE all[i] = ByteAt(v, f.start_cluster, from + i - 1)
  <2>1. i \in 1 .. l + m /\ m \in Nat
    BY <1>3, Sizes
  <2>2. CASE i <= l
    <3>1. i \in 1 .. l
      BY <1>1, <2>1, <2>2
    <3>2. copied[i] = ByteAt(v, f.start_cluster, from + i - 1)
      BY <3>1 DEF CopiedFrom
    <3>. QED BY <1>3, <2>1, <2>2, <3>2
  <2>3. CASE ~ i <= l
    <3>1. i - l \in 1 .. m /\ i - l \in 1 .. SectorSize
      BY <1>1, <2>1, <2>3, Sizes
    <3>2. all[i] = data[i - l]
      BY <1>2, <1>3, <2>1, <2>3, <3>1
    <3>3. data[i - l] = ByteAt(v, f.start_cluster, f.position + (i - l) - 1)
      BY <3>1 DEF Delivers
    <3>4. f.position + (i - l) - 1 = from + i - 1
      BY <1>1, <2>1
    <3>. QED BY <3>2, <3>3, <3>4, Zenon
  <2>. QED BY <2>2, <2>3
<1>5. CopiedFrom(v, f.start_cluster, from, all)
  BY <1>3, <1>4 DEF CopiedFrom
<1>. QED BY <1>3, <1>5 DEF all, part

LEMMA WholeSector ==
  ASSUME NEW v, NEW f, NEW data, Delivers(v, f, data)
  PROVE  SubSeq(data, 1, SectorSize) = data
<1>1. data \in Seq(Cells) /\ Len(data) = SectorSize
  BY DEF Delivers
<1>. QED BY <1>1, Sizes

LEMMA MinOfTwo ==
  ASSUME NEW a \in Nat, NEW b \in Nat
  PROVE  /\ Min({a, b}) \in Nat /\ Min({a, b}) <= a /\ Min({a, b}) <= b
         /\ Min({a, b}) = a \/ Min({a, b}) = b
<1>1. {a, b} \in SUBSET Nat /\ {a, b} # {}
  OBVIOUS
<1>2. Min({a, b}) \in {a, b} /\ \A n \in {a, b} : Min({a, b}) <= n
  BY <1>1, MinIsLeast
<1>. QED BY <1>2

-----------------------------------------------------------------------------
(* The read service *)

\* A successful read filled the buffer, or reached the end of the file or of its chain.
Finished(v, f, j) ==
  \/ Len(j.copied) = j.n \/ j.from + Len(j.copied) = f.size
  \/ ClusterAt(v, f.start_cluster, ((j.from + Len(j.copied)) \div SectorSize) \div SectorsPerCluster) = EndOfChain

JobRecord(op, from, n, copied, status) ==
  [op |-> op, from |-> from, n |-> n, copied |-> copied, status |-> status]

ReadJobOK(v, f, j) ==
  /\ j = JobRecord(j.op, j.from, j.n, j.copied, j.status)
  /\ j.op \in {"read", "done"} /\ j.from \in Nat /\ j.n \in Nat
  /\ CopiedFrom(v, f.start_cluster, j.from, j.copied)
  /\ j.op = "read" => Len(j.copied) < j.n /\ f.position = j.from + Len(j.copied)
  /\ j.op = "done" /\ j.status = "SUCCESS" => Finished(v, f, j)

SeekJobOK(f, j) ==
  /\ j = [op |-> j.op, target |-> j.target, status |-> j.status] /\ j.op \in {"seek", "done"}
  /\ j.op = "seek" => /\ j.target \in Nat /\ j.target % SectorSize = 0
                      /\ j.target < f.size /\ f.position < j.target

JobOK(v, f, j) == j = Idle \/ ReadJobOK(v, f, j) \/ SeekJobOK(f, j)

FatInv ==
  /\ FatGood(fat) /\ file \in FileRecords(fat) /\ Placed(fat, file)
  /\ Ordinary(file) => JobOK(fat, file, job)

LEMMA OrdinarySame ==
  ASSUME NEW v, NEW f, NEW g, SameFile(v, f, g)
  PROVE  Ordinary(g) <=> Ordinary(f)
BY DEF SameFile, Ordinary

IsJob(j, op, from, n, copied) ==
  /\ j.op = op /\ j.from = from /\ j.n = n /\ j.copied = copied
  /\ j = JobRecord(j.op, j.from, j.n, j.copied, j.status)

LEMMA JobFields ==
  ASSUME NEW op, NEW from, NEW n, NEW copied, NEW status, NEW j, j = JobRecord(op, from, n, copied, status)
  PROVE  IsJob(j, op, from, n, copied)
BY DEF JobRecord, IsJob

LEMMA ReadCallOK ==
  ASSUME FatInv, NEW n \in Nat, ReadCall(n)
  PROVE  FatInv'
<1>1. UNCHANGED <<fat, file>> /\ job' = IF n = 0 THEN Return(ReadJob(n), "SUCCESS") ELSE ReadJob(n)
  BY DEF ReadCall
<1>2. FatGood(fat) /\ file \in FileRecords(fat) /\ Placed(fat, file)
  BY DEF FatInv
<1>. DEFINE op == IF n = 0 THEN "done" ELSE "read"
            start == file.start_cluster
<1>3. job' = JobRecord(op, file.position, n, << >>, "SUCCESS")
  BY <1>1 DEF Return, ReadJob, JobRecord
<1>4. file.position \in Nat
  BY <1>2 DEF FileRecords
<1>5. CopiedFrom(fat, start, file.position, << >>)
  BY DEF CopiedFrom
<1>6. ReadJobOK(fat, file, job')
  <2>1. /\ job'.op = op /\ job'.from = file.position /\ job'.n = n /\ job'.copied = << >>
        /\ job' = JobRecord(job'.op, job'.from, job'.n, job'.copied, job'.status)
    BY <1>3, JobFields DEF IsJob
  <2>2. Len(<< >>) = 0
    OBVIOUS
  <2>3. op = "read" => 0 < n /\ file.position = file.position + 0
    BY <1>4
  <2>4. op = "done" => 0 = n
    OBVIOUS
  <2>5. op \in {"read", "done"}
    OBVIOUS
  <2>. HIDE DEF op, start
  <2>6. job'.op \in {"read", "done"} /\ job'.from \in Nat /\ job'.n \in Nat
    BY <1>4, <2>1, <2>5
  <2>7. CopiedFrom(fat, start, job'.from, job'.copied)
    BY <1>5, <2>1, Zenon
  <2>8. job'.op = "read" => Len(job'.copied) < job'.n /\ file.position = job'.from + Len(job'.copied)
    BY <2>1, <2>2, <2>3, Zenon
  <2>9. job'.op = "done" => Finished(fat, file, job')
    BY <2>1, <2>2, <2>4, Zenon DEF Finished
  <2>. QED BY <2>1, <2>6, <2>7, <2>8, <2>9, Zenon DEF ReadJobOK, start
<1>. QED BY <1>1, <1>2, <1>6, Zenon DEF FatInv, JobOK

LEMMA SeekCallOK ==
  ASSUME FatInv, NEW target \in Nat, SeekCall(target)
  PROVE  FatInv'
<1>. DEFINE s == SeekStart(file, target)
<1>1. /\ fat' = fat /\ file' = s.file
      /\ job' = [op |-> IF s.result = "Ok" /\ s.file.position # target THEN "seek" ELSE "done",
                 target |-> target, status |-> s.result]
  BY Zenon DEF SeekCall
<1>2. FatGood(fat) /\ file \in FileRecords(fat) /\ Placed(fat, file)
  BY DEF FatInv
<1>3. SeekStartOK(fat, file, target, s)
  BY <1>2, SeekStartPlace
<1>. HIDE DEF s
<1>4. SameFile(fat, file, s.file) /\ Placed(fat, s.file)
  BY <1>2, <1>3 DEF SeekStartOK
<1>5. s.file \in FileRecords(fat) /\ s.file.size = file.size
  BY <1>4 DEF SameFile
<1>6. SeekJobOK(s.file, job')
  <2>1. /\ job'.op \in {"seek", "done"} /\ job'.target = target
        /\ job' = [op |-> job'.op, target |-> job'.target, status |-> job'.status]
        /\ job'.op = "seek" => s.result = "Ok" /\ s.file.position # target
    BY <1>1
  <2>2. ASSUME job'.op = "seek"
        PROVE  target % SectorSize = 0 /\ target < s.file.size /\ s.file.position < target
    <3>1. target % SectorSize = 0 /\ target < file.size /\ s.file.position <= target /\ s.file.position # target
      BY <1>3, <2>1, <2>2 DEF SeekStartOK
    <3>2. s.file.position \in Nat
      BY <1>5 DEF FileRecords
    <3>. QED BY <1>5, <3>1, <3>2
  <2>. QED BY <2>1, <2>2, Zenon DEF SeekJobOK
<1>. QED BY <1>1, <1>2, <1>4, <1>5, <1>6, Zenon DEF FatInv, JobOK

LEMMA SeekStepOK ==
  ASSUME FatInv, NEW fatOk, SeekStep(fatOk)
  PROVE  FatInv'
<1>. DEFINE s == SeekTurn(file, fatOk)
<1>1. /\ job.op = "seek" /\ fat' = fat /\ file' = s.file
      /\ job' = [job EXCEPT !.op = IF s.result = "Ok" /\ s.file.position # job.target THEN "seek" ELSE "done",
                            !.status = s.result]
  BY Zenon DEF SeekStep
<1>2. FatGood(fat) /\ file \in FileRecords(fat) /\ Placed(fat, file)
  BY DEF FatInv
<1>3. SameFile(fat, file, s.file)
  BY <1>2, SeekTurnType
<1>4. s.file \in FileRecords(fat) /\ s.file.size = file.size
  BY <1>3 DEF SameFile
<1>5. CASE ~ Ordinary(file)
  <2>1. ~ Ordinary(s.file)
    BY <1>3, <1>5, OrdinarySame, Zenon
  <2>2. Placed(fat, s.file)
    BY <2>1 DEF Placed
  <2>. HIDE DEF s
  <2>. QED BY <1>1, <1>2, <1>4, <2>1, <2>2, Zenon DEF FatInv
<1>6. CASE Ordinary(file)
  <2>1. SeekJobOK(file, job)
    <3>1. job = Idle \/ ReadJobOK(fat, file, job) \/ SeekJobOK(file, job)
      BY <1>6 DEF FatInv, JobOK
    <3>2. Idle.op # "seek"
      BY DEF Idle
    <3>3. ~ ReadJobOK(fat, file, job)
      BY <1>1 DEF ReadJobOK
    <3>. QED BY <1>1, <3>1, <3>2, <3>3
  <2>2. /\ job.target \in Nat /\ job.target % SectorSize = 0
        /\ job.target < file.size /\ file.position < job.target
    BY <1>1, <2>1 DEF SeekJobOK
  <2>3. SeekTurnOK(fat, file, job.target, s)
    BY <1>2, <1>6, <2>2, SeekTurnPlace
  <2>. HIDE DEF s
  <2>4. SeekJobOK(s.file, job')
    <3>1. job = [op |-> job.op, target |-> job.target, status |-> job.status]
      BY <2>1 DEF SeekJobOK
    <3>2. /\ job'.op \in {"seek", "done"} /\ job'.target = job.target
          /\ job' = [op |-> job'.op, target |-> job'.target, status |-> job'.status]
          /\ job'.op = "seek" => s.result = "Ok" /\ s.file.position # job.target
      BY <1>1, <3>1
    <3>3. ASSUME job'.op = "seek" PROVE job.target < s.file.size /\ s.file.position < job.target
      <4>1. s.file.position <= job.target /\ s.file.position # job.target
        BY <2>3, <3>2, <3>3 DEF SeekTurnOK
      <4>2. s.file.position \in Nat
        BY <1>4 DEF FileRecords
      <4>. QED BY <1>4, <2>2, <4>1, <4>2
    <3>. QED BY <2>2, <3>2, <3>3, Zenon DEF SeekJobOK
  <2>5. Placed(fat, s.file)
    BY <2>3 DEF SeekTurnOK
  <2>. QED BY <1>1, <1>2, <1>4, <2>4, <2>5, Zenon DEF FatInv, JobOK
<1>. QED BY <1>5, <1>6

\* A read that goes on, or comes to its end, keeps what it has delivered.
LEMMA ReadJobStep ==
  ASSUME FatGood(fat), NEW f \in FileRecords(fat), Placed(fat, f), Ordinary(f), NEW j,
         ReadJobOK(fat, f, j), j.op = "read", NEW r, ReadOK(fat, f, r), NEW k,
         LET copied == j.copied \o SubSeq(r.data, 1, Min({r.count, j.n - Len(j.copied)}))
         IN  k = CASE r.result = "Ok" /\ Len(copied) < j.n -> [j EXCEPT !.copied = copied]
                   [] r.result = "Ok" /\ Len(copied) = j.n -> Return([j EXCEPT !.copied = copied], j.status)
                   [] r.result = "EndOfFile" ->
                        Return(j, IF j.copied = << >> THEN "END_OF_FILE" ELSE "SUCCESS")
                   [] r.result = "BlockError" -> [j EXCEPT !.status = "DEVICE_ERROR"]
  PROVE  ReadJobOK(fat, r.file, k)
<1>. DEFINE copied == j.copied \o SubSeq(r.data, 1, Min({r.count, j.n - Len(j.copied)}))
            l == Len(j.copied)
            start == f.start_cluster
            g == r.file
<1>1. /\ j = JobRecord(j.op, j.from, j.n, j.copied, j.status)
      /\ j.from \in Nat /\ j.n \in Nat /\ CopiedFrom(fat, start, j.from, j.copied)
      /\ l < j.n /\ f.position = j.from + l
  BY DEF ReadJobOK
<1>2. g.start_cluster = start /\ g.size = f.size
  BY DEF ReadOK, SameFile
<1>3. j.copied \in Seq(Cells) /\ l \in Nat
  BY <1>1 DEF CopiedFrom
<1>4. CASE r.result = "Ok"
  <2>1. /\ f.position < f.size /\ Delivers(fat, f, r.data)
        /\ r.count \in 1 .. SectorSize /\ g.position = f.position + r.count
    BY <1>4 DEF ReadOK
  <2>. DEFINE room == j.n - l
              m == Min({r.count, room})
  <2>2. room \in Nat /\ room # 0 /\ r.count \in Nat
    BY <1>1, <1>3, <2>1, Sizes
  <2>. HIDE DEF room
  <2>3. m \in Nat /\ m <= r.count /\ m <= room /\ (m = r.count \/ m = room)
    BY <2>2, MinOfTwo
  <2>. HIDE DEF m
  <2>4. m \in 0 .. SectorSize
    BY <2>1, <2>3, Sizes
  <2>5. copied = j.copied \o SubSeq(r.data, 1, m)
    BY DEF m, room
  <2>. HIDE DEF copied
  <2>6. CopiedFrom(fat, start, j.from, copied) /\ Len(copied) = l + m
    <3>1. /\ CopiedFrom(fat, start, j.from, j.copied \o SubSeq(r.data, 1, m))
          /\ Len(j.copied \o SubSeq(r.data, 1, m)) = l + m
      BY <1>1, <2>1, <2>4, CopyOn
    <3>. QED BY <2>5, <3>1, Zenon
  <2>7. Len(copied) <= j.n /\ Len(copied) \in Nat
    BY <1>1, <1>3, <2>3, <2>6 DEF room
  <2>8. CASE Len(copied) < j.n
    <3>1. k = [j EXCEPT !.copied = copied]
      <4>1. Len(copied) # j.n
        BY <1>1, <2>7, <2>8
      <4>. QED BY <1>4, <2>8, <4>1, Zenon DEF copied
    <3>2. k = JobRecord("read", j.from, j.n, copied, j.status)
      BY <1>1, <3>1 DEF JobRecord
    <3>3. /\ k.op = "read" /\ k.from = j.from /\ k.n = j.n /\ k.copied = copied
          /\ k = JobRecord(k.op, k.from, k.n, k.copied, k.status)
      <4>1. IsJob(k, "read", j.from, j.n, copied)
        BY <3>2, JobFields, Zenon
      <4>. QED BY <4>1, Zenon DEF IsJob
    <3>4. m = r.count
      BY <1>1, <1>3, <2>3, <2>6, <2>8 DEF room
    <3>5. g.position = j.from + Len(copied)
      BY <1>1, <1>3, <2>1, <2>2, <2>6, <3>4 DEF FileRecords
    <3>. HIDE DEF l
    <3>6. CopiedFrom(fat, g.start_cluster, k.from, k.copied)
      BY <1>2, <2>6, <3>3, Zenon
    <3>7. Len(k.copied) < k.n /\ g.position = k.from + Len(k.copied)
      BY <2>8, <3>3, <3>5, Zenon
    <3>8. k.op \in {"read", "done"} /\ k.from \in Nat /\ k.n \in Nat /\ k.op # "done"
      BY <1>1, <3>3
    <3>. QED BY <3>3, <3>6, <3>7, <3>8, Zenon DEF ReadJobOK
  <2>9. CASE Len(copied) = j.n
    <3>1. ~ Len(copied) < j.n
      BY <1>1, <2>9
    <3>2. k = Return([j EXCEPT !.copied = copied], j.status)
      BY <1>4, <2>9, <3>1, Zenon DEF copied
    <3>3. k = JobRecord("done", j.from, j.n, copied, j.status)
      BY <1>1, <3>2 DEF JobRecord, Return
    <3>4. /\ k.op = "done" /\ k.from = j.from /\ k.n = j.n /\ k.copied = copied
          /\ k = JobRecord(k.op, k.from, k.n, k.copied, k.status)
      <4>1. IsJob(k, "done", j.from, j.n, copied)
        BY <3>3, JobFields, Zenon
      <4>. QED BY <4>1, Zenon DEF IsJob
    <3>5. CopiedFrom(fat, g.start_cluster, k.from, k.copied)
      BY <1>2, <2>6, <3>4, Zenon
    <3>6. Finished(fat, g, k)
      BY <2>9, <3>4, Zenon DEF Finished
    <3>7. k.op \in {"read", "done"} /\ k.from \in Nat /\ k.n \in Nat /\ k.op # "read"
      BY <1>1, <3>4
    <3>. QED BY <3>4, <3>5, <3>6, <3>7, Zenon DEF ReadJobOK
  <2>10. Len(copied) < j.n \/ Len(copied) = j.n
    BY <1>1, <2>7
  <2>. QED BY <2>8, <2>9, <2>10, Zenon
<1>5. CASE r.result = "EndOfFile"
  <2>1. g = f /\ Ended(fat, f)
    BY <1>5 DEF ReadOK
  <2>. DEFINE status == IF j.copied = << >> THEN "END_OF_FILE" ELSE "SUCCESS"
  <2>2. k = Return(j, status)
    BY <1>5
  <2>3. k = JobRecord("done", j.from, j.n, j.copied, status)
    BY <1>1, <2>2 DEF JobRecord, Return
  <2>4. /\ k.op = "done" /\ k.from = j.from /\ k.n = j.n /\ k.copied = j.copied
        /\ k = JobRecord(k.op, k.from, k.n, k.copied, k.status)
    <3>1. IsJob(k, "done", j.from, j.n, j.copied)
      BY <2>3, JobFields, Zenon
    <3>. QED BY <3>1, Zenon DEF IsJob
  <2>5. f.position <= f.size /\ f.position \in Nat /\ f.size \in Nat
    BY DEF Placed, FileRecords
  <2>6. Finished(fat, g, k)
    <3>1. f.position = k.from + Len(k.copied)
      BY <1>1, <2>4, Zenon
    <3>2. CASE f.position >= f.size
      <4>1. f.position = f.size
        BY <2>5, <3>2
      <4>. QED BY <2>1, <3>1, <4>1, Zenon DEF Finished
    <3>3. CASE ~ f.position >= f.size
      BY <2>1, <3>1, <3>3, Zenon DEF Ended, Finished
    <3>. QED BY <3>2, <3>3
  <2>7. CopiedFrom(fat, g.start_cluster, k.from, k.copied)
    BY <1>1, <2>1, <2>4, Zenon
  <2>8. k.op \in {"read", "done"} /\ k.from \in Nat /\ k.n \in Nat /\ k.op # "read"
    BY <1>1, <2>4
  <2>. QED BY <2>4, <2>6, <2>7, <2>8, Zenon DEF ReadJobOK
<1>6. CASE r.result = "BlockError"
  <2>1. g.position = f.position
    BY <1>6 DEF ReadOK
  <2>2. k = [j EXCEPT !.status = "DEVICE_ERROR"]
    BY <1>6
  <2>3. k = JobRecord("read", j.from, j.n, j.copied, "DEVICE_ERROR")
    BY <1>1, <2>2 DEF JobRecord
  <2>4. /\ k.op = "read" /\ k.from = j.from /\ k.n = j.n /\ k.copied = j.copied
        /\ k = JobRecord(k.op, k.from, k.n, k.copied, k.status)
    <3>1. IsJob(k, "read", j.from, j.n, j.copied)
      BY <2>3, JobFields, Zenon
    <3>. QED BY <3>1, Zenon DEF IsJob
  <2>5. CopiedFrom(fat, g.start_cluster, k.from, k.copied)
    BY <1>1, <1>2, <2>4, Zenon
  <2>6. Len(k.copied) < k.n /\ g.position = k.from + Len(k.copied)
    BY <1>1, <2>1, <2>4, Zenon
  <2>7. k.op \in {"read", "done"} /\ k.from \in Nat /\ k.n \in Nat /\ k.op # "done"
    BY <1>1, <2>4
  <2>. QED BY <2>4, <2>5, <2>6, <2>7, Zenon DEF ReadJobOK
<1>. QED BY <1>4, <1>5, <1>6 DEF ReadOK

LEMMA ReadStepOK ==
  ASSUME FatInv, NEW fatOk, NEW devOk, ReadStep(fatOk, devOk)
  PROVE  FatInv'
<1>. DEFINE r == Read(file, fatOk, devOk)
            copied == job.copied \o SubSeq(r.data, 1, Min({r.count, job.n - Len(job.copied)}))
<1>1. /\ job.op = "read" /\ fat' = fat /\ file' = r.file
      /\ job' = CASE r.result = "Ok" /\ Len(copied) < job.n -> [job EXCEPT !.copied = copied]
                  [] r.result = "Ok" /\ Len(copied) = job.n ->
                       Return([job EXCEPT !.copied = copied], job.status)
                  [] r.result = "EndOfFile" ->
                       Return(job, IF job.copied = << >> THEN "END_OF_FILE" ELSE "SUCCESS")
                  [] r.result = "BlockError" -> [job EXCEPT !.status = "DEVICE_ERROR"]
  BY Zenon DEF ReadStep
<1>2. FatGood(fat) /\ file \in FileRecords(fat) /\ Placed(fat, file)
  BY DEF FatInv
<1>3. SameFile(fat, file, r.file)
  BY <1>2, ReadType
<1>4. r.file \in FileRecords(fat)
  BY <1>3 DEF SameFile
<1>5. CASE ~ Ordinary(file)
  <2>1. ~ Ordinary(r.file)
    BY <1>3, <1>5, OrdinarySame, Zenon
  <2>2. Placed(fat, r.file)
    BY <2>1 DEF Placed
  <2>. HIDE DEF r
  <2>. QED BY <1>1, <1>2, <1>4, <2>1, <2>2, Zenon DEF FatInv
<1>6. CASE Ordinary(file)
  <2>1. ReadOK(fat, file, r)
    BY <1>2, <1>6, ReadPlace
  <2>2. ReadJobOK(fat, file, job)
    <3>1. job = Idle \/ ReadJobOK(fat, file, job) \/ SeekJobOK(file, job)
      BY <1>6 DEF FatInv, JobOK
    <3>2. Idle.op # "read"
      BY DEF Idle
    <3>3. ~ SeekJobOK(file, job)
      BY <1>1 DEF SeekJobOK
    <3>. QED BY <1>1, <3>1, <3>2, <3>3
  <2>. HIDE DEF r
  <2>3. ReadJobOK(fat, r.file, job')
    BY <1>1, <1>2, <1>6, <2>1, <2>2, ReadJobStep
  <2>4. Placed(fat, r.file)
    BY <2>1 DEF ReadOK
  <2>. QED BY <1>1, <1>2, <1>4, <2>3, <2>4, Zenon DEF FatInv, JobOK
<1>. QED BY <1>5, <1>6

LEMMA PlaceKnown ==
  ASSUME FatInv
  PROVE  PlaceIsPosition
<1>. SUFFICES ASSUME Regular, file.position < file.size
     PROVE  LET sector == file.position \div SectorSize
            IN  /\ file.position % SectorSize = 0
                /\ \/ /\ file.sector_offset = sector % SectorsPerCluster
                      /\ file.active_cluster = ClusterAt(fat, file.start_cluster, sector \div SectorsPerCluster)
                   \/ /\ sector > 0 /\ sector % SectorsPerCluster = 0
                      /\ file.sector_offset = SectorsPerCluster
                      /\ file.active_cluster = ClusterAt(fat, file.start_cluster, sector \div SectorsPerCluster - 1)
  BY DEF PlaceIsPosition
<1>. DEFINE sector == file.position \div SectorSize
<1>1. PICK q \in Nat, o \in 0 .. SectorsPerCluster : At(fat, file, q, o)
  BY DEF FatInv, Placed, Ordinary, Regular
<1>2. /\ file.position % SectorSize = 0 /\ sector = q * SectorsPerCluster + o /\ sector \in Nat
      /\ o # SectorsPerCluster => sector \div SectorsPerCluster = q /\ sector % SectorsPerCluster = o
      /\ o = SectorsPerCluster => sector \div SectorsPerCluster = q + 1 /\ sector % SectorsPerCluster = 0
  BY <1>1, PlaceSector
<1>3. file.sector_offset = o /\ file.active_cluster = ClusterAt(fat, file.start_cluster, q)
  BY <1>1 DEF At
<1>. HIDE DEF sector
<1>4. CASE o # SectorsPerCluster
  BY <1>2, <1>3, <1>4, Zenon DEF sector
<1>5. CASE o = SectorsPerCluster
  <2>1. (q + 1) - 1 = q
    OBVIOUS
  <2>2. sector > 0
    <3>1. q * SectorsPerCluster \in Nat
      BY Sizes, Product
    <3>. QED BY <1>2, <1>5, <3>1, Sizes
  <2>3. sector \div SectorsPerCluster - 1 = q
    BY <1>2, <1>5, <2>1, Zenon
  <2>. QED BY <1>2, <1>3, <1>5, <2>2, <2>3, Zenon DEF sector
<1>. QED BY <1>4, <1>5

LEMMA DeliveredKnown ==
  ASSUME FatInv
  PROVE  ReadDelivers
<1>. SUFFICES ASSUME Regular, job.op \in {"read", "done"}, "copied" \in DOMAIN job
     PROVE  /\ \A i \in 1 .. Len(job.copied) : job.copied[i] = ByteAt(fat, file.start_cluster, job.from + i - 1)
            /\ job.op = "done" /\ job.status = "SUCCESS" =>
                 LET next == job.from + Len(job.copied)
                 IN  \/ Len(job.copied) = job.n
                     \/ next = file.size
                     \/ ClusterAt(fat, file.start_cluster, (next \div SectorSize) \div SectorsPerCluster) = EndOfChain
  BY DEF ReadDelivers
<1>1. job = Idle \/ ReadJobOK(fat, file, job) \/ SeekJobOK(file, job)
  BY DEF FatInv, JobOK, Regular, Ordinary
<1>2. job # Idle
  BY DEF Idle
<1>3. ~ SeekJobOK(file, job)
  <2>. SUFFICES ASSUME job = [op |-> job.op, target |-> job.target, status |-> job.status] PROVE FALSE
    BY DEF SeekJobOK
  <2>1. DOMAIN job = {"op", "target", "status"}
    OBVIOUS
  <2>. QED BY <2>1
<1>4. ReadJobOK(fat, file, job)
  BY <1>1, <1>2, <1>3
<1>5. /\ CopiedFrom(fat, file.start_cluster, job.from, job.copied)
      /\ job.op = "done" /\ job.status = "SUCCESS" => Finished(fat, file, job)
  BY <1>4 DEF ReadJobOK
<1>. QED BY <1>5, Zenon DEF CopiedFrom, Finished

\* The volume's data begin where the header says, and the FAT is read right at the clusters
\* of the file.
FileReadable == fat.fs.first_data_sector = fat.data_start /\ file.start_cluster \in Readable(fat)

LEMMA FatInit == ASSUME Init, FileReadable PROVE FatInv
<1>1. FatGood(fat)
  BY VolumeGood DEF Init, FileReadable
<1>2. PICK f \in Files : file = Opened(f)
  BY DEF Init
<1>3. f.size \in 0 .. PositionModulus - 1 /\ f = [start |-> f.start, size |-> f.size]
  BY FatFileAssumption
<1>4. f.start \in Readable(fat)
  BY <1>2 DEF FileReadable, Opened
<1>5. f \in [start : Readable(fat), size : 0 .. PositionModulus - 1]
  BY <1>3, <1>4
<1>6. file \in FileRecords(fat) /\ Placed(fat, file)
  BY <1>1, <1>2, <1>5, OpenedPlace
<1>. QED BY <1>1, <1>6 DEF FatInv, JobOK, Init

\* What reads and seeks keep.
LEMMA FileSafe == FileReadable /\ Spec => [](PlaceIsPosition /\ ReadDelivers)
<1>1. Init /\ FileReadable => FatInv
  BY FatInit
<1>2. FatInv /\ [Next]_vars => FatInv'
  <2>. SUFFICES ASSUME FatInv, [Next]_vars PROVE FatInv'
    OBVIOUS
  <2>1. ASSUME NEW n \in ReadSizes, ReadCall(n) PROVE FatInv'
    <3>1. n \in Nat
      BY FatFileAssumption
    <3>. QED BY <2>1, <3>1, ReadCallOK
  <2>2. ASSUME NEW target \in SeekTargets, SeekCall(target) PROVE FatInv'
    <3>1. target \in Nat
      BY FatFileAssumption, Sizes
    <3>. QED BY <2>2, <3>1, SeekCallOK
  <2>3. ASSUME NEW fatOk \in BOOLEAN, NEW devOk \in BOOLEAN, ReadStep(fatOk, devOk) PROVE FatInv'
    BY <2>3, ReadStepOK
  <2>4. ASSUME NEW fatOk \in BOOLEAN, SeekStep(fatOk) PROVE FatInv'
    BY <2>4, SeekStepOK
  <2>5. CASE UNCHANGED vars
    BY <2>5 DEF vars, FatInv
  <2>. QED BY <2>1, <2>2, <2>3, <2>4, <2>5 DEF Next
<1>3. FatInv => PlaceIsPosition /\ ReadDelivers
  BY PlaceKnown, DeliveredKnown
<1>. QED BY <1>1, <1>2, <1>3, PTL DEF Spec

\* Reads, seeks, disk errors and retries leave the cluster and sector of an open file those
\* of its position - for sectors, clusters, chains, files and buffers of every size, if
\* next_cluster reads the chain of the file from the FAT.
THEOREM PlaceKept == FileReadable /\ Spec => []PlaceIsPosition
BY FileSafe, PTL

\* The read service hands over the bytes of the file in order, takes no error for the end
\* and stops short only there, under the same condition.
THEOREM BytesDelivered == FileReadable /\ Spec => []ReadDelivers
BY FileSafe, PTL

-----------------------------------------------------------------------------
(* The boot loader *)

BootFile == [start : Clusters, size : 0 .. PositionModulus - SectorSize]

\* The volume's data begin where the header says, and the FAT is read right at the clusters
\* of the kernel and of the initrd.
BootReadable ==
  /\ fat.fs.first_data_sector = fat.data_start
  /\ \A which \in {"kernel", "initrd"} : disk[which] \in BootFile => disk[which].start \in Readable(fat)

\* The file f is the file d, opened, in a place.
IsOpen(v, f, d) ==
  /\ f \in FileRecords(v) /\ Placed(v, f) /\ Ordinary(f)
  /\ f.start_cluster = d.start /\ f.size = d.size

\* The bytes of the kernel behind its setup sectors.
Setup(d) == SectorSize * (1 + IF d.setup_sects = 0 THEN 4 ELSE d.setup_sects)

\* The part of the kernel that has been read: up to the position, or past the end.
KernelSoFar(v, d, f, bytes) ==
  /\ CopiedFrom(v, d.kernel.start, Setup(d), bytes)
  /\ \/ f.position = Setup(d) + Len(bytes)
     \/ f.position = f.size /\ Len(bytes) >= f.size - Setup(d)

KernelDone(v, d, bytes) == Whole(v, d.kernel) => Holds(v, bytes, d.kernel, Setup(d))

KernelInv(v, d, f, ph, m, z) ==
  /\ ph \in {"conf", "entry"} => m.setup = Absent
  /\ ph \in {"conf", "entry", "setup", "seek"} => m.kernel = << >>
  /\ (ph = "setup" /\ m.setup # Absent) \/ ph \in {"seek", "kernel"} => IsOpen(v, f, d.kernel)
  /\ ph \in {"seek", "kernel"} => z.kernel /\ Setup(d) % SectorSize = 0 /\ Setup(d) < f.size
  /\ ph = "seek" => f.position <= Setup(d)
  /\ ph = "kernel" => KernelSoFar(v, d, f, m.kernel)
  /\ ph \in {"initrd", "cmdline", "Ok"} \/ z.initrd_size > 0 => z.kernel /\ KernelDone(v, d, m.kernel)

InitrdInv(v, d, f, ph, m, z) ==
  /\ m.initrd # Absent =>
       /\ ph \in {"initrd", "cmdline", "Ok", "Err", "panic"} /\ IsOpen(v, f, d.initrd)
       /\ CopiedFrom(v, d.initrd.start, 0, m.initrd) /\ Len(m.initrd) <= d.initrd.size
       /\ ph = "initrd" => f.position = Len(m.initrd)
  /\ z.initrd_size > 0 =>
       /\ ph \in {"cmdline", "Ok", "panic"}
       /\ z.initrd_size = d.initrd.size /\ z.initrd_address = TopOfUsableRam - d.initrd.size
       /\ Whole(v, d.initrd) => Holds(v, m.initrd, d.initrd, 0)

ZeroPage(z) ==
  z = [kernel |-> z.kernel, initrd_address |-> z.initrd_address, initrd_size |-> z.initrd_size,
       cmdline_size |-> z.cmdline_size]

BootInv ==
  /\ FatGood(fat) /\ disk \in Disks /\ BootReadable
  /\ mem = [b \in Buffers |-> mem[b]] /\ ZeroPage(zero_page) /\ zero_page.initrd_size \in Nat
  /\ KernelInv(fat, disk, file, phase, mem, zero_page)
  /\ InitrdInv(fat, disk, file, phase, mem, zero_page)

LEMMA DiskFiles ==
  ASSUME disk \in Disks, NEW which \in {"conf", "entry", "kernel", "initrd"}
  PROVE  disk[which] \in BootFile \cup {Absent, Subdirectory}
<1>1. {disk.conf, disk.entry, disk.kernel, disk.initrd} \subseteq BootFile \cup {Absent, Subdirectory}
  BY BootFilesAssumption DEF BootFile
<1>. QED BY <1>1

LEMMA SetupSize ==
  ASSUME disk \in Disks
  PROVE  SetupBytes = Setup(disk) /\ Setup(disk) \in Nat
<1>1. disk.setup_sects \in Nat
  BY BootFilesAssumption
<1>2. SetupBytes = Setup(disk)
  BY DEF SetupBytes, Setup
<1>3. ASSUME NEW n \in Nat PROVE SectorSize * (1 + n) \in Nat
  BY Sizes
<1>4. (IF disk.setup_sects = 0 THEN 4 ELSE disk.setup_sects) \in Nat
  BY <1>1
<1>. QED BY <1>2, <1>3, <1>4 DEF Setup

LEMMA OpenedFile ==
  ASSUME FatGood(fat), NEW d \in BootFile, d.start \in Readable(fat)
  PROVE  IsOpen(fat, Opened(d), d) /\ Opened(d).position = 0
<1>1. d \in [start : Readable(fat), size : 0 .. PositionModulus - 1]
  BY Sizes DEF BootFile
<1>2. /\ Opened(d) \in FileRecords(fat) /\ Placed(fat, Opened(d)) /\ Opened(d).position = 0
      /\ Opened(d).start_cluster = d.start /\ Opened(d).size = d.size
  BY <1>1, OpenedPlace
<1>3. Ordinary(Opened(d))
  BY <1>2, Sizes DEF Ordinary, BootFile
<1>. QED BY <1>2, <1>3 DEF IsOpen

\* Reading keeps a file open.
LEMMA ReadOpen ==
  ASSUME FatGood(fat), NEW f, NEW d, IsOpen(fat, f, d), NEW fatOk, NEW devOk
  PROVE  /\ ReadOK(fat, f, Read(f, fatOk, devOk))
         /\ IsOpen(fat, Read(f, fatOk, devOk).file, d)
<1>. DEFINE r == Read(f, fatOk, devOk)
<1>1. f \in FileRecords(fat) /\ Placed(fat, f) /\ Ordinary(f)
  BY DEF IsOpen
<1>2. ReadOK(fat, f, r)
  BY <1>1, ReadPlace
<1>. HIDE DEF r
<1>3. SameFile(fat, f, r.file) /\ Placed(fat, r.file)
  BY <1>2 DEF ReadOK
<1>4. Ordinary(r.file)
  BY <1>1, <1>3, OrdinarySame, Zenon
<1>5. IsOpen(fat, r.file, d)
  BY <1>3, <1>4 DEF IsOpen, SameFile
<1>. QED BY <1>2, <1>5 DEF r

LEMMA ReadResults ==
  ASSUME NEW f, NEW fatOk, NEW devOk
  PROVE  Read(f, fatOk, devOk).result \in {"Ok", "BlockError", "EndOfFile"}
<1>. DEFINE next == Cross(f, fatOk)
            r == Read(f, fatOk, devOk)
<1>1. \E g, result : next = Without(g, result) /\ result \in {"Ok", "BlockError", "EndOfFile"}
  BY Zenon DEF Cross
<1>2. next.result \in {"Ok", "BlockError", "EndOfFile"}
  BY <1>1, WithoutFields
<1>3. \/ \E g, result : r = Without(g, result) /\ result \in {"Ok", "BlockError", "EndOfFile"}
      \/ r = next
      \/ \E g, data, count : r = Outcome(g, "Ok", data, count)
  BY Zenon DEF Read
<1>. HIDE DEF next, r
<1>4. r.result \in {"Ok", "BlockError", "EndOfFile"}
  <2>1. ASSUME NEW g, NEW result, r = Without(g, result), result \in {"Ok", "BlockError", "EndOfFile"}
        PROVE  r.result \in {"Ok", "BlockError", "EndOfFile"}
    <3>1. r.result = result
      BY <2>1, WithoutFields
    <3>. QED BY <2>1, <3>1
  <2>2. ASSUME NEW g, NEW data, NEW count, r = Outcome(g, "Ok", data, count)
        PROVE  r.result \in {"Ok", "BlockError", "EndOfFile"}
    <3>1. r.result = "Ok"
      BY <2>2, OutcomeFields
    <3>. QED BY <3>1
  <2>. QED BY <1>2, <1>3, <2>1, <2>2, Zenon
<1>. QED BY <1>4 DEF r

\* What an assignment to one of the buffers leaves.
LEMMA BufferSet ==
  ASSUME NEW m, m = [b \in Buffers |-> m[b]], NEW b \in Buffers, NEW x, NEW n, n = [m EXCEPT ![b] = x]
  PROVE  n = [c \in Buffers |-> n[c]] /\ n[b] = x /\ \A c \in Buffers \ {b} : n[c] = m[c]
OBVIOUS

MemShape(m) == m = [b \in Buffers |-> m[b]]

\* Before the initrd is opened there is nothing of it.
EarlyPhases == {"conf", "entry", "setup", "seek", "kernel"}

LEMMA Early ==
  ASSUME BootInv, phase \in EarlyPhases
  PROVE  ~ zero_page.initrd_size > 0 /\ mem.initrd = Absent
<1>1. phase \notin {"cmdline", "Ok", "panic"} /\ phase \notin {"initrd", "cmdline", "Ok", "Err", "panic"}
  BY DEF EarlyPhases
<1>. QED BY <1>1, Zenon DEF BootInv, InitrdInv

\* The rest of the invariant, and what has to be shown of a step.
LEMMA BootStep ==
  ASSUME BootInv, fat' = fat, disk' = disk,
         MemShape(mem'), ZeroPage(zero_page'), zero_page'.initrd_size \in Nat,
         KernelInv(fat, disk, file', phase', mem', zero_page'),
         InitrdInv(fat, disk, file', phase', mem', zero_page')
  PROVE  BootInv'
<1>1. BootReadable'
  BY Zenon DEF BootInv, BootReadable
<1>. QED BY <1>1, Zenon DEF BootInv, MemShape

\* A step that gives up before the initrd.
LEMMA EarlyFailure ==
  ASSUME BootInv, phase \in EarlyPhases, fat' = fat, disk' = disk, phase' \in {"Err", "panic"},
         MemShape(mem'), mem'.initrd = mem.initrd, ZeroPage(zero_page'),
         zero_page'.initrd_size = zero_page.initrd_size
  PROVE  BootInv'
<1>1. ~ zero_page.initrd_size > 0 /\ mem.initrd = Absent
  BY Early
<1>2. /\ phase' # "conf" /\ phase' # "entry" /\ phase' # "setup" /\ phase' # "seek" /\ phase' # "kernel"
      /\ phase' # "initrd" /\ phase' # "cmdline" /\ phase' # "Ok"
  OBVIOUS
<1>3. KernelInv(fat, disk, file', phase', mem', zero_page')
  BY <1>1, <1>2, Zenon DEF KernelInv
<1>4. InitrdInv(fat, disk, file', phase', mem', zero_page')
  BY <1>1, Zenon DEF InitrdInv
<1>5. zero_page'.initrd_size \in Nat
  BY DEF BootInv
<1>. QED BY <1>3, <1>4, <1>5, BootStep

\* A step that goes on before the initrd.
LEMMA EarlyStep ==
  ASSUME BootInv, phase \in EarlyPhases, fat' = fat, disk' = disk,
         MemShape(mem'), mem'.initrd = mem.initrd, ZeroPage(zero_page'),
         zero_page'.initrd_size = zero_page.initrd_size,
         KernelInv(fat, disk, file', phase', mem', zero_page')
  PROVE  BootInv'
<1>1. ~ zero_page.initrd_size > 0 /\ mem.initrd = Absent
  BY Early
<1>2. InitrdInv(fat, disk, file', phase', mem', zero_page')
  BY <1>1, Zenon DEF InitrdInv
<1>3. zero_page'.initrd_size \in Nat
  BY DEF BootInv
<1>. QED BY <1>2, <1>3, BootStep

GivesUp == phase' \in {"Err", "panic"} /\ file' = file /\ mem' = mem

Opens(which, buffer) ==
  /\ disk[which] \in BootFile /\ file' = Opened(disk[which])
  /\ mem' = [mem EXCEPT ![buffer] = << >>] /\ phase' = phase

LEMMA OpenCases ==
  ASSUME disk \in Disks, NEW which \in {"conf", "entry", "kernel", "initrd"}, NEW buffer,
         Open(which, buffer)
  PROVE  GivesUp \/ Opens(which, buffer)
<1>1. disk[which] \in BootFile \cup {Absent, Subdirectory}
  BY DiskFiles
<1>2. CASE disk[which] = Absent /\ disk[which] # Subdirectory
  BY <1>2 DEF Open, Fail, GivesUp
<1>3. CASE disk[which] = Subdirectory
  BY <1>3 DEF Open, Fail, GivesUp
<1>4. CASE disk[which] # Absent /\ disk[which] # Subdirectory
  <2>1. disk[which] \in BootFile
    BY <1>1, <1>4
  <2>2. /\ file' = Opened(disk[which]) /\ mem' = [mem EXCEPT ![buffer] = << >>] /\ phase' = phase
    BY <1>4, Zenon DEF Open
  <2>. QED BY <2>1, <2>2 DEF Opens
<1>. QED BY <1>2, <1>3, <1>4

LEMMA BuffersSet ==
  ASSUME BootInv, NEW b \in Buffers, NEW x, mem' = [mem EXCEPT ![b] = x]
  PROVE  MemShape(mem') /\ mem'[b] = x /\ \A c \in Buffers \ {b} : mem'[c] = mem[c]
<1>1. mem = [c \in Buffers |-> mem[c]]
  BY DEF BootInv
<1>. QED BY <1>1, BufferSet DEF MemShape

LEMMA Shapes == ASSUME BootInv PROVE MemShape(mem) /\ ZeroPage(zero_page)
BY DEF BootInv, MemShape

LEMMA GivesUpOK ==
  ASSUME BootInv, phase \in EarlyPhases, fat' = fat, disk' = disk, zero_page' = zero_page,
         phase' \in {"Err", "panic"}, mem' = mem
  PROVE  BootInv'
<1>1. MemShape(mem') /\ ZeroPage(zero_page')
  BY Shapes
<1>2. mem'.initrd = mem.initrd /\ zero_page'.initrd_size = zero_page.initrd_size
  OBVIOUS
<1>. QED BY <1>1, <1>2, EarlyFailure

\* While the configuration is read, nothing of the kernel is.
LEMMA ConfigKernel ==
  ASSUME BootInv, phase \in {"conf", "entry"}, phase' \in {"conf", "entry", "setup"},
         mem'.setup = mem.setup, mem'.kernel = mem.kernel, zero_page' = zero_page
  PROVE  KernelInv(fat, disk, file', phase', mem', zero_page')
<1>1. mem.setup = Absent /\ mem.kernel = << >>
  BY DEF BootInv, KernelInv
<1>2. ~ zero_page.initrd_size > 0
  BY Early DEF EarlyPhases
<1>3. phase' # "seek" /\ phase' # "kernel" /\ phase' # "initrd" /\ phase' # "cmdline" /\ phase' # "Ok"
  OBVIOUS
<1>. QED BY <1>1, <1>2, <1>3 DEF KernelInv

LEMMA OpenConfigOK ==
  ASSUME BootInv, NEW which \in {"conf", "entry"}, OpenConfig(which)
  PROVE  BootInv'
<1>1. /\ phase = which /\ fat' = fat /\ disk' = disk /\ zero_page' = zero_page
      /\ GivesUp \/ Open(which, which)
  BY DEF OpenConfig, GivesUp
<1>2. phase \in EarlyPhases /\ phase \in {"conf", "entry"}
  BY <1>1 DEF EarlyPhases
<1>3. CASE GivesUp
  BY <1>1, <1>2, <1>3, GivesUpOK DEF GivesUp
<1>4. CASE Opens(which, which)
  <2>1. phase' = phase /\ mem' = [mem EXCEPT ![which] = << >>]
    BY <1>4 DEF Opens
  <2>2. which \in Buffers /\ {"setup", "kernel", "initrd"} \subseteq Buffers \ {which}
    BY DEF Buffers
  <2>3. MemShape(mem') /\ \A c \in Buffers \ {which} : mem'[c] = mem[c]
    BY <2>1, <2>2, BuffersSet
  <2>4. mem'.setup = mem.setup /\ mem'.kernel = mem.kernel /\ mem'.initrd = mem.initrd
    BY <2>2, <2>3
  <2>5. KernelInv(fat, disk, file', phase', mem', zero_page')
    BY <1>1, <1>2, <2>1, <2>4, ConfigKernel
  <2>6. ZeroPage(zero_page') /\ zero_page'.initrd_size = zero_page.initrd_size
    BY <1>1, Shapes
  <2>. QED BY <1>1, <1>2, <2>3, <2>4, <2>5, <2>6, EarlyStep
<1>5. Open(which, which) => GivesUp \/ Opens(which, which)
  <2>1. disk \in Disks /\ which \in {"conf", "entry", "kernel", "initrd"}
    BY DEF BootInv
  <2>. QED BY <2>1, OpenCases
<1>. QED BY <1>1, <1>3, <1>4, <1>5

LEMMA ConfigStepOK ==
  ASSUME BootInv, NEW which \in {"conf", "entry"}, NEW fatOk, NEW devOk, ConfigStep(which, fatOk, devOk)
  PROVE  BootInv'
<1>. DEFINE r == Read(file, fatOk, devOk)
<1>1. phase = which /\ fat' = fat /\ disk' = disk /\ zero_page' = zero_page
  BY DEF ConfigStep
<1>2. phase \in EarlyPhases /\ phase \in {"conf", "entry"}
  BY <1>1 DEF EarlyPhases
<1>3. CASE phase' = "panic" /\ mem' = mem
  BY <1>1, <1>2, <1>3, GivesUpOK
<1>4. CASE /\ mem' = [mem EXCEPT ![which] = mem[which] \o r.data]
           /\ phase' = CASE r.result = "Ok" -> which
                         [] r.result = "BlockError" -> "Err"
                         [] r.result = "EndOfFile" -> IF which = "conf" THEN "entry" ELSE "setup"
  <2>1. phase' \in {"conf", "entry", "setup"} \/ phase' = "Err"
    BY <1>4, ReadResults
  <2>2. which \in Buffers /\ {"setup", "kernel", "initrd"} \subseteq Buffers \ {which}
    BY DEF Buffers
  <2>3. MemShape(mem') /\ \A c \in Buffers \ {which} : mem'[c] = mem[c]
    BY <1>4, <2>2, BuffersSet
  <2>4. mem'.setup = mem.setup /\ mem'.kernel = mem.kernel /\ mem'.initrd = mem.initrd
    BY <2>2, <2>3
  <2>5. ZeroPage(zero_page') /\ zero_page'.initrd_size = zero_page.initrd_size
    BY <1>1, Shapes
  <2>6. CASE phase' \in {"conf", "entry", "setup"}
    <3>1. KernelInv(fat, disk, file', phase', mem', zero_page')
      BY <1>1, <1>2, <2>4, <2>6, ConfigKernel
    <3>. QED BY <1>1, <1>2, <2>3, <2>4, <2>5, <3>1, EarlyStep
  <2>7. CASE phase' = "Err"
    BY <1>1, <1>2, <2>3, <2>4, <2>5, <2>7, EarlyFailure
  <2>. QED BY <2>1, <2>6, <2>7
<1>. QED BY <1>3, <1>4, Zenon DEF ConfigStep

LEMMA OpenKernelOK ==
  ASSUME BootInv, OpenKernel
  PROVE  BootInv'
<1>1. /\ phase = "setup" /\ fat' = fat /\ disk' = disk /\ zero_page' = zero_page /\ Open("kernel", "setup")
  BY DEF OpenKernel
<1>2. phase \in EarlyPhases
  BY <1>1 DEF EarlyPhases
<1>3. CASE GivesUp
  BY <1>1, <1>2, <1>3, GivesUpOK DEF GivesUp
<1>4. CASE Opens("kernel", "setup")
  <2>1. /\ phase' = "setup" /\ mem' = [mem EXCEPT !["setup"] = << >>]
        /\ disk.kernel \in BootFile /\ file' = Opened(disk.kernel)
    BY <1>1, <1>4 DEF Opens
  <2>2. "setup" \in Buffers /\ {"kernel", "initrd"} \subseteq Buffers \ {"setup"}
    BY DEF Buffers
  <2>3. MemShape(mem') /\ \A c \in Buffers \ {"setup"} : mem'[c] = mem[c]
    BY <2>1, <2>2, BuffersSet
  <2>4. mem'.kernel = mem.kernel /\ mem'.initrd = mem.initrd
    BY <2>2, <2>3
  <2>5. disk.kernel.start \in Readable(fat) /\ FatGood(fat)
    BY <2>1 DEF BootInv, BootReadable
  <2>6. IsOpen(fat, file', disk.kernel)
    BY <2>1, <2>5, OpenedFile
  <2>7. mem.kernel = << >>
    BY <1>1 DEF BootInv, KernelInv
  <2>8. ~ zero_page.initrd_size > 0
    BY <1>2, Early
  <2>9. KernelInv(fat, disk, file', phase', mem', zero_page')
    BY <1>1, <2>1, <2>4, <2>6, <2>7, <2>8 DEF KernelInv
  <2>10. ZeroPage(zero_page') /\ zero_page'.initrd_size = zero_page.initrd_size
    BY <1>1, Shapes
  <2>. QED BY <1>1, <1>2, <2>3, <2>4, <2>9, <2>10, EarlyStep
<1>5. GivesUp \/ Opens("kernel", "setup")
  <2>1. disk \in Disks /\ "kernel" \in {"conf", "entry", "kernel", "initrd"}
    BY DEF BootInv
  <2>. QED BY <1>1, <2>1, OpenCases
<1>. QED BY <1>3, <1>4, <1>5

LEMMA SetupStepOK ==
  ASSUME BootInv, NEW fatOk, NEW devOk, SetupStep(fatOk, devOk)
  PROVE  BootInv'
<1>. DEFINE r == Read(file, fatOk, devOk)
<1>1. /\ phase = "setup" /\ mem.setup # Absent /\ fat' = fat /\ disk' = disk /\ zero_page' = zero_page
  BY DEF SetupStep
<1>2. phase \in EarlyPhases
  BY <1>1 DEF EarlyPhases
<1>3. \/ phase' = "Err" /\ mem' = mem
      \/ /\ file' = r.file /\ mem' = [mem EXCEPT !["setup"] = mem.setup \o r.data]
         /\ phase' = IF r.result = "Ok" THEN "setup" ELSE "Err"
  BY DEF SetupStep, Fail
<1>4. CASE phase' = "Err" /\ mem' = mem
  BY <1>1, <1>2, <1>4, GivesUpOK
<1>5. CASE /\ file' = r.file /\ mem' = [mem EXCEPT !["setup"] = mem.setup \o r.data]
           /\ phase' = IF r.result = "Ok" THEN "setup" ELSE "Err"
  <2>1. IsOpen(fat, file, disk.kernel) /\ mem.kernel = << >> /\ FatGood(fat)
    BY <1>1 DEF BootInv, KernelInv
  <2>2. IsOpen(fat, file', disk.kernel)
    BY <1>5, <2>1, ReadOpen
  <2>3. "setup" \in Buffers /\ {"kernel", "initrd"} \subseteq Buffers \ {"setup"}
    BY DEF Buffers
  <2>4. MemShape(mem') /\ \A c \in Buffers \ {"setup"} : mem'[c] = mem[c]
    BY <1>5, <2>3, BuffersSet
  <2>5. mem'.kernel = mem.kernel /\ mem'.initrd = mem.initrd
    BY <2>3, <2>4
  <2>6. ZeroPage(zero_page') /\ zero_page'.initrd_size = zero_page.initrd_size
    BY <1>1, Shapes
  <2>7. CASE phase' = "setup"
    <3>1. ~ zero_page.initrd_size > 0
      BY <1>2, Early
    <3>2. KernelInv(fat, disk, file', phase', mem', zero_page')
      BY <1>1, <2>1, <2>2, <2>5, <2>7, <3>1 DEF KernelInv
    <3>. QED BY <1>1, <1>2, <2>4, <2>5, <2>6, <3>2, EarlyStep
  <2>8. CASE phase' = "Err"
    BY <1>1, <1>2, <2>4, <2>5, <2>6, <2>8, EarlyFailure
  <2>. QED BY <1>5, <2>7, <2>8
<1>. QED BY <1>3, <1>4, <1>5

LEMMA CheckHeaderOK ==
  ASSUME BootInv, CheckHeader
  PROVE  BootInv'
<1>. DEFINE s == SeekStart(file, SetupBytes)
<1>1. /\ phase = "setup" /\ mem.setup # Absent /\ fat' = fat /\ disk' = disk /\ mem' = mem
  BY DEF CheckHeader
<1>2. phase \in EarlyPhases
  BY <1>1 DEF EarlyPhases
<1>3. \/ phase' = "Err" /\ zero_page' = zero_page
      \/ /\ zero_page' = [zero_page EXCEPT !.kernel = TRUE] /\ file' = s.file
         /\ phase' = IF s.result = "Ok" THEN "seek" ELSE "Err"
  BY DEF CheckHeader, Fail
<1>4. CASE phase' = "Err" /\ zero_page' = zero_page
  BY <1>1, <1>2, <1>4, GivesUpOK
<1>5. CASE /\ zero_page' = [zero_page EXCEPT !.kernel = TRUE] /\ file' = s.file
           /\ phase' = IF s.result = "Ok" THEN "seek" ELSE "Err"
  <2>1. IsOpen(fat, file, disk.kernel) /\ mem.kernel = << >> /\ FatGood(fat) /\ disk \in Disks
    BY <1>1 DEF BootInv, KernelInv
  <2>2. SetupBytes = Setup(disk) /\ Setup(disk) \in Nat
    BY <2>1, SetupSize
  <2>3. file \in FileRecords(fat) /\ Placed(fat, file) /\ Ordinary(file)
    BY <2>1 DEF IsOpen
  <2>4. SeekStartOK(fat, file, Setup(disk), s)
    BY <2>1, <2>2, <2>3, SeekStartPlace
  <2>. HIDE DEF s
  <2>5. SameFile(fat, file, s.file) /\ Placed(fat, s.file)
    BY <2>3, <2>4 DEF SeekStartOK
  <2>6. Ordinary(s.file)
    BY <2>3, <2>5, OrdinarySame, Zenon
  <2>7. IsOpen(fat, file', disk.kernel) /\ file'.size = file.size
    BY <1>5, <2>1, <2>5, <2>6 DEF IsOpen, SameFile
  <2>8. ZeroPage(zero_page)
    BY Shapes
  <2>9. /\ ZeroPage(zero_page') /\ zero_page'.initrd_size = zero_page.initrd_size
        /\ zero_page'.kernel = TRUE
    BY <1>5, <2>8 DEF ZeroPage
  <2>10. MemShape(mem') /\ mem'.initrd = mem.initrd
    BY <1>1, Shapes
  <2>11. CASE s.result = "Ok"
    <3>1. phase' = "seek"
      BY <1>5, <2>11
    <3>2. Setup(disk) % SectorSize = 0 /\ Setup(disk) < file'.size /\ file'.position <= Setup(disk)
      BY <1>5, <2>4, <2>7, <2>11 DEF SeekStartOK
    <3>3. ~ zero_page'.initrd_size > 0
      BY <1>2, <2>9, Early
    <3>4. KernelInv(fat, disk, file', phase', mem', zero_page')
      BY <1>1, <2>1, <2>7, <2>9, <3>1, <3>2, <3>3 DEF KernelInv
    <3>. QED BY <1>1, <1>2, <2>9, <2>10, <3>4, EarlyStep
  <2>12. CASE s.result # "Ok"
    <3>1. phase' \in {"Err", "panic"}
      BY <1>5, <2>12
    <3>. QED BY <1>1, <1>2, <2>9, <2>10, <3>1, EarlyFailure
  <2>. QED BY <2>11, <2>12
<1>. QED BY <1>3, <1>4, <1>5

LEMMA SeekSetupOK ==
  ASSUME BootInv, NEW fatOk, SeekSetup(fatOk)
  PROVE  BootInv'
<1>. DEFINE s == SeekTurn(file, fatOk)
<1>1. phase = "seek" /\ fat' = fat /\ disk' = disk /\ mem' = mem /\ zero_page' = zero_page
  BY DEF SeekSetup
<1>2. phase \in EarlyPhases
  BY <1>1 DEF EarlyPhases
<1>3. /\ IsOpen(fat, file, disk.kernel) /\ mem.kernel = << >> /\ FatGood(fat) /\ disk \in Disks
      /\ zero_page.kernel /\ Setup(disk) % SectorSize = 0 /\ Setup(disk) < file.size
      /\ file.position <= Setup(disk)
  BY <1>1 DEF BootInv, KernelInv
<1>4. SetupBytes = Setup(disk) /\ Setup(disk) \in Nat
  BY <1>3, SetupSize
<1>5. ~ zero_page.initrd_size > 0
  BY <1>2, Early
<1>6. /\ MemShape(mem') /\ mem'.initrd = mem.initrd
      /\ ZeroPage(zero_page') /\ zero_page'.initrd_size = zero_page.initrd_size
  BY <1>1, Shapes
<1>7. file \in FileRecords(fat) /\ Placed(fat, file) /\ Ordinary(file) /\ file.position \in Nat
  BY <1>3 DEF IsOpen, FileRecords
<1>8. CASE file.position = SetupBytes
  <2>1. phase' = "kernel" /\ file' = file
    BY <1>8 DEF SeekSetup
  <2>2. CopiedFrom(fat, disk.kernel.start, Setup(disk), << >>)
    BY DEF CopiedFrom
  <2>3. file.position = Setup(disk) + Len(<< >>)
    BY <1>4, <1>7, <1>8
  <2>4. KernelSoFar(fat, disk, file, << >>)
    BY <2>2, <2>3, Zenon DEF KernelSoFar
  <2>5. KernelInv(fat, disk, file', phase', mem', zero_page')
    BY <1>1, <1>3, <1>5, <2>1, <2>4 DEF KernelInv
  <2>. QED BY <1>1, <1>2, <1>6, <2>5, EarlyStep
<1>9. CASE file.position # SetupBytes
  <2>1. file' = s.file /\ phase' = IF s.result = "Ok" THEN "seek" ELSE "Err"
    BY <1>9 DEF SeekSetup
  <2>2. file.position < Setup(disk)
    BY <1>3, <1>4, <1>7, <1>9
  <2>3. SeekTurnOK(fat, file, Setup(disk), s)
    BY <1>3, <1>4, <1>7, <2>2, SeekTurnPlace
  <2>. HIDE DEF s
  <2>4. SameFile(fat, file, s.file) /\ Placed(fat, s.file)
    BY <2>3 DEF SeekTurnOK
  <2>5. Ordinary(s.file)
    BY <1>7, <2>4, OrdinarySame, Zenon
  <2>6. IsOpen(fat, file', disk.kernel) /\ file'.size = file.size
    BY <1>3, <2>1, <2>4, <2>5 DEF IsOpen, SameFile
  <2>7. CASE s.result = "Ok"
    <3>1. phase' = "seek" /\ file'.position <= Setup(disk)
      BY <2>1, <2>3, <2>7 DEF SeekTurnOK
    <3>2. KernelInv(fat, disk, file', phase', mem', zero_page')
      BY <1>1, <1>3, <1>5, <2>6, <3>1 DEF KernelInv
    <3>. QED BY <1>1, <1>2, <1>6, <3>2, EarlyStep
  <2>8. CASE s.result # "Ok"
    <3>1. phase' \in {"Err", "panic"}
      BY <2>1, <2>8
    <3>. QED BY <1>1, <1>2, <1>6, <3>1, EarlyFailure
  <2>. QED BY <2>7, <2>8
<1>. QED BY <1>8, <1>9


LEMMA HoldsAll ==
  ASSUME NEW v, NEW d, NEW bytes, NEW from \in Nat, d.size \in Nat,
         CopiedFrom(v, d.start, from, bytes), Len(bytes) >= d.size - from
  PROVE  Holds(v, bytes, d, from)
<1>1. bytes \in Seq(Cells) /\ \A i \in 1 .. Len(bytes) : bytes[i] = ByteAt(v, d.start, from + i - 1)
  BY DEF CopiedFrom
<1>2. Len(bytes) \in Nat
  BY <1>1
<1>3. ASSUME NEW p \in from .. d.size - 1
      PROVE  bytes[p - from + 1] = ByteAt(v, d.start, p)
  <2>1. p - from + 1 \in 1 .. Len(bytes) /\ from + (p - from + 1) - 1 = p
    BY <1>2
  <2>. QED BY <1>1, <2>1
<1>. QED BY <1>3 DEF Holds

\* A chain that ends before the size of the file is not all of it.
LEMMA ChainShort ==
  ASSUME FatGood(fat), NEW f, NEW d, IsOpen(fat, f, d), f.position < f.size, Ended(fat, f)
  PROVE  ~ Whole(fat, d)
<1>. DEFINE i == (f.position \div SectorSize) \div SectorsPerCluster
            j == ((d.size - 1) \div SectorSize) \div SectorsPerCluster
<1>1. f \in FileRecords(fat) /\ f.start_cluster = d.start /\ f.size = d.size
  BY DEF IsOpen
<1>2. f.position \in Nat /\ f.size \in Nat /\ f.start_cluster \in Clusters
  BY <1>1, Sizes, ReadableClusters DEF FileRecords
<1>3. d.size - 1 \in Nat /\ f.position <= d.size - 1 /\ d.size # 0
  BY <1>1, <1>2
<1>4. ClusterAt(fat, d.start, i) = EndOfChain
  BY <1>1, <1>2 DEF Ended
<1>5. SectorSize \in Nat /\ SectorSize # 0 /\ SectorsPerCluster \in Nat /\ SectorsPerCluster # 0
  BY Sizes
<1>6. /\ f.position \div SectorSize \in Nat /\ (d.size - 1) \div SectorSize \in Nat
      /\ f.position \div SectorSize <= (d.size - 1) \div SectorSize
  BY <1>2, <1>3, <1>5, DivMonotone
<1>7. i \in Nat /\ j \in Nat /\ i <= j
  BY <1>5, <1>6, DivMonotone
<1>. HIDE DEF i, j
<1>8. ClusterAt(fat, d.start, j) = EndOfChain
  BY <1>1, <1>2, <1>4, <1>7, ChainEnded
<1>. QED BY <1>3, <1>8 DEF Whole, j

\* A sector of the kernel, read: it lies behind the ones before it.
LEMMA KernelSector ==
  ASSUME NEW v, NEW d, NEW f, NEW bytes, NEW r, IsOpen(v, f, d.kernel), Setup(d) \in Nat,
         KernelSoFar(v, d, f, bytes), ReadOK(v, f, r), r.result = "Ok"
  PROVE  KernelSoFar(v, d, r.file, bytes \o r.data)
<1>1. /\ f \in FileRecords(v) /\ f.start_cluster = d.kernel.start
  BY DEF IsOpen
<1>2. f.position \in Nat /\ f.size \in Nat /\ SectorSize \in Nat /\ SectorSize \in 0 .. SectorSize
  BY <1>1, Sizes DEF FileRecords
<1>3. /\ f.position < f.size /\ Delivers(v, f, r.data) /\ r.file.size = f.size
      /\ r.count \in 1 .. SectorSize /\ r.file.position = f.position + r.count
      /\ r.count = SectorSize \/ r.file.position = f.size
  BY DEF ReadOK, SameFile
<1>4. CopiedFrom(v, d.kernel.start, Setup(d), bytes) /\ f.position = Setup(d) + Len(bytes)
  BY <1>2, <1>3 DEF KernelSoFar
<1>5. SubSeq(r.data, 1, SectorSize) = r.data
  BY <1>3, WholeSector
<1>6. /\ CopiedFrom(v, f.start_cluster, Setup(d), bytes \o SubSeq(r.data, 1, SectorSize))
      /\ Len(bytes \o SubSeq(r.data, 1, SectorSize)) = Len(bytes) + SectorSize
  <2>1. CopiedFrom(v, f.start_cluster, Setup(d), bytes)
    BY <1>1, <1>4
  <2>. QED BY <1>1, <1>2, <1>3, <1>4, <2>1, CopyOn
<1>7. CopiedFrom(v, d.kernel.start, Setup(d), bytes \o r.data) /\ Len(bytes \o r.data) = Len(bytes) + SectorSize
  BY <1>1, <1>5, <1>6
<1>8. Len(bytes) \in Nat
  BY <1>4 DEF CopiedFrom
<1>9. \/ r.file.position = Setup(d) + Len(bytes \o r.data)
      \/ r.file.position = r.file.size /\ Len(bytes \o r.data) >= r.file.size - Setup(d)
  <2>. DEFINE n == Len(bytes \o r.data)
  <2>1. n = Len(bytes) + SectorSize
    BY <1>7
  <2>. HIDE DEF n
  <2>2. r.file.position = Setup(d) + n \/ (r.file.position = r.file.size /\ n >= r.file.size - Setup(d))
    BY <1>2, <1>3, <1>4, <1>8, <2>1
  <2>. QED BY <2>2 DEF n
<1>. QED BY <1>7, <1>9 DEF KernelSoFar

\* The end of the kernel's file, found: all of it is there.
LEMMA KernelEnd ==
  ASSUME FatGood(fat), NEW d, NEW f, NEW bytes, IsOpen(fat, f, d.kernel), Setup(d) \in Nat,
         KernelSoFar(fat, d, f, bytes), Ended(fat, f)
  PROVE  KernelDone(fat, d, bytes)
<1>1. f \in FileRecords(fat) /\ f.size = d.kernel.size
  BY DEF IsOpen
<1>2. f.position \in Nat /\ f.size \in Nat
  BY <1>1, Sizes DEF FileRecords
<1>3. CASE f.position < f.size
  BY <1>3, ChainShort DEF KernelDone
<1>4. CASE ~ f.position < f.size
  <2>1. CopiedFrom(fat, d.kernel.start, Setup(d), bytes)
    BY DEF KernelSoFar
  <2>2. Len(bytes) \in Nat
    BY <2>1 DEF CopiedFrom
  <2>3. Len(bytes) >= d.kernel.size - Setup(d)
    BY <1>1, <1>2, <1>4, <2>2 DEF KernelSoFar
  <2>4. Holds(fat, bytes, d.kernel, Setup(d))
    BY <1>1, <1>2, <2>1, <2>3, HoldsAll
  <2>. QED BY <2>4 DEF KernelDone
<1>. QED BY <1>3, <1>4

LEMMA KernelStepOK ==
  ASSUME BootInv, NEW fatOk, NEW devOk, KernelStep(fatOk, devOk)
  PROVE  BootInv'
<1>. DEFINE r == Read(file, fatOk, devOk)
<1>1. /\ phase = "kernel" /\ fat' = fat /\ disk' = disk /\ zero_page' = zero_page /\ file' = r.file
      /\ mem' = [mem EXCEPT !["kernel"] = mem.kernel \o r.data]
  BY DEF KernelStep
<1>2. phase \in EarlyPhases
  BY <1>1 DEF EarlyPhases
<1>3. /\ IsOpen(fat, file, disk.kernel) /\ FatGood(fat) /\ disk \in Disks /\ zero_page.kernel
      /\ Setup(disk) % SectorSize = 0 /\ Setup(disk) < file.size
      /\ KernelSoFar(fat, disk, file, mem.kernel)
  BY <1>1 DEF BootInv, KernelInv
<1>4. Setup(disk) \in Nat
  BY <1>3, SetupSize
<1>5. /\ phase' = CASE r.result = "Ok" -> "kernel"
                    [] r.result = "BlockError" -> "Err"
                    [] r.result = "EndOfFile" -> IF disk.initrd # Absent THEN "initrd" ELSE "cmdline"
      /\ r.result \in {"Ok", "BlockError", "EndOfFile"}
  BY ReadResults DEF KernelStep
<1>6. ReadOK(fat, file, r) /\ IsOpen(fat, r.file, disk.kernel)
  BY <1>3, ReadOpen
<1>. HIDE DEF r
<1>7. r.file.size = file.size
  BY <1>6 DEF ReadOK, SameFile
<1>8. "kernel" \in Buffers /\ {"setup", "initrd"} \subseteq Buffers \ {"kernel"}
  BY DEF Buffers
<1>9. MemShape(mem)
  BY Shapes
<1>10. MemShape(mem') /\ (\A c \in Buffers \ {"kernel"} : mem'[c] = mem[c]) /\ mem'.kernel = mem.kernel \o r.data
  BY <1>1, <1>8, <1>9, BuffersSet, BufferSet DEF MemShape
<1>11. mem'.initrd = mem.initrd
  BY <1>8, <1>10
<1>12. ZeroPage(zero_page') /\ zero_page'.initrd_size = zero_page.initrd_size
  BY <1>1, Shapes
<1>13. ~ zero_page.initrd_size > 0
  BY <1>2, Early
<1>14. CASE r.result = "Ok"
  <2>1. phase' = "kernel"
    BY <1>5, <1>14
  <2>2. KernelSoFar(fat, disk, r.file, mem.kernel \o r.data)
    BY <1>3, <1>4, <1>6, <1>14, KernelSector
  <2>3. KernelInv(fat, disk, file', phase', mem', zero_page')
    BY <1>1, <1>3, <1>6, <1>7, <1>10, <1>13, <2>1, <2>2 DEF KernelInv
  <2>. QED BY <1>1, <1>2, <1>10, <1>11, <1>12, <2>3, EarlyStep
<1>15. CASE r.result = "BlockError"
  <2>1. phase' = "Err"
    BY <1>5, <1>15
  <2>. QED BY <1>1, <1>2, <1>10, <1>11, <1>12, <2>1, EarlyFailure
<1>16. CASE r.result = "EndOfFile"
  <2>1. phase' \in {"initrd", "cmdline"}
    BY <1>5, <1>16
  <2>2. r.data = << >> /\ Ended(fat, file)
    BY <1>6, <1>16 DEF ReadOK
  <2>3. mem.kernel \in Seq(Cells)
    BY <1>3 DEF KernelSoFar, CopiedFrom
  <2>4. mem'.kernel = mem.kernel
    BY <1>10, <2>2, <2>3
  <2>5. KernelDone(fat, disk, mem'.kernel)
    BY <1>3, <1>4, <2>2, <2>4, KernelEnd
  <2>6. KernelInv(fat, disk, file', phase', mem', zero_page')
    BY <1>1, <1>3, <2>1, <2>5 DEF KernelInv
  <2>. QED BY <1>1, <1>2, <1>10, <1>11, <1>12, <2>6, EarlyStep
<1>. QED BY <1>5, <1>14, <1>15, <1>16


\* A step behind the loading of the kernel leaves it where it is.
LEMMA KernelKept ==
  ASSUME BootInv, phase \in {"initrd", "cmdline"}, fat' = fat, disk' = disk,
         phase' \notin EarlyPhases, mem'.kernel = mem.kernel, zero_page'.kernel = zero_page.kernel
  PROVE  KernelInv(fat, disk, file', phase', mem', zero_page')
BY DEF BootInv, KernelInv, EarlyPhases

LEMMA OpenInitrdOK ==
  ASSUME BootInv, OpenInitrd
  PROVE  BootInv'
<1>1. /\ phase = "initrd" /\ mem.initrd = Absent /\ fat' = fat /\ disk' = disk
      /\ zero_page' = zero_page /\ Open("initrd", "initrd")
  BY DEF OpenInitrd
<1>2. ~ zero_page.initrd_size > 0
  BY <1>1 DEF BootInv, InitrdInv
<1>3. ZeroPage(zero_page') /\ zero_page'.initrd_size \in Nat /\ MemShape(mem)
  BY <1>1, Shapes DEF BootInv
<1>4. CASE GivesUp
  <2>1. phase' \in {"Err", "panic"} /\ mem' = mem /\ phase' \notin EarlyPhases
    BY <1>4 DEF GivesUp, EarlyPhases
  <2>2. KernelInv(fat, disk, file', phase', mem', zero_page')
    BY <1>1, <2>1, KernelKept
  <2>3. InitrdInv(fat, disk, file', phase', mem', zero_page')
    BY <1>1, <1>2, <2>1 DEF InitrdInv
  <2>. QED BY <1>1, <1>3, <2>1, <2>2, <2>3, BootStep
<1>5. CASE Opens("initrd", "initrd")
  <2>1. /\ phase' = "initrd" /\ mem' = [mem EXCEPT !["initrd"] = << >>]
        /\ disk.initrd \in BootFile /\ file' = Opened(disk.initrd)
    BY <1>1, <1>5 DEF Opens
  <2>2. "initrd" \in Buffers /\ "kernel" \in Buffers \ {"initrd"}
    BY DEF Buffers
  <2>3. MemShape(mem') /\ mem'.initrd = << >> /\ mem'.kernel = mem.kernel
    BY <2>1, <2>2, BuffersSet
  <2>4. disk.initrd.start \in Readable(fat) /\ FatGood(fat)
    BY <2>1 DEF BootInv, BootReadable
  <2>5. IsOpen(fat, file', disk.initrd) /\ file'.position = 0
    BY <2>1, <2>4, OpenedFile
  <2>6. phase' \notin EarlyPhases
    BY <2>1 DEF EarlyPhases
  <2>7. KernelInv(fat, disk, file', phase', mem', zero_page')
    BY <1>1, <2>3, <2>6, KernelKept
  <2>8. /\ CopiedFrom(fat, disk.initrd.start, 0, mem'.initrd) /\ Len(mem'.initrd) <= disk.initrd.size
        /\ file'.position = Len(mem'.initrd)
    <3>1. disk.initrd.size \in Nat
      BY <2>1, Sizes DEF BootFile
    <3>2. CopiedFrom(fat, disk.initrd.start, 0, << >>) /\ Len(<< >>) = 0
      BY DEF CopiedFrom
    <3>. QED BY <2>3, <2>5, <3>1, <3>2
  <2>9. InitrdInv(fat, disk, file', phase', mem', zero_page')
    BY <1>1, <1>2, <2>1, <2>5, <2>8 DEF InitrdInv
  <2>. QED BY <1>1, <1>3, <2>3, <2>7, <2>9, BootStep
<1>6. GivesUp \/ Opens("initrd", "initrd")
  <2>1. disk \in Disks /\ "initrd" \in {"conf", "entry", "kernel", "initrd"}
    BY DEF BootInv
  <2>. QED BY <1>1, <2>1, OpenCases
<1>. QED BY <1>4, <1>5, <1>6

LEMMA AppendCommandlineOK ==
  ASSUME BootInv, AppendCommandline
  PROVE  BootInv'
<1>1. /\ phase = "cmdline" /\ fat' = fat /\ disk' = disk /\ mem' = mem /\ file' = file
      /\ phase' \in {"Ok", "panic"}
  BY DEF AppendCommandline
<1>2. \/ zero_page' = zero_page
      \/ zero_page' = [zero_page EXCEPT !.cmdline_size = zero_page.cmdline_size + 1 + disk.cmdline]
  BY DEF AppendCommandline
<1>3. MemShape(mem') /\ ZeroPage(zero_page)
  BY <1>1, Shapes
<1>4. /\ ZeroPage(zero_page') /\ zero_page'.kernel = zero_page.kernel
      /\ zero_page'.initrd_size = zero_page.initrd_size
      /\ zero_page'.initrd_address = zero_page.initrd_address
  BY <1>2, <1>3 DEF ZeroPage
<1>5. phase' \notin EarlyPhases
  BY <1>1 DEF EarlyPhases
<1>6. KernelInv(fat, disk, file', phase', mem', zero_page')
  BY <1>1, <1>4, <1>5, KernelKept
<1>7. InitrdInv(fat, disk, file', phase', mem', zero_page')
  BY <1>1, <1>4 DEF BootInv, InitrdInv
<1>8. zero_page'.initrd_size \in Nat
  BY <1>4 DEF BootInv
<1>. QED BY <1>1, <1>3, <1>4, <1>6, <1>7, <1>8, BootStep

LEMMA NothingAppended == ASSUME NEW b \in Seq(Cells) PROVE b \o << >> = b
OBVIOUS

\* The part of the initrd that a turn of the loop copies.
InitrdCopied(v, d, f, r, bytes, more) ==
  /\ CopiedFrom(v, d.start, 0, bytes \o more)
  /\ Len(bytes \o more) <= d.size
  /\ r.result = "Ok" => \/ r.file.position = Len(bytes \o more) /\ SectorSize <= d.size - Len(bytes)
                        \/ Len(bytes \o more) = d.size /\ d.size - Len(bytes) < SectorSize
  /\ r.result # "Ok" => bytes \o more = bytes

LEMMA InitrdSector ==
  ASSUME NEW v, NEW d, NEW f, NEW bytes, NEW r, IsOpen(v, f, d), CopiedFrom(v, d.start, 0, bytes),
         Len(bytes) <= d.size, f.position = Len(bytes), ReadOK(v, f, r)
  PROVE  InitrdCopied(v, d, f, r, bytes, SubSeq(r.data, 1, Min({Len(r.data), f.size - Len(bytes)})))
<1>. DEFINE left == f.size - Len(bytes)
            m == Min({Len(r.data), left})
<1>1. f \in FileRecords(v) /\ f.start_cluster = d.start /\ f.size = d.size
  BY DEF IsOpen
<1>2. f.position \in Nat /\ f.size \in Nat /\ SectorSize \in Nat /\ bytes \in Seq(Cells) /\ Len(bytes) \in Nat
  BY <1>1, Sizes DEF FileRecords, CopiedFrom
<1>3. left \in Nat /\ left = d.size - Len(bytes)
  BY <1>1, <1>2
<1>4. CASE r.result = "Ok"
  <2>1. /\ f.position < f.size /\ Delivers(v, f, r.data)
        /\ r.count \in 1 .. SectorSize /\ r.file.position = f.position + r.count
        /\ r.count = SectorSize \/ r.file.position = f.size
    BY <1>4 DEF ReadOK
  <2>2. Len(r.data) = SectorSize
    BY <2>1, Sizes DEF Delivers
  <2>. HIDE DEF left
  <2>3. m \in Nat /\ m <= SectorSize /\ m <= left /\ (m = SectorSize \/ m = left)
    BY <1>2, <1>3, <2>2, MinOfTwo
  <2>. HIDE DEF m
  <2>4. m \in 0 .. SectorSize /\ f.position = 0 + Len(bytes) /\ CopiedFrom(v, f.start_cluster, 0, bytes)
    BY <1>1, <1>2, <2>3
  <2>5. /\ CopiedFrom(v, f.start_cluster, 0, bytes \o SubSeq(r.data, 1, m))
        /\ Len(bytes \o SubSeq(r.data, 1, m)) = Len(bytes) + m
    BY <1>1, <2>1, <2>4, CopyOn
  <2>. DEFINE n == Len(bytes \o SubSeq(r.data, 1, m))
  <2>6. n = Len(bytes) + m
    BY <2>5
  <2>. HIDE DEF n
  <2>7. n <= d.size
    BY <1>1, <1>2, <1>3, <2>3, <2>6
  <2>8. \/ r.file.position = n /\ SectorSize <= d.size - Len(bytes)
        \/ n = d.size /\ d.size - Len(bytes) < SectorSize
    BY <1>1, <1>2, <1>3, <2>1, <2>3, <2>6
  <2>9. CopiedFrom(v, d.start, 0, bytes \o SubSeq(r.data, 1, m))
    BY <1>1, <2>5
  <2>. QED BY <1>4, <2>7, <2>8, <2>9 DEF InitrdCopied, n, m, left
<1>5. CASE r.result # "Ok"
  <2>1. r.data = << >>
    BY <1>5 DEF ReadOK
  <2>2. Len(r.data) = 0
    BY <2>1
  <2>. HIDE DEF left
  <2>3. m = 0
    BY <1>3, <2>2, MinOfTwo
  <2>. HIDE DEF m
  <2>4. SubSeq(r.data, 1, m) = << >>
    BY <2>1, <2>3
  <2>5. bytes \o << >> = bytes
    BY <1>2, NothingAppended
  <2>6. bytes \o SubSeq(r.data, 1, m) = bytes
    BY <2>4, <2>5, Zenon
  <2>. QED BY <1>5, <2>6 DEF InitrdCopied, m, left
<1>. QED BY <1>4, <1>5


\* The zero page names the initrd, all of which is there if the chain is.
LEMMA InitrdAnnounced ==
  ASSUME BootInv, phase = "initrd", fat' = fat, disk' = disk, IsOpen(fat, file, disk.initrd),
         IsOpen(fat, file', disk.initrd), InitrdDone, MemShape(mem'), mem'.kernel = mem.kernel,
         CopiedFrom(fat, disk.initrd.start, 0, mem'.initrd), Len(mem'.initrd) <= disk.initrd.size,
         Whole(fat, disk.initrd) => Len(mem'.initrd) = disk.initrd.size
  PROVE  BootInv'
<1>1. /\ phase' = "cmdline"
      /\ zero_page' = [zero_page EXCEPT !.initrd_address = TopOfUsableRam - file.size,
                                        !.initrd_size = file.size]
  BY DEF InitrdDone
<1>2. file \in FileRecords(fat) /\ file.size = disk.initrd.size
  BY DEF IsOpen
<1>3. file.size \in Nat
  BY <1>2, Sizes DEF FileRecords
<1>4. ZeroPage(zero_page)
  BY Shapes
<1>5. /\ ZeroPage(zero_page') /\ zero_page'.kernel = zero_page.kernel
      /\ zero_page'.initrd_size = file.size
      /\ zero_page'.initrd_address = TopOfUsableRam - file.size
  BY <1>1, <1>4 DEF ZeroPage
<1>6. phase' \notin EarlyPhases
  BY <1>1 DEF EarlyPhases
<1>7. KernelInv(fat, disk, file', phase', mem', zero_page')
  BY <1>5, <1>6, KernelKept
<1>8. Whole(fat, disk.initrd) => Holds(fat, mem'.initrd, disk.initrd, 0)
  <2>1. Len(mem'.initrd) \in Nat
    BY DEF CopiedFrom
  <2>2. Len(mem'.initrd) = disk.initrd.size => Len(mem'.initrd) >= disk.initrd.size - 0
    BY <1>2, <1>3, <2>1
  <2>. QED BY <1>2, <1>3, <2>2, HoldsAll
<1>9. InitrdInv(fat, disk, file', phase', mem', zero_page')
  BY <1>1, <1>2, <1>5, <1>8 DEF InitrdInv
<1>. QED BY <1>3, <1>5, <1>7, <1>9, BootStep

LEMMA InitrdStepOK ==
  ASSUME BootInv, NEW fatOk, NEW devOk, InitrdStep(fatOk, devOk)
  PROVE  BootInv'
<1>. DEFINE r == Read(file, fatOk, devOk)
            remaining == file.size - Len(mem.initrd)
            more == SubSeq(r.data, 1, Min({Len(r.data), file.size - Len(mem.initrd)}))
<1>1. phase = "initrd" /\ mem.initrd # Absent /\ fat' = fat /\ disk' = disk
  BY DEF InitrdStep
<1>2. /\ IsOpen(fat, file, disk.initrd) /\ FatGood(fat)
      /\ CopiedFrom(fat, disk.initrd.start, 0, mem.initrd) /\ Len(mem.initrd) <= disk.initrd.size
      /\ file.position = Len(mem.initrd) /\ ~ zero_page.initrd_size > 0
  BY <1>1 DEF BootInv, InitrdInv
<1>3. file \in FileRecords(fat) /\ file.size = disk.initrd.size
  BY <1>2 DEF IsOpen
<1>4. file.size \in Nat /\ Len(mem.initrd) \in Nat
  BY <1>2, <1>3, Sizes DEF FileRecords, CopiedFrom
<1>5. MemShape(mem) /\ ZeroPage(zero_page)
  BY Shapes
<1>6. CASE remaining = 0
  <2>1. InitrdDone /\ file' = file /\ mem' = mem
    BY <1>6 DEF InitrdStep
  <2>2. Len(mem.initrd) = disk.initrd.size
    BY <1>3, <1>4, <1>6
  <2>. QED BY <1>1, <1>2, <1>5, <2>1, <2>2, InitrdAnnounced
<1>7. CASE remaining # 0
  <2>1. /\ file' = r.file /\ mem' = [mem EXCEPT !["initrd"] = mem.initrd \o more]
        /\ \/ (r.result = "EndOfFile" \/ (r.result = "Ok" /\ remaining < SectorSize)) /\ InitrdDone
           \/ r.result = "Ok" /\ remaining >= SectorSize /\ phase' = phase /\ zero_page' = zero_page
           \/ r.result = "BlockError" /\ phase' = "Err" /\ zero_page' = zero_page
    <3>1. r.result \in {"Ok", "BlockError", "EndOfFile"}
      BY ReadResults
    <3>2. remaining < SectorSize \/ remaining >= SectorSize
      BY <1>4, Sizes
    <3>3. /\ file' = r.file /\ mem' = [mem EXCEPT !["initrd"] = mem.initrd \o more]
          /\ CASE r.result = "EndOfFile" \/ (r.result = "Ok" /\ remaining < SectorSize) -> InitrdDone
               [] r.result = "Ok" /\ remaining >= SectorSize -> UNCHANGED <<phase, zero_page>>
               [] r.result = "BlockError" -> phase' = "Err" /\ UNCHANGED zero_page
      BY <1>7 DEF InitrdStep
    <3>. HIDE DEF r, remaining, more
    <3>. QED BY <3>1, <3>2, <3>3
  <2>2. ReadOK(fat, file, r) /\ IsOpen(fat, r.file, disk.initrd)
    BY <1>2, ReadOpen
  <2>3. InitrdCopied(fat, disk.initrd, file, r, mem.initrd, more)
    BY <1>2, <2>2, InitrdSector
  <2>4. "initrd" \in Buffers /\ "kernel" \in Buffers \ {"initrd"}
    BY DEF Buffers
  <2>. HIDE DEF r, more
  <2>5. MemShape(mem') /\ mem'.initrd = mem.initrd \o more /\ mem'.kernel = mem.kernel
    BY <2>1, <2>4, BuffersSet
  <2>6. CopiedFrom(fat, disk.initrd.start, 0, mem'.initrd) /\ Len(mem'.initrd) <= disk.initrd.size
    BY <2>3, <2>5 DEF InitrdCopied
  <2>7. CASE InitrdDone /\ (r.result = "EndOfFile" \/ (r.result = "Ok" /\ remaining < SectorSize))
    <3>1. Whole(fat, disk.initrd) => Len(mem'.initrd) = disk.initrd.size
      <4>1. CASE r.result = "EndOfFile"
        <5>1. Ended(fat, file)
          BY <2>2, <4>1 DEF ReadOK
        <5>2. file.position < file.size
          BY <1>2, <1>3, <1>4, <1>7
        <5>. QED BY <1>2, <5>1, <5>2, ChainShort
      <4>2. CASE r.result = "Ok" /\ remaining < SectorSize
        <5>1. ~ SectorSize <= disk.initrd.size - Len(mem.initrd)
          BY <1>3, <1>4, <4>2, Sizes
        <5>. QED BY <2>3, <2>5, <4>2, <5>1 DEF InitrdCopied
      <4>. QED BY <2>7, <4>1, <4>2
    <3>. QED BY <1>1, <1>2, <2>1, <2>2, <2>5, <2>6, <2>7, <3>1, InitrdAnnounced
  <2>8. CASE /\ zero_page' = zero_page
             /\ \/ r.result = "Ok" /\ remaining >= SectorSize /\ phase' = phase
                \/ r.result = "BlockError" /\ phase' = "Err"
    <3>1. phase' = "initrd" \/ phase' = "Err"
      BY <1>1, <2>8
    <3>2. phase' = "initrd" => file'.position = Len(mem'.initrd)
      <4>1. SUFFICES ASSUME phase' = "initrd" PROVE file'.position = Len(mem'.initrd)
        OBVIOUS
      <4>2. r.result = "Ok" /\ remaining >= SectorSize
        BY <2>8, <4>1
      <4>3. ~ disk.initrd.size - Len(mem.initrd) < SectorSize
        BY <1>3, <1>4, <4>2, Sizes
      <4>. QED BY <2>1, <2>3, <2>5, <4>2, <4>3 DEF InitrdCopied
    <3>3. phase' \notin EarlyPhases
      BY <3>1 DEF EarlyPhases
    <3>4. KernelInv(fat, disk, file', phase', mem', zero_page')
      BY <1>1, <2>5, <2>8, <3>3, KernelKept
    <3>5. InitrdInv(fat, disk, file', phase', mem', zero_page')
      BY <1>2, <2>1, <2>2, <2>6, <2>8, <3>1, <3>2 DEF InitrdInv
    <3>6. ZeroPage(zero_page') /\ zero_page'.initrd_size \in Nat
      BY <1>5, <2>8 DEF BootInv
    <3>. QED BY <1>1, <2>5, <3>4, <3>5, <3>6, BootStep
  <2>. QED BY <2>1, <2>7, <2>8
<1>. QED BY <1>6, <1>7


\* The initrd ends with the last byte of a usable range below the limit.
LEMMA TopIsUsable ==
  \E e \in {e \in E820 : e.ram /\ e.addr + e.size <= MaxLoadAddress} : TopOfUsableRam = e.addr + e.size - 1
<1>. DEFINE low == {e \in E820 : e.ram /\ LastByte(e) < MaxLoadAddress}
            tops == {0} \cup {LastByte(e) : e \in low}
<1>1. \A e \in E820 : e.addr \in Nat /\ e.size \in Nat /\ e.size # 0
  BY BootFilesAssumption
<1>2. MaxLoadAddress \in Nat
  BY BootFilesAssumption
<1>3. \A e \in E820 : LastByte(e) \in Nat /\ (LastByte(e) < MaxLoadAddress <=> e.addr + e.size <= MaxLoadAddress)
  BY <1>1, <1>2 DEF LastByte
<1>4. tops \in SUBSET (0 .. MaxLoadAddress) /\ tops # {}
  BY <1>2, <1>3
<1>5. Max(tops) \in tops /\ \A n \in tops : n <= Max(tops)
  BY <1>2, <1>4, MaxIsGreatest
<1>6. PICK x \in E820 : x.ram /\ x.addr + x.size <= MaxLoadAddress
  BY BootFilesAssumption
<1>7. x \in low /\ LastByte(x) \in tops
  BY <1>3, <1>6
<1>8. \E e \in low : Max(tops) = LastByte(e)
  <2>1. CASE Max(tops) = 0
    <3>1. LastByte(x) <= 0 /\ LastByte(x) \in Nat
      BY <1>3, <1>5, <1>7, <2>1
    <3>2. LastByte(x) = 0
      BY <3>1
    <3>. QED BY <1>7, <2>1, <3>2
  <2>2. CASE Max(tops) # 0
    BY <1>5, <2>2
  <2>. QED BY <2>1, <2>2
<1>9. TopOfUsableRam = Max(tops)
  BY DEF TopOfUsableRam
<1>. HIDE DEF tops
<1>10. PICK e \in low : TopOfUsableRam = LastByte(e)
  BY <1>8, <1>9
<1>. QED BY <1>3, <1>10 DEF LastByte

LEMMA InitrdKnown ==
  ASSUME BootInv
  PROVE  InitrdLoaded
<1>. DEFINE usable == {e \in E820 : e.ram /\ e.addr + e.size <= MaxLoadAddress}
<1>1. mem.initrd # Absent => Len(mem.initrd) <= disk.initrd.size
  BY DEF BootInv, InitrdInv
<1>2. zero_page.initrd_size > 0 /\ Whole(fat, disk.initrd) =>
        zero_page.initrd_size = disk.initrd.size /\ Holds(fat, mem.initrd, disk.initrd, 0)
  BY DEF BootInv, InitrdInv
<1>3. ASSUME zero_page.initrd_size > 0, \A e \in usable : zero_page.initrd_size < e.size
      PROVE  \E e \in usable :
               /\ zero_page.initrd_address >= e.addr
               /\ zero_page.initrd_address + zero_page.initrd_size <= e.addr + e.size
  <2>1. PICK e \in usable : TopOfUsableRam = e.addr + e.size - 1
    BY TopIsUsable
  <2>2. e.addr \in Nat /\ e.size \in Nat
    BY BootFilesAssumption
  <2>3. /\ zero_page.initrd_address = TopOfUsableRam - zero_page.initrd_size
        /\ zero_page.initrd_size \in Nat
    BY <1>3 DEF BootInv, InitrdInv
  <2>4. zero_page.initrd_size < e.size
    BY <1>3
  <2>5. /\ zero_page.initrd_address >= e.addr
        /\ zero_page.initrd_address + zero_page.initrd_size <= e.addr + e.size
    BY <2>1, <2>2, <2>3, <2>4
  <2>. QED BY <2>5
<1>. QED BY <1>1, <1>2, <1>3 DEF InitrdLoaded

LEMMA KernelKnown ==
  ASSUME BootInv
  PROVE  KernelLoaded
<1>1. disk \in Disks
  BY DEF BootInv
<1>2. SetupBytes = Setup(disk)
  BY <1>1, SetupSize
<1>3. phase = "Ok" \/ zero_page.initrd_size > 0 => zero_page.kernel /\ KernelDone(fat, disk, mem.kernel)
  BY DEF BootInv, KernelInv
<1>. QED BY <1>2, <1>3 DEF KernelLoaded, KernelDone

LEMMA BootInitOK ==
  ASSUME BootInit, BootReadable
  PROVE  BootInv
<1>1. /\ fat \in Volumes /\ disk \in Disks /\ phase = "conf"
      /\ mem = NothingRead /\ zero_page = BootParams
  BY DEF BootInit
<1>2. FatGood(fat)
  BY <1>1, VolumeGood DEF BootReadable
<1>3. mem = [b \in Buffers |-> mem[b]] /\ mem.kernel = << >> /\ mem.conf = Absent /\ mem.setup = Absent /\ mem.initrd = Absent
  BY <1>1 DEF NothingRead, Buffers
<1>4. ZeroPage(zero_page) /\ zero_page.initrd_size = 0
  BY <1>1 DEF ZeroPage, BootParams
<1>5. KernelInv(fat, disk, file, phase, mem, zero_page)
  BY <1>1, <1>3, <1>4 DEF KernelInv
<1>6. InitrdInv(fat, disk, file, phase, mem, zero_page)
  BY <1>1, <1>3, <1>4 DEF InitrdInv
<1>. QED BY <1>1, <1>2, <1>3, <1>4, <1>5, <1>6 DEF BootInv

\* What load_default_entry keeps.
LEMMA BootSafe == BootReadable /\ BootSpec => [](KernelLoaded /\ InitrdLoaded)
<1>1. BootReadable /\ BootInit => BootInv
  BY BootInitOK
<1>2. BootInv /\ [BootNext]_bvars => BootInv'
  <2>. SUFFICES ASSUME BootInv, [BootNext]_bvars PROVE BootInv'
    OBVIOUS
  <2>1. CASE \E which \in {"conf", "entry"} : OpenConfig(which)
    BY <2>1, OpenConfigOK
  <2>2. CASE \E which \in {"conf", "entry"}, fatOk, devOk \in BOOLEAN : ConfigStep(which, fatOk, devOk)
    BY <2>2, ConfigStepOK
  <2>3. CASE OpenKernel
    BY <2>3, OpenKernelOK
  <2>4. CASE \E fatOk, devOk \in BOOLEAN : SetupStep(fatOk, devOk)
    BY <2>4, SetupStepOK
  <2>5. CASE CheckHeader
    BY <2>5, CheckHeaderOK
  <2>6. CASE \E fatOk \in BOOLEAN : SeekSetup(fatOk)
    BY <2>6, SeekSetupOK
  <2>7. CASE \E fatOk, devOk \in BOOLEAN : KernelStep(fatOk, devOk)
    BY <2>7, KernelStepOK
  <2>8. CASE OpenInitrd
    BY <2>8, OpenInitrdOK
  <2>9. CASE \E fatOk, devOk \in BOOLEAN : InitrdStep(fatOk, devOk)
    BY <2>9, InitrdStepOK
  <2>10. CASE AppendCommandline
    BY <2>10, AppendCommandlineOK
  <2>11. CASE UNCHANGED bvars
    <3>1. fat' = fat /\ disk' = disk /\ mem' = mem /\ zero_page' = zero_page /\ phase' = phase /\ file' = file
      BY <2>11 DEF bvars, vars
    <3>. QED BY <3>1 DEF BootInv, BootReadable
  <2>. QED
    BY <2>1, <2>2, <2>3, <2>4, <2>5, <2>6, <2>7, <2>8, <2>9, <2>10, <2>11 DEF BootNext
<1>3. BootInv => KernelLoaded /\ InitrdLoaded
  BY KernelKnown, InitrdKnown
<1>. QED BY <1>1, <1>2, <1>3, PTL DEF BootSpec

\* load_default_entry, on a volume whose FAT is read right at the clusters of the kernel and
\* of the initrd: success means that the whole kernel behind its setup sectors is in memory,
\* in order.
THEOREM KernelComplete == BootReadable /\ BootSpec => []KernelLoaded
BY BootSafe, PTL

\* Success, or an initrd in the zero page, means that the initrd named is the whole file,
\* within its bounds and within usable memory.
THEOREM InitrdComplete == BootReadable /\ BootSpec => []InitrdLoaded
BY BootSafe, PTL


-----------------------------------------------------------------------------
(* The bytes of the FAT: next_cluster reads back the entries they encode.  *)
(* The bounds of the numbers have names, since numerals as large as these  *)
(* slow the provers down wherever they appear.                             *)

Fits12(e) == e \in Nat /\ e < 4096
Fits16(e) == e \in Nat /\ e < 65536
Fits32(e) == e \in Nat /\ e < 4294967296

\* What next_cluster takes of an entry of FAT32.
Low28(e) == e % 268435456

LEMMA Doubled ==
  ASSUME NEW q \in Nat, NEW h \in Nat
  PROVE  q * (2 * h) = 2 * (q * h) /\ q * (4 * h) = 4 * (q * h)
OBVIOUS

LEMMA TwiceMod ==
  ASSUME NEW h \in Nat, h # 0, NEW c \in Nat
  PROVE  (c * 2) % (2 * h) = 2 * (c % h)
<1>. DEFINE q == c \div h
            r == c % h
<1>1. q \in Nat /\ r \in 0 .. h - 1 /\ c = q * h + r
  OBVIOUS
<1>. HIDE DEF q, r
<1>2. q * (2 * h) = 2 * (q * h) /\ q * h \in Nat
  BY <1>1, Doubled, Product
<1>3. c * 2 = q * (2 * h) + 2 * r
  BY <1>1, <1>2
<1>4. 2 * h \in Nat /\ 2 * h # 0 /\ 2 * r \in 0 .. 2 * h - 1
  BY <1>1
<1>5. (q * (2 * h) + 2 * r) % (2 * h) = 2 * r
  BY <1>1, <1>4, Divided
<1>. QED BY <1>3, <1>5 DEF r

LEMMA FourTimesMod ==
  ASSUME NEW h \in Nat, h # 0, NEW c \in Nat, NEW i \in 0 .. 3
  PROVE  (c * 4 + i) % (4 * h) = 4 * (c % h) + i
<1>. DEFINE q == c \div h
            r == c % h
<1>1. q \in Nat /\ r \in 0 .. h - 1 /\ c = q * h + r
  OBVIOUS
<1>. HIDE DEF q, r
<1>2. q * (4 * h) = 4 * (q * h) /\ q * h \in Nat
  BY <1>1, Doubled, Product
<1>3. c * 4 + i = q * (4 * h) + (4 * r + i)
  BY <1>1, <1>2
<1>4. 4 * h \in Nat /\ 4 * h # 0 /\ 4 * r + i \in 0 .. 4 * h - 1
  BY <1>1
<1>5. (q * (4 * h) + (4 * r + i)) % (4 * h) = 4 * r + i
  BY <1>1, <1>4, Divided
<1>. QED BY <1>3, <1>5 DEF r

\* Two and four bytes give their number back, and so do the three that two numbers share.
LEMMA TwoBytes ==
  ASSUME NEW e, Fits16(e)
  PROVE  ByteOf(e, 0) + 256 * ByteOf(e, 1) = e
BY SMTT(30) DEF Fits16, ByteOf

LEMMA FourDigits ==
  ASSUME NEW e \in Nat, e < 4294967296
  PROVE  (((e \div 1) % 256) + 256 * ((e \div 256) % 256))
           + 65536 * (((e \div 65536) % 256) + 256 * ((e \div 16777216) % 256)) = e
BY SMTT(30)

LEMMA FourBytes ==
  ASSUME NEW e, Fits32(e)
  PROVE  ((ByteOf(e, 0) + 256 * ByteOf(e, 1)) + 65536 * (ByteOf(e, 2) + 256 * ByteOf(e, 3))) % 268435456 = Low28(e)
<1>1. /\ ByteOf(e, 0) = (e \div 1) % 256 /\ ByteOf(e, 1) = (e \div 256) % 256
      /\ ByteOf(e, 2) = (e \div 65536) % 256 /\ ByteOf(e, 3) = (e \div 16777216) % 256
  BY SMTT(30) DEF ByteOf
<1>2. (((e \div 1) % 256) + 256 * ((e \div 256) % 256))
        + 65536 * (((e \div 65536) % 256) + 256 * ((e \div 16777216) % 256)) = e
  BY FourDigits, SMTT(30) DEF Fits32
<1>3. (ByteOf(e, 0) + 256 * ByteOf(e, 1)) + 65536 * (ByteOf(e, 2) + 256 * ByteOf(e, 3)) = e
  BY <1>1, <1>2, SMTT(30)
<1>. QED BY <1>3, SMTT(30) DEF Low28

LEMMA ThreeBytes ==
  ASSUME NEW e, Fits12(e), NEW f, Fits12(f)
  PROVE  /\ ((e % 256) + 256 * (e \div 256 + 16 * (f % 16))) % 4096 = e
         /\ (e \div 256 + 16 * (f % 16) + 256 * (f \div 16)) \div 16 = f
BY SMTT(30) DEF Fits12

\* Where a byte of an entry lies, behind the start of the FAT.
LEMMA Places ==
  ASSUME NEW c \in Nat
  PROVE  /\ \A i \in 0 .. 1 : (c * 2 + i) \div 2 = c /\ (c * 2 + i) % 2 = i
         /\ \A i \in 0 .. 3 : (c * 4 + i) \div 4 = c /\ (c * 4 + i) % 4 = i
         /\ \A i \in 0 .. 2 : (c * 3 + i) \div 3 = c /\ (c * 3 + i) % 3 = i
BY SMTT(30)

\* The bytes of the c-th entry.
Entry16(bytes, at, c, e) == \A i \in 0 .. 1 : bytes[at + (c * 2 + i)] = ByteOf(e, i)
Entry32(bytes, at, c, e) == \A i \in 0 .. 3 : bytes[at + (c * 4 + i)] = ByteOf(e, i)
Entry12(bytes, at, k, e, f) ==
  /\ bytes[at + (k * 3 + 0)] = e % 256
  /\ bytes[at + (k * 3 + 1)] = e \div 256 + 16 * (f % 16)
  /\ bytes[at + (k * 3 + 2)] = f \div 16

LEMMA Encoded16 ==
  ASSUME NEW entry, NEW n \in Nat, NEW at \in Nat, NEW c \in Nat, c < n
  PROVE  Entry16(Encoded("FAT16", entry, n, at), at, c, entry[c])
<1>. SUFFICES ASSUME NEW i \in 0 .. 1
              PROVE  Encoded("FAT16", entry, n, at)[at + (c * 2 + i)] = ByteOf(entry[c], i)
  BY DEF Entry16
<1>1. at + (c * 2 + i) \in at .. at + n * 2 - 1 /\ (at + (c * 2 + i)) - at = c * 2 + i
  BY SMTT(30)
<1>2. (c * 2 + i) \div 2 = c /\ (c * 2 + i) % 2 = i
  BY Places, SMTT(30)
<1>. QED BY <1>1, <1>2, SMTT(30) DEF Encoded

LEMMA Encoded32 ==
  ASSUME NEW entry, NEW n \in Nat, NEW at \in Nat, NEW c \in Nat, c < n
  PROVE  Entry32(Encoded("FAT32", entry, n, at), at, c, entry[c])
<1>. SUFFICES ASSUME NEW i \in 0 .. 3
              PROVE  Encoded("FAT32", entry, n, at)[at + (c * 4 + i)] = ByteOf(entry[c], i)
  BY DEF Entry32
<1>1. at + (c * 4 + i) \in at .. at + n * 4 - 1 /\ (at + (c * 4 + i)) - at = c * 4 + i
  BY SMTT(30)
<1>2. (c * 4 + i) \div 4 = c /\ (c * 4 + i) % 4 = i
  BY Places, SMTT(30)
<1>. QED BY <1>1, <1>2, SMTT(30) DEF Encoded

LEMMA Encoded12 ==
  ASSUME NEW entry, NEW n \in Nat, NEW at \in Nat, NEW k \in Nat, k < n \div 2
  PROVE  Entry12(Encoded("FAT12", entry, n, at), at, k, entry[2 * k], entry[2 * k + 1])
<1>1. \A i \in 0 .. 2 : at + (k * 3 + i) \in at .. at + 3 * (n \div 2) - 1 /\ (at + (k * 3 + i)) - at = k * 3 + i
  BY SMTT(30)
<1>2. /\ (k * 3 + 0) \div 3 = k /\ (k * 3 + 0) % 3 = 0 /\ (k * 3 + 1) \div 3 = k /\ (k * 3 + 1) % 3 = 1
      /\ (k * 3 + 2) \div 3 = k /\ (k * 3 + 2) % 3 = 2
  BY Places, SMTT(30)
<1>3. \A i \in 0 .. 2 : Encoded("FAT12", entry, n, at)[at + (k * 3 + i)] = Byte12(entry, k * 3 + i)
  <2>1. \A o \in at .. at + 3 * (n \div 2) - 1 : Encoded("FAT12", entry, n, at)[o] = Byte12(entry, o - at)
    BY Zenon DEF Encoded
  <2>. QED BY <1>1, <2>1, Zenon
<1>4. /\ Byte12(entry, k * 3 + 0) = entry[2 * k] % 256
      /\ Byte12(entry, k * 3 + 1) = entry[2 * k] \div 256 + 16 * (entry[2 * k + 1] % 16)
      /\ Byte12(entry, k * 3 + 2) = entry[2 * k + 1] \div 16
  BY <1>2, SMTT(30) DEF Byte12
<1>. QED BY <1>3, <1>4 DEF Entry12

\* A FAT of n entries on the disk, from where a mounted file system expects it; its sectors
\* hold whole entries of FAT32.
Laid(fs, bytes, entry, n) ==
  /\ n \in Nat /\ n % 2 = 0
  /\ fs.bytes_per_sector \in Nat /\ fs.bytes_per_sector # 0 /\ fs.bytes_per_sector % 4 = 0
  /\ fs.first_fat_sector \in Nat
  /\ bytes = Encoded(fs.fat_type, entry, n, fs.first_fat_sector * fs.bytes_per_sector)

LEMMA SectorOfFour ==
  ASSUME NEW b \in Nat, b # 0, b % 4 = 0
  PROVE  \E h \in Nat : h # 0 /\ b = 4 * h
<1>1. b = 4 * (b \div 4) /\ b \div 4 \in Nat /\ b \div 4 # 0
  OBVIOUS
<1>. QED BY <1>1

LEMMA ReadsBack16 ==
  ASSUME NEW fs, NEW bytes, NEW entry, NEW n, Laid(fs, bytes, entry, n), fs.fat_type = "FAT16",
         NEW c \in 0 .. n - 1, Fits16(entry[c])
  PROVE  FatEntry(fs, bytes, c) = entry[c]
<1>. DEFINE b == fs.bytes_per_sector
            at == fs.first_fat_sector * fs.bytes_per_sector
<1>1. /\ b \in Nat /\ b # 0 /\ b % 4 = 0 /\ fs.first_fat_sector \in Nat /\ n \in Nat
      /\ bytes = Encoded("FAT16", entry, n, at)
  BY DEF Laid
<1>2. at \in Nat
  BY <1>1, Product
<1>3. c \in Nat /\ c < n
  BY <1>1
<1>4. PICK h \in Nat : h # 0 /\ b = 4 * h
  BY <1>1, SectorOfFour
<1>. DEFINE g == 2 * h
<1>5. g \in Nat /\ g # 0 /\ b = 2 * g
  BY <1>4
<1>. HIDE DEF g
<1>6. (c * 2) % (2 * g) = 2 * (c % g)
  BY <1>3, <1>5, TwiceMod
<1>7. c % g \in 0 .. g - 1
  BY <1>3, <1>5
<1>8. ((c * 2) % b) + 0 < b /\ ((c * 2) % b) + 1 < b
  BY <1>5, <1>6, <1>7
<1>. HIDE DEF at
<1>9. bytes[at + (c * 2 + 0)] = ByteOf(entry[c], 0) /\ bytes[at + (c * 2 + 1)] = ByteOf(entry[c], 1)
  <2>1. n \in Nat /\ at \in Nat /\ c \in Nat /\ c < n
    BY <1>1, <1>2, <1>3
  <2>2. Entry16(Encoded("FAT16", entry, n, at), at, c, entry[c])
    BY <2>1, Encoded16
  <2>. QED BY <1>1, <2>2 DEF Entry16
<1>10. at + c * 2 + 0 = at + (c * 2 + 0) /\ at + c * 2 + 1 = at + (c * 2 + 1)
  BY <1>2, <1>3
<1>11. ByteFrom(fs, bytes, c * 2, 0) = ByteOf(entry[c], 0) /\ ByteFrom(fs, bytes, c * 2, 1) = ByteOf(entry[c], 1)
  BY <1>8, <1>9, <1>10 DEF ByteFrom, at
<1>12. U16(fs, bytes, c * 2) = entry[c]
  BY <1>11, TwoBytes DEF U16
<1>. QED BY <1>12, SMTT(30) DEF FatEntry

LEMMA ReadsBack32 ==
  ASSUME NEW fs, NEW bytes, NEW entry, NEW n, Laid(fs, bytes, entry, n), fs.fat_type = "FAT32",
         NEW c \in 0 .. n - 1, Fits32(entry[c])
  PROVE  FatEntry(fs, bytes, c) = Low28(entry[c])
<1>. DEFINE b == fs.bytes_per_sector
            at == fs.first_fat_sector * fs.bytes_per_sector
<1>1. /\ b \in Nat /\ b # 0 /\ b % 4 = 0 /\ fs.first_fat_sector \in Nat /\ n \in Nat
      /\ bytes = Encoded("FAT32", entry, n, at)
  BY DEF Laid
<1>2. at \in Nat
  BY <1>1, Product
<1>3. c \in Nat /\ c < n
  BY <1>1
<1>4. PICK h \in Nat : h # 0 /\ b = 4 * h
  BY <1>1, SectorOfFour
<1>5. (c * 4 + 0) % (4 * h) = 4 * (c % h) + 0 /\ (c * 4 + 2) % (4 * h) = 4 * (c % h) + 2
  <2>1. h \in Nat /\ h # 0 /\ c \in Nat /\ 0 \in 0 .. 3 /\ 2 \in 0 .. 3
    BY <1>3, <1>4
  <2>. QED BY <2>1, FourTimesMod, Zenon
<1>6. c % h \in 0 .. h - 1 /\ c * 4 + 0 = c * 4
  BY <1>3, <1>4
<1>7. /\ ((c * 4) % b) + 0 < b /\ ((c * 4) % b) + 1 < b
      /\ ((c * 4 + 2) % b) + 0 < b /\ ((c * 4 + 2) % b) + 1 < b
  BY <1>4, <1>5, <1>6
<1>. HIDE DEF at
<1>8. \A i \in 0 .. 3 : bytes[at + (c * 4 + i)] = ByteOf(entry[c], i)
  <2>1. n \in Nat /\ at \in Nat /\ c \in Nat /\ c < n
    BY <1>1, <1>2, <1>3
  <2>2. Entry32(Encoded("FAT32", entry, n, at), at, c, entry[c])
    BY <2>1, Encoded32
  <2>. QED BY <1>1, <2>2, Zenon DEF Entry32
<1>9. /\ at + c * 4 + 0 = at + (c * 4 + 0) /\ at + c * 4 + 1 = at + (c * 4 + 1)
      /\ at + (c * 4 + 2) + 0 = at + (c * 4 + 2) /\ at + (c * 4 + 2) + 1 = at + (c * 4 + 3)
  BY <1>2, <1>3
<1>10. ByteFrom(fs, bytes, c * 4, 0) = ByteOf(entry[c], 0) /\ ByteFrom(fs, bytes, c * 4, 1) = ByteOf(entry[c], 1)
  BY <1>7, <1>8, <1>9 DEF ByteFrom, at
<1>11. ByteFrom(fs, bytes, c * 4 + 2, 0) = ByteOf(entry[c], 2) /\ ByteFrom(fs, bytes, c * 4 + 2, 1) = ByteOf(entry[c], 3)
  BY <1>7, <1>8, <1>9 DEF ByteFrom, at
<1>12. /\ U16(fs, bytes, c * 4) = ByteOf(entry[c], 0) + 256 * ByteOf(entry[c], 1)
       /\ U16(fs, bytes, c * 4 + 2) = ByteOf(entry[c], 2) + 256 * ByteOf(entry[c], 3)
  BY <1>10, <1>11 DEF U16
<1>13. FatEntry(fs, bytes, c) = (U16(fs, bytes, c * 4) + 65536 * U16(fs, bytes, c * 4 + 2)) % 268435456
  BY SMTT(30) DEF FatEntry
<1>. QED BY <1>12, <1>13, FourBytes, SMTT(30)

\* The entry of a FAT12 volume that begins in the last byte of a sector.
Straddles(fs, c) == (c + (c \div 2)) % fs.bytes_per_sector = fs.bytes_per_sector - 1

LEMMA ReadsBack12 ==
  ASSUME NEW fs, NEW bytes, NEW entry, NEW n, Laid(fs, bytes, entry, n), fs.fat_type = "FAT12",
         \A e \in 0 .. n - 1 : Fits12(entry[e]), NEW c \in 0 .. n - 1, ~ Straddles(fs, c)
  PROVE  FatEntry(fs, bytes, c) = entry[c]
<1>. DEFINE b == fs.bytes_per_sector
            at == fs.first_fat_sector * fs.bytes_per_sector
            k == c \div 2
            o == c + (c \div 2)
<1>1. /\ b \in Nat /\ b # 0 /\ fs.first_fat_sector \in Nat /\ n \in Nat /\ n % 2 = 0
      /\ bytes = Encoded("FAT12", entry, n, at)
  BY DEF Laid
<1>2. at \in Nat
  BY <1>1, Product
<1>3. k \in Nat /\ k < n \div 2 /\ 2 * k \in 0 .. n - 1 /\ 2 * k + 1 \in 0 .. n - 1 /\ o \in Nat
  BY <1>1
<1>4. (o % b) + 0 < b /\ (o % b) + 1 < b
  BY <1>1, <1>3 DEF Straddles
<1>5. \/ c % 2 = 0 /\ c = 2 * k /\ o = k * 3
      \/ c % 2 = 1 /\ c = 2 * k + 1 /\ o = k * 3 + 1
  BY <1>1
<1>6. Fits12(entry[2 * k]) /\ Fits12(entry[2 * k + 1])
  BY <1>3
<1>. HIDE DEF at, k, o
<1>7. /\ bytes[at + (k * 3 + 0)] = entry[2 * k] % 256
      /\ bytes[at + (k * 3 + 1)] = entry[2 * k] \div 256 + 16 * (entry[2 * k + 1] % 16)
      /\ bytes[at + (k * 3 + 2)] = entry[2 * k + 1] \div 16
  <2>1. n \in Nat /\ at \in Nat /\ k \in Nat /\ k < n \div 2
    BY <1>1, <1>2, <1>3
  <2>2. Entry12(Encoded("FAT12", entry, n, at), at, k, entry[2 * k], entry[2 * k + 1])
    BY <2>1, Encoded12
  <2>. QED BY <1>1, <2>2, Zenon DEF Entry12
<1>8. U16(fs, bytes, o) = bytes[at + o + 0] + 256 * bytes[at + o + 1]
  BY <1>4 DEF U16, ByteFrom, at
<1>9. FatEntry(fs, bytes, c) = IF c % 2 = 0 THEN U16(fs, bytes, o) % 4096 ELSE U16(fs, bytes, o) \div 16
  BY SMTT(30) DEF FatEntry, o
<1>10. CASE c % 2 = 0 /\ c = 2 * k /\ o = k * 3
  <2>1. at + o + 0 = at + (k * 3 + 0) /\ at + o + 1 = at + (k * 3 + 1)
    BY <1>2, <1>3, <1>10
  <2>2. U16(fs, bytes, o) = (entry[2 * k] % 256) + 256 * (entry[2 * k] \div 256 + 16 * (entry[2 * k + 1] % 16))
    BY <1>7, <1>8, <2>1
  <2>. QED BY <1>6, <1>9, <1>10, <2>2, ThreeBytes, SMTT(30)
<1>11. CASE c % 2 = 1 /\ c = 2 * k + 1 /\ o = k * 3 + 1
  <2>1. at + o + 0 = at + (k * 3 + 1) /\ at + o + 1 = at + (k * 3 + 2)
    BY <1>2, <1>3, <1>11
  <2>2. U16(fs, bytes, o) = entry[2 * k] \div 256 + 16 * (entry[2 * k + 1] % 16) + 256 * (entry[2 * k + 1] \div 16)
    BY <1>7, <1>8, <2>1
  <2>3. FatEntry(fs, bytes, c) = U16(fs, bytes, o) \div 16
    BY <1>9, <1>11, SMTT(30)
  <2>. QED BY <1>6, <1>11, <2>2, <2>3, ThreeBytes, SMTT(30)
<1>. QED BY <1>5, <1>10, <1>11


\* What an entry of the FAT stands for, and the numbers that fit into it.
Says(fs, e) ==
  LET next == IF fs.fat_type = "FAT32" THEN Low28(e) ELSE e
  IN  IF next >= EndMark(fs) THEN EndOfChain ELSE next

Fits(fs, e) ==
  /\ fs.fat_type = "FAT12" => Fits12(e)
  /\ fs.fat_type = "FAT16" => Fits16(e)
  /\ fs.fat_type = "FAT32" => Fits32(e)

LEMMA Types == ASSUME NEW h PROVE fat_type(h) \in {"FAT12", "FAT16", "FAT32"}
<1>. QED BY SMTT(30) DEF fat_type

\* Filesystem::next_cluster and the layout of the FAT, for entries of 12, 16 and 28 bits: on
\* a volume whose bytes hold the entries of the chain, every cluster is one at which the FAT
\* is read right, unless it is a FAT12 volume with an entry that straddles two sectors.
THEOREM ChainsReadBack ==
  ASSUME fat \in Volumes, fat.fs.first_data_sector = fat.data_start,
         NEW n, NEW entry, Laid(fat.fs, fat.bytes, entry, n),
         Clusters \subseteq 0 .. n - 1,
         \A c \in 0 .. n - 1 : Fits(fat.fs, entry[c]),
         \A c \in Clusters : fat.chain[c] = Says(fat.fs, entry[c]),
         fat.fs.fat_type = "FAT12" => \A c \in Clusters : ~ Straddles(fat.fs, c)
  PROVE  Readable(fat) = Clusters
<1>1. PICK v \in Fats : fat = [fs |-> Mounted(v.header), bytes |-> v.bytes, chain |-> v.chain, data_start |-> v.data_start]
  BY Zenon DEF Volumes
<1>2. fat.fs.fat_type \in {"FAT12", "FAT16", "FAT32"}
  <2>1. fat.fs = Mounted(v.header)
    BY <1>1
  <2>2. fat.fs.fat_type = fat_type(v.header)
    BY <2>1 DEF Mounted
  <2>. QED BY <2>2, Types
<1>3. ASSUME NEW c \in Clusters
      PROVE  next_cluster(fat.fs, fat.bytes, c) = fat.chain[c]
  <2>. DEFINE next == IF fat.fs.fat_type = "FAT32" THEN Low28(entry[c]) ELSE entry[c]
  <2>1. c \in 0 .. n - 1 /\ Fits(fat.fs, entry[c])
    BY Zenon
  <2>2. FatEntry(fat.fs, fat.bytes, c) = next
    <3>1. CASE fat.fs.fat_type = "FAT12"
      <4>1. (\A e \in 0 .. n - 1 : Fits12(entry[e])) /\ ~ Straddles(fat.fs, c)
        BY <3>1, Zenon DEF Fits
      <4>2. FatEntry(fat.fs, fat.bytes, c) = entry[c]
        BY <2>1, <3>1, <4>1, ReadsBack12
      <4>. QED BY <3>1, <4>2
    <3>2. CASE fat.fs.fat_type = "FAT16"
      <4>1. Fits16(entry[c])
        BY <2>1, <3>2, Zenon DEF Fits
      <4>2. FatEntry(fat.fs, fat.bytes, c) = entry[c]
        BY <2>1, <3>2, <4>1, ReadsBack16
      <4>. QED BY <3>2, <4>2
    <3>3. CASE fat.fs.fat_type = "FAT32"
      <4>1. Fits32(entry[c])
        BY <2>1, <3>3, Zenon DEF Fits
      <4>2. FatEntry(fat.fs, fat.bytes, c) = Low28(entry[c])
        BY <2>1, <3>3, <4>1, ReadsBack32
      <4>. QED BY <3>3, <4>2
    <3>. QED BY <1>2, <3>1, <3>2, <3>3
  <2>. HIDE DEF next
  <2>3. next_cluster(fat.fs, fat.bytes, c) = IF next >= EndMark(fat.fs) THEN EndOfChain ELSE next
    BY <2>2, Zenon DEF next_cluster
  <2>4. fat.chain[c] = Says(fat.fs, entry[c])
    OBVIOUS
  <2>. QED BY <2>3, <2>4, Zenon DEF Says, next
<1>4. ASSUME NEW c \in Clusters, NEW i \in Nat
      PROVE  ClusterAt(fat, c, i) \in Clusters \cup {EndOfChain}
  <2>1. FatGood(fat)
    BY VolumeGood
  <2>. QED BY <2>1, ClusterChain
<1>. QED BY <1>3, <1>4 DEF Readable

=============================================================================
