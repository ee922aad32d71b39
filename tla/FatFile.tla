------------------------------ MODULE FatFile ------------------------------
(***************************************************************************)
(* An open file of the FAT file system: File of src/fat.rs, which walks    *)
(* the cluster chain in the FAT, and the read service of src/efi/file.rs   *)
(* on top of it.                                                           *)
(*                                                                         *)
(* A byte of the disk is named by its sector and its position in it.       *)
(* Reading a sector of the FAT or of a file may fail at any time.  The     *)
(* chain may end before the size of the directory entry is reached.        *)
(***************************************************************************)
EXTENDS FatVolume, Sequences, FiniteSetsExt

CONSTANTS
  SectorSize,          \* 512
  SectorsPerCluster,
  PositionModulus,     \* 2^32: position and size are u32
  Clusters,
  Fats,                \* volumes: header and bytes, and the chain and data_start they stand for
  Files,               \* records [start, size], from a directory entry
  ReadSizes,           \* buffers a caller reads into
  SeekTargets

ASSUME FatFileAssumption ==
  /\ {SectorSize, SectorsPerCluster, PositionModulus} \subseteq Nat \ {0}
  /\ PositionModulus % SectorSize = 0
  /\ Clusters \subseteq Nat /\ EndOfChain \notin Clusters
  /\ \A v \in Fats : /\ v.chain \in [Clusters -> Clusters \cup {EndOfChain}] /\ v.data_start \in Nat
                     /\ v.header.bytes_per_sector = SectorSize
                     /\ v.header.sectors_per_cluster = SectorsPerCluster
  /\ Files \subseteq [start : Clusters, size : 0 .. PositionModulus - 1] /\ Files # {}
  /\ ReadSizes \subseteq Nat /\ SeekTargets \subseteq 0 .. PositionModulus - 1

VARIABLES
  fat,     \* the volume, mounted
  file,    \* the File structure
  job      \* the call in progress, or the last one and what it returned

vars == <<fat, file, job>>

-----------------------------------------------------------------------------
NextOf(cluster) == next_cluster(fat.fs, fat.bytes, cluster)

\* What an operation leaves in the File, whether it succeeded, the sector it put into
\* the caller's buffer and how many bytes of it it reports.
Outcome(f, result, data, count) == [file |-> f, result |-> result, data |-> data, count |-> count]

Without(f, result) == Outcome(f, result, << >>, 0)

\* next_cluster, taken at the end of a cluster only; fatOk is whether the sector of
\* the FAT can be read.
Cross(f, fatOk) ==
  IF f.sector_offset # SectorsPerCluster THEN Without(f, "Ok")
  ELSE IF ~ fatOk THEN Without(f, "BlockError")
  ELSE IF NextOf(f.active_cluster) = EndOfChain THEN Without(f, "EndOfFile")
  ELSE Without([f EXCEPT !.active_cluster = NextOf(@), !.sector_offset = 0], "Ok")

SectorData(f) ==
  [k \in 1 .. SectorSize |->
     <<first_sector_of_cluster(fat.fs, f.active_cluster) + f.sector_offset, k>>]

\* File::read of the next sector; devOk is whether that sector can be read.
Read(f, fatOk, devOk) ==
  LET next == Cross(f, fatOk)
      at == next.file
      end == (f.position + SectorSize) % PositionModulus
  IN  IF f.position >= f.size THEN Without(f, "EndOfFile")
      ELSE IF next.result # "Ok" THEN next
      ELSE IF ~ devOk THEN Without(at, "BlockError")
      ELSE IF end > f.size
           THEN Outcome([at EXCEPT !.sector_offset = @ + 1, !.position = f.size], "Ok",
                        SectorData(at), f.size - f.position)
           ELSE Outcome([at EXCEPT !.sector_offset = @ + 1, !.position = end], "Ok",
                        SectorData(at), SectorSize)

\* Mutant: going back to the start leaves the cluster reached.
SeekStartKeepsCluster(f, target) ==
  IF target % SectorSize # 0 THEN Without(f, "InvalidOffset")
  ELSE IF target >= f.size THEN Without(f, "EndOfFile")
  ELSE IF target < f.position THEN Without([f EXCEPT !.position = 0, !.sector_offset = 0], "Ok")
  ELSE Without(f, "Ok")

\* File::seek: what it checks and whether it goes back to the start ...
SeekStart(f, target) ==
  IF target % SectorSize # 0 THEN Without(f, "InvalidOffset")
  ELSE IF target >= f.size THEN Without(f, "EndOfFile")
  ELSE IF target < f.position
       THEN Without([f EXCEPT !.position = 0, !.sector_offset = 0, !.active_cluster = f.start_cluster],
                    "Ok")
       ELSE Without(f, "Ok")

\* ... and one turn of its loop.
SeekTurn(f, fatOk) ==
  LET next == Cross(f, fatOk)
  IN  IF next.result # "Ok" THEN next
      ELSE [next EXCEPT !.file.sector_offset = @ + 1,
                        !.file.position = (@ + SectorSize) % PositionModulus]

-----------------------------------------------------------------------------
(* The read service: read_file goes on after an error other than the end   *)
(* of the file, and remembers it.                                          *)

Idle == [op |-> "idle"]

Returned == job.op \in {"idle", "done"}

ReadJob(n) == [op |-> "read", from |-> file.position, n |-> n, copied |-> << >>, status |-> "SUCCESS"]

Return(j, status) == [j EXCEPT !.op = "done", !.status = status]

ReadCall(n) ==
  /\ Returned
  /\ job' = IF n = 0 THEN Return(ReadJob(n), "SUCCESS") ELSE ReadJob(n)
  /\ UNCHANGED <<fat, file>>

\* Mutant: an error ends the read like the end of the file does.
ReadStepStopsOnError(fatOk, devOk) ==
  LET r == Read(file, fatOk, devOk)
      copied == job.copied \o SubSeq(r.data, 1, Min({r.count, job.n - Len(job.copied)}))
  IN  /\ job.op = "read"
      /\ file' = r.file
      /\ job' = CASE r.result = "Ok" /\ Len(copied) < job.n -> [job EXCEPT !.copied = copied]
                  [] r.result = "Ok" /\ Len(copied) = job.n ->
                       Return([job EXCEPT !.copied = copied], job.status)
                  [] r.result # "Ok" ->
                       Return(job, IF job.copied = << >> THEN "END_OF_FILE" ELSE "SUCCESS")
      /\ UNCHANGED fat

\* Mutant: the end of the file does not leave the loop.
ReadStepGoesOn(fatOk, devOk) ==
  LET r == Read(file, fatOk, devOk)
      copied == job.copied \o SubSeq(r.data, 1, Min({r.count, job.n - Len(job.copied)}))
  IN  /\ job.op = "read"
      /\ file' = r.file
      /\ job' = CASE r.result = "Ok" /\ Len(copied) < job.n -> [job EXCEPT !.copied = copied]
                  [] r.result = "Ok" /\ Len(copied) = job.n ->
                       Return([job EXCEPT !.copied = copied], job.status)
                  [] r.result = "EndOfFile" -> [job EXCEPT !.status = "END_OF_FILE"]
                  [] r.result = "BlockError" -> [job EXCEPT !.status = "DEVICE_ERROR"]
      /\ UNCHANGED fat

\* What is left of the caller's buffer takes the beginning of the sector; the rest
\* of the sector is dropped.
ReadStep(fatOk, devOk) ==
  LET r == Read(file, fatOk, devOk)
      copied == job.copied \o SubSeq(r.data, 1, Min({r.count, job.n - Len(job.copied)}))
  IN  /\ job.op = "read"
      /\ file' = r.file
      /\ job' = CASE r.result = "Ok" /\ Len(copied) < job.n -> [job EXCEPT !.copied = copied]
                  [] r.result = "Ok" /\ Len(copied) = job.n ->
                       Return([job EXCEPT !.copied = copied], job.status)
                  [] r.result = "EndOfFile" ->
                       Return(job, IF job.copied = << >> THEN "END_OF_FILE" ELSE "SUCCESS")
                  [] r.result = "BlockError" -> [job EXCEPT !.status = "DEVICE_ERROR"]
      /\ UNCHANGED fat

SeekCall(target) ==
  LET s == SeekStart(file, target)
  IN  /\ Returned
      /\ file' = s.file
      /\ job' = [op |-> IF s.result = "Ok" /\ s.file.position # target THEN "seek" ELSE "done",
                 target |-> target, status |-> s.result]
      /\ UNCHANGED fat

SeekStep(fatOk) ==
  LET s == SeekTurn(file, fatOk)
  IN  /\ job.op = "seek"
      /\ file' = s.file
      /\ job' = [job EXCEPT !.op = IF s.result = "Ok" /\ s.file.position # job.target THEN "seek" ELSE "done",
                            !.status = s.result]
      /\ UNCHANGED fat

-----------------------------------------------------------------------------
\* get_file.
Opened(f) ==
  [start_cluster |-> f.start, active_cluster |-> f.start, sector_offset |-> 0,
   size |-> f.size, position |-> 0]

Volumes == {[fs |-> Mounted(v.header), bytes |-> v.bytes, chain |-> v.chain, data_start |-> v.data_start] : v \in Fats}

Init ==
  /\ fat \in Volumes
  /\ \E f \in Files : file = Opened(f)
  /\ job = Idle

Next ==
  \/ \E n \in ReadSizes : ReadCall(n)
  \/ \E target \in SeekTargets : SeekCall(target)
  \/ \E fatOk, devOk \in BOOLEAN : ReadStep(fatOk, devOk)
  \/ \E fatOk \in BOOLEAN : SeekStep(fatOk)

\* A call in progress goes on, and the disk does not fail for ever.
Fairness == SF_vars(ReadStep(TRUE, TRUE)) /\ WF_vars(\E fatOk \in BOOLEAN : SeekStep(fatOk))

Spec == Init /\ [][Next]_vars /\ Fairness

-----------------------------------------------------------------------------
(* Properties *)

\* The file is not so close to 4 GiB that a position past its end wraps.
Regular == file.size + SectorSize <= PositionModulus

\* The i-th cluster of the chain that starts at a cluster of a volume, counted from 0.
ClusterAt(v, start, i) ==
  LET chain[j \in 0 .. i] ==
        IF j = 0 THEN start
        ELSE IF chain[j - 1] = EndOfChain THEN EndOfChain ELSE v.chain[chain[j - 1]]
  IN  chain[i]

\* The byte at a position of the file that starts at a cluster.
ByteAt(v, start, p) ==
  LET sector == p \div SectorSize
      cluster == ClusterAt(v, start, sector \div SectorsPerCluster)
  IN  <<v.data_start + (cluster - 2) * SectorsPerCluster + (sector % SectorsPerCluster),
        (p % SectorSize) + 1>>

\* Wherever reads, seeks, errors in the middle of either and retries have left it,
\* the cluster and sector the file would read next are those of its position.
PlaceIsPosition ==
  Regular /\ file.position < file.size =>
    LET sector == file.position \div SectorSize
    IN  /\ file.position % SectorSize = 0
        /\ \/ /\ file.sector_offset = sector % SectorsPerCluster
              /\ file.active_cluster = ClusterAt(fat, file.start_cluster, sector \div SectorsPerCluster)
           \/ /\ sector > 0 /\ sector % SectorsPerCluster = 0
              /\ file.sector_offset = SectorsPerCluster
              /\ file.active_cluster = ClusterAt(fat, file.start_cluster, sector \div SectorsPerCluster - 1)

\* A read hands over the bytes of the file from the position it started at, in
\* order, without a gap or a repetition, also after errors it retried.  One that
\* returns SUCCESS filled the buffer or reached the end of the file or of its chain:
\* an error on the way is never taken for the end.
ReadDelivers ==
  Regular /\ job.op \in {"read", "done"} /\ "copied" \in DOMAIN job =>
    /\ \A i \in 1 .. Len(job.copied) : job.copied[i] = ByteAt(fat, file.start_cluster, job.from + i - 1)
    /\ job.op = "done" /\ job.status = "SUCCESS" =>
         LET next == job.from + Len(job.copied)
         IN  \/ Len(job.copied) = job.n
             \/ next = file.size
             \/ ClusterAt(fat, file.start_cluster, (next \div SectorSize) \div SectorsPerCluster) = EndOfChain

\* Every read and seek returns.
CallsReturn == job.op \in {"read", "seek"} ~> Returned
=============================================================================
