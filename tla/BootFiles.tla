----------------------------- MODULE BootFiles -----------------------------
(***************************************************************************)
(* The boot loader of src/loader.rs and src/bzimage.rs: it reads the       *)
(* loader configuration and the default entry it names, the kernel and the *)
(* initrd from files of the FAT file system, sector by sector, and fills   *)
(* in the zero page the kernel is started with.                            *)
(*                                                                         *)
(* The variable file of FatFile is the file being read.  What a file says  *)
(* is reduced to disk: which files there are and where they start, what    *)
(* the checks of the kernel's setup header find, the number of setup       *)
(* sectors it names, and whether the entry has a command line.             *)
(***************************************************************************)
EXTENDS FatFile

CONSTANTS
  Disks,           \* records [conf, entry, kernel, initrd, header, setup_sects, cmdline]
  Absent,          \* no such file, or not read yet
  Subdirectory,    \* the path names a directory
  ConfigBuffer,    \* 4096
  CmdlineMax,      \* CMDLINE_MAX_SIZE
  E820,            \* the entries [addr, size, ram] of the zero page
  MaxLoadAddress

\* The files are not so close to 4 GiB that a position past their end wraps, and there is
\* memory below the limit of the kernel.
ASSUME BootFilesAssumption ==
  /\ \A d \in Disks :
       /\ {d.conf, d.entry, d.kernel, d.initrd} \subseteq
            [start : Clusters, size : 0 .. PositionModulus - SectorSize] \cup {Absent, Subdirectory}
       /\ d.setup_sects \in Nat /\ d.cmdline \in Nat
  /\ E820 \subseteq [addr : Nat, size : Nat \ {0}, ram : BOOLEAN] /\ MaxLoadAddress \in Nat
  /\ \E e \in E820 : e.ram /\ e.addr + e.size <= MaxLoadAddress

VARIABLES
  disk,
  phase,       \* what load_default_entry is doing
  mem,         \* what the files were read into
  zero_page

bvars == <<vars, disk, phase, mem, zero_page>>

Phases == {"conf", "entry", "setup", "seek", "kernel", "initrd", "cmdline", "Ok", "Err", "panic"}

Buffers == {"conf", "entry", "setup", "kernel", "initrd"}

-----------------------------------------------------------------------------
Fail == phase' = "Err" /\ UNCHANGED file

\* fs.open and file.unwrap(), and the buffer the file is read into.
Open(which, buffer) ==
  CASE disk[which] = Absent -> Fail /\ UNCHANGED mem
    [] disk[which] = Subdirectory -> phase' = "panic" /\ UNCHANGED <<file, mem>>
    [] OTHER -> /\ file' = Opened(disk[which])
                /\ mem' = [mem EXCEPT ![buffer] = << >>]
                /\ UNCHANGED phase

\* default_entry_file and parse_entry check the size before they read.
OpenConfig(which) ==
  /\ phase = which /\ mem[which] = Absent
  /\ IF disk[which] \notin {Absent, Subdirectory} /\ disk[which].size > ConfigBuffer
     THEN phase' = "panic" /\ UNCHANGED <<file, mem>>
     ELSE Open(which, which)
  /\ UNCHANGED <<fat, job, disk, zero_page>>

\* A turn of their loop.  The slice of the buffer is taken before the read.
ConfigStep(which, fatOk, devOk) ==
  LET r == Read(file, fatOk, devOk)
  IN  /\ phase = which /\ mem[which] # Absent
      /\ IF Len(mem[which]) + SectorSize > ConfigBuffer
         THEN phase' = "panic" /\ UNCHANGED <<file, mem>>
         ELSE /\ file' = r.file
              /\ mem' = [mem EXCEPT ![which] = @ \o r.data]
              /\ phase' = CASE r.result = "Ok" -> which
                            [] r.result = "BlockError" -> "Err"
                            [] r.result = "EndOfFile" -> IF which = "conf" THEN "entry" ELSE "setup"
      /\ UNCHANGED <<fat, job, disk, zero_page>>

-----------------------------------------------------------------------------
(* load_kernel *)

OpenKernel ==
  /\ phase = "setup" /\ mem.setup = Absent
  /\ Open("kernel", "setup")
  /\ UNCHANGED <<fat, job, disk, zero_page>>

\* seek(0) fails on an empty file only; the two reads fill the buffer of the header.
SetupStep(fatOk, devOk) ==
  LET r == Read(file, fatOk, devOk)
      seek == SeekStart(file, 0)
  IN  /\ phase = "setup" /\ mem.setup # Absent /\ Len(mem.setup) < 2 * SectorSize
      /\ IF mem.setup = << >> /\ seek.result # "Ok"
         THEN Fail /\ UNCHANGED mem
         ELSE /\ file' = r.file
              /\ mem' = [mem EXCEPT !.setup = @ \o r.data]
              /\ phase' = IF r.result = "Ok" THEN "setup" ELSE "Err"
      /\ UNCHANGED <<fat, job, disk, zero_page>>

SetupBytes == SectorSize * (1 + IF disk.setup_sects = 0 THEN 4 ELSE disk.setup_sects)

\* The checks of the header, the copy of it to the zero page and the checks of seek.
CheckHeader ==
  LET s == SeekStart(file, SetupBytes)
  IN  /\ phase = "setup" /\ mem.setup # Absent /\ Len(mem.setup) >= 2 * SectorSize
      /\ IF disk.header # "Good"
         THEN Fail /\ UNCHANGED zero_page
         ELSE /\ zero_page' = [zero_page EXCEPT !.kernel = TRUE]
              /\ file' = s.file
              /\ phase' = IF s.result = "Ok" THEN "seek" ELSE "Err"
      /\ UNCHANGED <<fat, job, disk, mem>>

\* Mutant: an error of the disk is retried without end.
SeekSetupRetries(fatOk) ==
  LET s == SeekTurn(file, fatOk)
  IN  /\ phase = "seek"
      /\ IF file.position = SetupBytes
         THEN phase' = "kernel" /\ UNCHANGED file
         ELSE file' = s.file /\ UNCHANGED phase
      /\ UNCHANGED <<fat, job, disk, mem, zero_page>>

SeekSetup(fatOk) ==
  LET s == SeekTurn(file, fatOk)
  IN  /\ phase = "seek"
      /\ IF file.position = SetupBytes
         THEN phase' = "kernel" /\ UNCHANGED file
         ELSE /\ file' = s.file
              /\ phase' = IF s.result = "Ok" THEN "seek" ELSE "Err"
      /\ UNCHANGED <<fat, job, disk, mem, zero_page>>

\* Mutant: any error is taken for the end of the kernel.
KernelStepEndsOnError(fatOk, devOk) ==
  LET r == Read(file, fatOk, devOk)
  IN  /\ phase = "kernel"
      /\ file' = r.file
      /\ mem' = [mem EXCEPT !.kernel = @ \o r.data]
      /\ phase' = IF r.result = "Ok" THEN "kernel"
                  ELSE IF disk.initrd # Absent THEN "initrd" ELSE "cmdline"
      /\ UNCHANGED <<fat, job, disk, zero_page>>

KernelStep(fatOk, devOk) ==
  LET r == Read(file, fatOk, devOk)
  IN  /\ phase = "kernel"
      /\ file' = r.file
      /\ mem' = [mem EXCEPT !.kernel = @ \o r.data]
      /\ phase' = CASE r.result = "Ok" -> "kernel"
                    [] r.result = "BlockError" -> "Err"
                    [] r.result = "EndOfFile" ->
                         IF disk.initrd # Absent THEN "initrd" ELSE "cmdline"
      /\ UNCHANGED <<fat, job, disk, zero_page>>

-----------------------------------------------------------------------------
(* load_initrd *)

LastByte(e) == e.addr + e.size - 1

\* Mutant: memory of any kind is taken.
TopOfAnyMemory == Max({0} \cup {LastByte(e) : e \in {e \in E820 : LastByte(e) < MaxLoadAddress}})

TopOfUsableRam == Max({0} \cup {LastByte(e) : e \in {e \in E820 : e.ram /\ LastByte(e) < MaxLoadAddress}})

OpenInitrd ==
  /\ phase = "initrd" /\ mem.initrd = Absent
  /\ Open("initrd", "initrd")
  /\ UNCHANGED <<fat, job, disk, zero_page>>

\* The zero page is filled in once the loop is left, at the end of the file or of its chain.
InitrdDone ==
  /\ zero_page' = [zero_page EXCEPT !.initrd_address = TopOfUsableRam - file.size,
                                    !.initrd_size = file.size]
  /\ phase' = "cmdline"

\* A turn of the loop; the last sector may be a partial one and goes through a buffer.
InitrdStep(fatOk, devOk) ==
  LET r == Read(file, fatOk, devOk)
      remaining == file.size - Len(mem.initrd)
  IN  /\ phase = "initrd" /\ mem.initrd # Absent
      /\ IF remaining = 0 THEN InitrdDone /\ UNCHANGED <<file, mem>>
         ELSE /\ file' = r.file
              /\ mem' = [mem EXCEPT !.initrd = @ \o SubSeq(r.data, 1, Min({Len(r.data), remaining}))]
              /\ CASE r.result = "EndOfFile" \/ (r.result = "Ok" /\ remaining < SectorSize) -> InitrdDone
                   [] r.result = "Ok" /\ remaining >= SectorSize -> UNCHANGED <<phase, zero_page>>
                   [] r.result = "BlockError" -> phase' = "Err" /\ UNCHANGED zero_page
      /\ UNCHANGED <<fat, job, disk>>

\* append_commandline, when the entry has options: a blank, the addition and a final 0
\* have to fit behind the command line the zero page came with.
AppendCommandline ==
  LET size == zero_page.cmdline_size + 1 + disk.cmdline
  IN  /\ phase = "cmdline"
      /\ IF disk.cmdline = 0 THEN phase' = "Ok" /\ UNCHANGED zero_page
         ELSE IF size >= CmdlineMax THEN phase' = "panic" /\ UNCHANGED zero_page
         ELSE phase' = "Ok" /\ zero_page' = [zero_page EXCEPT !.cmdline_size = size]
      /\ UNCHANGED <<fat, file, job, disk, mem>>

-----------------------------------------------------------------------------
NothingRead == [b \in Buffers |-> IF b = "kernel" THEN << >> ELSE Absent]

BootParams == [kernel |-> FALSE, initrd_address |-> 0, initrd_size |-> 0, cmdline_size |-> 1]

BootInit ==
  /\ fat \in Volumes /\ disk \in Disks /\ job = Idle
  /\ phase = "conf"
  /\ file = Opened(CHOOSE f \in Files : TRUE)
  /\ mem = NothingRead /\ zero_page = BootParams

BootNext ==
  \/ \E which \in {"conf", "entry"} : OpenConfig(which)
  \/ \E which \in {"conf", "entry"}, fatOk, devOk \in BOOLEAN : ConfigStep(which, fatOk, devOk)
  \/ OpenKernel
  \/ \E fatOk, devOk \in BOOLEAN : SetupStep(fatOk, devOk)
  \/ CheckHeader
  \/ \E fatOk \in BOOLEAN : SeekSetup(fatOk)
  \/ \E fatOk, devOk \in BOOLEAN : KernelStep(fatOk, devOk)
  \/ OpenInitrd
  \/ \E fatOk, devOk \in BOOLEAN : InitrdStep(fatOk, devOk)
  \/ AppendCommandline

\* One processor runs the loader to its end.
BootSpec == BootInit /\ [][BootNext]_bvars /\ WF_bvars(BootNext)

-----------------------------------------------------------------------------
(* Properties *)

\* The chain of a file of a volume has clusters for all of its size.
Whole(v, f) ==
  f.size = 0 \/ ClusterAt(v, f.start, ((f.size - 1) \div SectorSize) \div SectorsPerCluster) # EndOfChain

\* Memory holds the bytes of a file from an offset up to its end.
Holds(v, bytes, f, offset) ==
  /\ Len(bytes) >= f.size - offset
  /\ \A p \in offset .. f.size - 1 : bytes[p - offset + 1] = ByteAt(v, f.start, p)

\* Once the loader reports success, or has told the kernel of an initrd, the whole
\* kernel behind its setup sectors lies in memory in order: a disk error on the way
\* never passes for the end of the file.
KernelLoaded ==
  phase = "Ok" \/ zero_page.initrd_size > 0 =>
    (Whole(fat, disk.kernel) => zero_page.kernel /\ Holds(fat, mem.kernel, disk.kernel, SetupBytes))

\* The initrd the zero page announces is the whole file, whether its size ends with
\* a sector or not, nothing is written past it, and if it is smaller than every usable
\* range of memory that ends below the kernel's limit it lies in one of them.
InitrdLoaded ==
  LET usable == {e \in E820 : e.ram /\ e.addr + e.size <= MaxLoadAddress}
  IN  /\ mem.initrd # Absent => Len(mem.initrd) <= disk.initrd.size
      /\ zero_page.initrd_size > 0 /\ Whole(fat, disk.initrd) =>
           zero_page.initrd_size = disk.initrd.size /\ Holds(fat, mem.initrd, disk.initrd, 0)
      /\ zero_page.initrd_size > 0 /\ (\A e \in usable : zero_page.initrd_size < e.size) =>
           \E e \in usable :
             /\ zero_page.initrd_address >= e.addr
             /\ zero_page.initrd_address + zero_page.initrd_size <= e.addr + e.size

\* The loader comes to an end, whatever the disk does.
BootEnds == phase = "conf" ~> phase \in {"Ok", "Err", "panic"}
=============================================================================
