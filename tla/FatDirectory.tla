---------------------------- MODULE FatDirectory ----------------------------
(***************************************************************************)
(* Directories of the FAT file system: Directory and Filesystem::open of   *)
(* src/fat.rs, and the file protocol of src/efi/file.rs that keeps them    *)
(* open, lists them and opens paths relative to them.                      *)
(*                                                                         *)
(* A directory is a chain of clusters; a sector holds SlotsPerSector       *)
(* slots: an entry, a piece of a long name, an unused slot, or the end.    *)
(* The root of FAT12 and FAT16 is a range of sectors outside the clusters. *)
(* A name is a sequence of pieces; a short name has one piece.  A path is  *)
(* absolute or not and a sequence of names.                                *)
(***************************************************************************)
EXTENDS Integers, Sequences, SequencesExt

CONSTANTS
  SlotsPerSector,      \* 16
  SectorsPerCluster,
  EndOfChain,
  NoCluster,           \* the cluster of the root of FAT12 and FAT16
  MaxPieces,           \* pieces of the longest long name
  FixedSize,           \* of a FileInfo without its name
  InfoSizes,           \* of the buffers callers give for a FileInfo
  Disks,               \* what may be on the disk
  Paths,
  Handles,             \* the files open at a time
  Null

ASSUME FatDirectoryAssumption ==
  /\ {SlotsPerSector, SectorsPerCluster, MaxPieces, FixedSize} \subseteq Nat \ {0}
  /\ NoCluster # EndOfChain

VARIABLES
  disk,        \* [fat, slots, root, root_start, sectors]
  handles,     \* the OFileDirectory of every open file
  listed,      \* the entries a handle has passed, since it was opened
  last         \* the last call and what it returned

vars == <<disk, handles, listed, last>>

-----------------------------------------------------------------------------
(* Reading a directory *)

At(d) == IF d.cluster = NoCluster THEN disk.sectors[d.sector + 1] ELSE disk.slots[d.cluster][d.sector + 1]

\* get_sector: moves to the next cluster when this one is used up.
get_sector(d) ==
  IF d.cluster = NoCluster \/ d.sector < SectorsPerCluster THEN [dir |-> d, result |-> "Ok"]
  ELSE IF disk.fat[d.cluster] = EndOfChain THEN [dir |-> d, result |-> "EndOfFile"]
  ELSE [dir |-> [d EXCEPT !.cluster = disk.fat[@], !.sector = 0, !.offset = 0], result |-> "Ok"]

\* Mutant: the pieces found in earlier sectors are dropped.
WithPiecesHere(long, slots) ==
  [k \in 1 .. MaxPieces |->
     LET found == {i \in 1 .. Len(slots) : slots[i].kind = "Lfn" /\ slots[i].seq = k}
     IN  IF found = {} THEN "" ELSE slots[Max(found)].piece]

\* The pieces of a long name found in some slots, later ones over earlier ones.
WithPieces(long, slots) ==
  [k \in 1 .. MaxPieces |->
     LET found == {i \in 1 .. Len(slots) : slots[i].kind = "Lfn" /\ slots[i].seq = k}
     IN  IF found = {} THEN long[k] ELSE slots[Max(found)].piece]

NoLong == [k \in 1 .. MaxPieces |-> ""]

\* The name in the array of pieces, up to the first 0.
LongName(long) ==
  LET n == SelectInSeq(long, LAMBDA piece : piece = "")
  IN  IF n = 0 THEN long ELSE SubSeq(long, 1, n - 1)

\* Where the loop over the slots of a sector stops.
Stops(d) == {i \in d.offset + 1 .. SlotsPerSector : At(d)[i].kind \in {"End", "Entry"}}

NextSector(d) == [d EXCEPT !.sector = @ + 1, !.offset = 0]

\* next_entry: the next entry and the long name collected before it.  The end of the
\* directory is not passed; a cluster or sector without an entry is.
RECURSIVE NextEntry(_, _)
NextEntry(d, long) ==
  LET g == get_sector(d)
      slots == At(g.dir)
      stops == Stops(g.dir)
      stop == Min(stops)
      collected(n) == WithPieces(long, SubSeq(slots, g.dir.offset + 1, n))
  IN  IF g.result # "Ok" THEN [dir |-> g.dir, result |-> g.result]
      ELSE IF stops = {}
           THEN NextEntry(NextSector(g.dir), collected(SlotsPerSector))
      ELSE IF slots[stop].kind = "End" THEN [dir |-> g.dir, result |-> "EndOfFile"]
      ELSE [dir |-> [g.dir EXCEPT !.offset = stop], result |-> "Ok",
            entry |-> [name |-> slots[stop].name, type |-> slots[stop].type,
                       cluster |-> slots[stop].cluster, long |-> LongName(collected(stop))]]

next_entry(d) == NextEntry(d, NoLong)

\* Mutant: the sector that failed is left behind.
FailsAtMovesOn(d) == LET g == get_sector(d) IN {IF g.result = "Ok" THEN NextSector(g.dir) ELSE d}

\* Where a sector of the FAT or of the directory that cannot be read leaves it.
RECURSIVE FailsAt(_)
FailsAt(d) ==
  LET g == get_sector(d)
  IN  {d, g.dir} \cup IF g.result = "Ok" /\ Stops(g.dir) = {} THEN FailsAt(NextSector(g.dir)) ELSE {}

reset(d) == [d EXCEPT !.cluster = d.cluster_start, !.offset = 0, !.sector = 0]

compare_name(name, entry) == name = entry.name \/ name = entry.long

\* The first entry from here on with a name, which both get_parent_dir_ent and open
\* look for with a loop over next_entry.
RECURSIVE FindEntry(_, _)
FindEntry(d, name) ==
  LET n == next_entry(d)
  IN  IF n.result # "Ok" \/ compare_name(name, n.entry) THEN n ELSE FindEntry(n.dir, name)

-----------------------------------------------------------------------------
(* Opening a path *)

get_directory(cluster) == [cluster |-> cluster, sector |-> 0, offset |-> 0, cluster_start |-> cluster]

OFile(entry, dir, parent) == [dir_ent |-> entry, dir |-> dir, pdir_ent |-> parent]

root ==
  LET entry == [name |-> << >>, type |-> "Directory", long |-> << >>,
                cluster |-> IF disk.root = NoCluster THEN 0 ELSE disk.root]
  IN  OFile(entry, [get_directory(disk.root) EXCEPT !.sector = disk.root_start], Null)

Opened(ofile) == [status |-> "SUCCESS", ofile |-> ofile]

Failed(status) == [status |-> status]

\* open of "..", once the parent's entry is found: the entry of the directory that
\* is returned comes from the open file, not from the disk.
OpenParent(ofile, entry) ==
  CASE entry.type # "Directory" -> Failed("DEVICE_ERROR")
    [] entry.type = "Directory" /\ entry.cluster = 0 -> Opened(root)
    [] entry.type = "Directory" /\ entry.cluster # 0 ->
         IF ofile.pdir_ent = Null THEN Failed("panic")
         ELSE Opened(OFile(ofile.pdir_ent, get_directory(entry.cluster), Null))

\* The loop of open over the names of a path.  An empty name ends it.
RECURSIVE Walk(_, _)
Walk(ofile, names) ==
  LET n == FindEntry(ofile.dir, Head(names))
  IN  CASE names = << >> -> Opened(ofile)
        [] names # << >> /\ Head(names) = << >> -> Opened([ofile EXCEPT !.pdir_ent = Null])
        [] names # << >> /\ Head(names) # << >> ->
             IF n.result = "EndOfFile" THEN Failed("NOT_FOUND")
             ELSE IF n.entry.type = "File" THEN Opened(OFile(n.entry, Null, Null))
             ELSE IF n.entry.cluster = 0 THEN Walk(root, Tail(names))
             ELSE Walk(OFile(n.entry, get_directory(n.entry.cluster), ofile.dir_ent), Tail(names))

OpenPath(ofile, path) ==
  LET from == IF path.absolute THEN root ELSE ofile
  IN  IF from.dir = Null THEN Failed("DEVICE_ERROR")
      ELSE Walk([from EXCEPT !.dir = reset(@), !.pdir_ent = Null], path.names)

IsSelf(path) == ~ path.absolute /\ path.names = << <<".">> >>

IsParent(path) == ~ path.absolute /\ path.names = << <<"..">> >>

\* open of the file protocol on the file system.
Open(ofile, path) ==
  LET parent == FindEntry(reset(ofile.dir), <<"..">>)
  IN  IF IsSelf(path) THEN Opened(ofile)
      ELSE IF IsParent(path)
           THEN IF ofile.dir = Null \/ parent.result # "Ok" THEN Failed("INVALID_PARAMETER")
                ELSE OpenParent(ofile, parent.entry)
      ELSE OpenPath(ofile, path)

-----------------------------------------------------------------------------
(* The file protocol *)

NoResult == [op |-> "none"]

Running == last.op # "panic"

\* create_file puts an opened file behind a new handle.
Create(h, ofile, entries) ==
  /\ handles' = [handles EXCEPT ![h] = ofile]
  /\ listed' = [listed EXCEPT ![h] = entries]

open_volumn(h) ==
  /\ Running /\ handles[h] = Null
  /\ Create(h, root, << >>)
  /\ last' = NoResult
  /\ UNCHANGED disk

\* A handle opened with "." goes on where the one it was opened from has got to.
open(h, new, path) ==
  LET r == Open(handles[h], path)
  IN  /\ Running /\ handles[h] # Null /\ handles[new] = Null
      /\ IF r.status = "SUCCESS"
         THEN Create(new, r.ofile, IF IsSelf(path) THEN listed[h] ELSE << >>)
         ELSE UNCHANGED <<handles, listed>>
      /\ last' = [op |-> IF r.status = "panic" THEN "panic" ELSE "open", status |-> r.status,
                  from |-> handles[h], path |-> path, new |-> new]
      /\ UNCHANGED disk

\* A sector that cannot be read, or no memory for the handle, leaves nothing behind.
OpenFails(h, path) ==
  /\ Running /\ handles[h] # Null
  /\ \E status \in {"DEVICE_ERROR", "INVALID_PARAMETER", "OUT_OF_RESOURCES"} :
       /\ status = "DEVICE_ERROR" => path.names \notin {<< >>, << <<".">> >>}
       /\ status = "INVALID_PARAMETER" => IsParent(path)
       /\ status = "OUT_OF_RESOURCES" => Open(handles[h], path).status = "SUCCESS"
       /\ last' = [op |-> "failed", status |-> status]
  /\ UNCHANGED <<disk, handles, listed>>

close(h) ==
  /\ Running /\ handles[h] # Null
  /\ handles' = [handles EXCEPT ![h] = Null]
  /\ listed' = [listed EXCEPT ![h] = << >>]
  /\ last' = NoResult
  /\ UNCHANGED disk

\* FileInfo::init: what a caller with a buffer of max_size learns about an entry, by its
\* long name if it has one.
init(entry, max_size) ==
  LET name == IF entry.long = << >> THEN entry.name ELSE entry.long
      size == FixedSize + Len(name) + 1
  IN  IF max_size < size THEN [status |-> "BUFFER_TOO_SMALL", size |-> size]
      ELSE [status |-> "SUCCESS", size |-> size, name |-> name, type |-> entry.type]

\* size_of::<FileInfo>(), whose name has room for the longest one and a 0.
FileInfoSize == FixedSize + MaxPieces + 1

\* get_info with INFO_ID, the only information there is.
Info(ofile, size) ==
  IF size < FileInfoSize THEN [status |-> "BUFFER_TOO_SMALL", size |-> FileInfoSize]
  ELSE init(ofile.dir_ent, size)

get_info(h, size) ==
  /\ Running /\ handles[h] # Null
  /\ last' = [op |-> "info", info |-> Info(handles[h], size)]
  /\ UNCHANGED <<disk, handles, listed>>

\* read of a directory.  The entry is passed whether or not it fits the buffer.
read(h, size) ==
  LET n == next_entry(handles[h].dir)
  IN  /\ Running /\ handles[h] # Null /\ handles[h].dir # Null
      /\ handles' = [handles EXCEPT ![h].dir = n.dir]
      /\ listed' = IF n.result = "Ok" THEN [listed EXCEPT ![h] = Append(@, n.entry)] ELSE listed
      /\ last' = [op |-> "read", h |-> h, end |-> n.result = "EndOfFile",
                  info |-> IF n.result = "Ok" THEN init(n.entry, size)
                           ELSE [status |-> "SUCCESS", size |-> 0]]
      /\ UNCHANGED disk

ReadFails(h) ==
  /\ Running /\ handles[h] # Null /\ handles[h].dir # Null
  /\ \E d \in FailsAt(handles[h].dir) : handles' = [handles EXCEPT ![h].dir = d]
  /\ last' = [op |-> "failed", status |-> "DEVICE_ERROR"]
  /\ UNCHANGED <<disk, listed>>

-----------------------------------------------------------------------------
Init ==
  /\ disk \in Disks
  /\ handles = [h \in Handles |-> Null]
  /\ listed = [h \in Handles |-> << >>]
  /\ last = NoResult

Next ==
  \/ \E h \in Handles : open_volumn(h) \/ close(h)
  \/ \E h, new \in Handles, path \in Paths : open(h, new, path)
  \/ \E h \in Handles, path \in Paths : OpenFails(h, path)
  \/ \E h \in Handles, size \in InfoSizes : read(h, size) \/ get_info(h, size)
  \/ \E h \in Handles : ReadFails(h)

Spec == Init /\ [][Next]_vars

-----------------------------------------------------------------------------
(* What the disk says, read without a position *)

\* All the slots of a directory.
RECURSIVE SlotsFrom(_)
SlotsFrom(cluster) ==
  FlattenSeq(disk.slots[cluster]) \o
    IF disk.fat[cluster] = EndOfChain THEN << >> ELSE SlotsFrom(disk.fat[cluster])

Slots(cluster) ==
  IF cluster = NoCluster
  THEN FlattenSeq(SubSeq(disk.sectors, disk.root_start + 1, Len(disk.sectors)))
  ELSE SlotsFrom(cluster)

\* The entries before the end, by their place among the slots.
Places(cluster) ==
  LET slots == Slots(cluster)
  IN  {i \in 1 .. Len(slots) : slots[i].kind = "Entry" /\ \A j \in 1 .. i : slots[j].kind # "End"}

\* The long name of an entry is in the slots right before it, last piece first.
NameIs(slots, i, name) ==
  \/ slots[i].name = name
  \/ /\ Len(name) < i
     /\ \A k \in 1 .. Len(name) : slots[i - k].kind = "Lfn" /\ slots[i - k].seq = k /\ slots[i - k].piece = name[k]
     /\ i - Len(name) = 1 \/ slots[i - Len(name) - 1].kind # "Lfn"

\* The slots in which a path may end, from a directory and down the tree.
RECURSIVE Resolve(_, _)
Resolve(cluster, names) ==
  LET slots == Slots(cluster)
      named == {i \in Places(cluster) : NameIs(slots, i, Head(names))}
      slot == slots[Min(named)]
  IN  IF names = << >> THEN [type |-> "Directory", cluster |-> cluster]
      ELSE IF named = {} THEN [type |-> "None"]
      ELSE IF slot.type = "File" THEN [type |-> "File", cluster |-> slot.cluster, slots |-> slots, at |-> Min(named)]
      ELSE Resolve(IF slot.cluster = 0 THEN disk.root ELSE slot.cluster, Tail(names))

-----------------------------------------------------------------------------
(* Properties *)

\* Reading a directory passes its entries in the order of the disk, each one once,
\* across sectors, clusters and errors that were retried, and reports the end after
\* the last one only.  The caller is given the entry passed, or the size of buffer
\* it takes.
ListsDirectory ==
  \A h \in Handles : handles[h] # Null /\ handles[h].dir # Null =>
    LET c == handles[h].dir.cluster_start
        names == SetToSortSeq(Places(c), <)
    IN  /\ Len(listed[h]) <= Len(names)
        /\ \A i \in 1 .. Len(listed[h]) :
             /\ listed[h][i].name = Slots(c)[names[i]].name
             /\ listed[h][i].cluster = Slots(c)[names[i]].cluster
        /\ last.op = "read" /\ last.h = h =>
             IF last.end THEN Len(listed[h]) = Len(names)
             ELSE init(Last(listed[h]), last.info.size).status = "SUCCESS"

\* A path without empty names leads to what the disk has under it, by short or by
\* long name, and to nothing only if the disk has nothing there, however far the
\* directory it starts from has been read.  get_info of a file found that way gives a
\* name the disk has for it, in a buffer of the size of a FileInfo.
OpenResolves ==
  last.op = "open" /\ << >> \notin Range(last.path.names) /\ last.status \in {"SUCCESS", "NOT_FOUND"}
    /\ (last.path.absolute \/ last.from.dir # Null) =>
    LET names == IF IsSelf(last.path) THEN << >> ELSE last.path.names
        target == Resolve(IF last.path.absolute THEN disk.root ELSE last.from.dir.cluster_start, names)
    IN  IF last.status = "NOT_FOUND" THEN target.type = "None"
        ELSE LET f == handles[last.new]
             IN  IF target.type = "File"
                 THEN /\ f.dir = Null /\ f.dir_ent.cluster = target.cluster
                      /\ Info(f, FileInfoSize).status = "SUCCESS"
                      /\ NameIs(target.slots, target.at, Info(f, FileInfoSize).name)
                 ELSE target.type = "Directory" /\ f.dir # Null /\ f.dir.cluster_start = target.cluster
=============================================================================
