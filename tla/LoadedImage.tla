---------------------------- MODULE LoadedImage ----------------------------
(***************************************************************************)
(* Loading and starting images: Image of src/efi/image.rs and the services *)
(* load_image and start_image of src/efi/mod.rs, on top of the handle      *)
(* database.                                                               *)
(*                                                                         *)
(* An image source is a file as PeLoader has them.  A pool allocation may  *)
(* fail at any time; otherwise an image goes to a base no image has yet,   *)
(* in memory with anything in it.  Where the code goes on with a null      *)
(* pointer after an error it ignored, the machine faults: FAULT.           *)
(***************************************************************************)
EXTENDS HandleDatabase, PeLoader

CONSTANTS
  ImageInfoGuid, LoadedImageGuid, FileSystemGuid,
  Sources,       \* files, as PeLoader has them
  Bases,         \* where images may be loaded
  Old,           \* what memory holds before an image is loaded
  ImagePaths,    \* device paths images are loaded with
  MaxImages      \* bound on the loads that get an ImageInfo

ASSUME ImageAssumption ==
  /\ Bases \subseteq Nat \ {0} /\ Old \in 0 .. Cell - 1 /\ DosHeader > 0
  /\ {ImageInfoGuid, LoadedImageGuid} \cap (Guids \cup {DevicePathGuid}) = {}
  /\ ImageInfoGuid # LoadedImageGuid
  /\ MaxImages \in Nat /\ MaxProtocols >= 2

VARIABLES
  infos,    \* the ImageInfo structures; an interface k means infos[k]
  loaded    \* the file and base of the image of each handle that load_image returned

ivars == <<db, last, infos, loaded>>

\* The load has to read a file: the caller passed no source and the path names one.
FromFile(path, source) == source = Null /\ Find(path, {"END", "FILE"}) # Find(path, {"END"})

\* What load_image passes on: the caller's source, the file on the first file system
\* (any source when it could only be read in part), or nothing, which has no headers.
Buffers(path, source) ==
  IF source # Null THEN {source}
  ELSE IF FromFile(path, source) THEN {s \in Sources : HandlesWith(FileSystemGuid) # << >>}
  ELSE {[size |-> 0]}

Stop(status) ==
  /\ last' = [op |-> "load", status |-> status, handle |-> NullHandle]
  /\ UNCHANGED <<db, infos, loaded>>

\* Mutant of Installs: the device path goes to the handle of the image.
InstallsOneHandle(k, device) ==
  LET info == InstallProtocol(db, NullHandle, [guid |-> ImageInfoGuid, interface |-> k])
      dev == InstallProtocol(info.db, info.handle, [guid |-> DevicePathGuid, interface |-> device])
      image == InstallProtocol(dev.db, info.handle, [guid |-> LoadedImageGuid, interface |-> k])
  IN  [status |-> image.status, image |-> image.handle, device |-> dev.handle, db |-> image.db]

\* Mutant of Installs: the loaded image protocol goes to the device's handle.
InstallsSwapped(k, device) ==
  LET info == InstallProtocol(db, NullHandle, [guid |-> ImageInfoGuid, interface |-> k])
      dev == InstallProtocol(info.db, NullHandle, [guid |-> DevicePathGuid, interface |-> device])
      image == InstallProtocol(dev.db, dev.handle, [guid |-> LoadedImageGuid, interface |-> k])
  IN  [status |-> image.status, image |-> image.handle, device |-> dev.handle, db |-> image.db]

\* The three installations; the status of the first two is ignored.  device is the
\* copy of the path without its file, or the null page when its allocation failed.
Installs(k, device) ==
  LET info == InstallProtocol(db, NullHandle, [guid |-> ImageInfoGuid, interface |-> k])
      dev == InstallProtocol(info.db, NullHandle, [guid |-> DevicePathGuid, interface |-> device])
      image == InstallProtocol(dev.db, info.handle, [guid |-> LoadedImageGuid, interface |-> k])
  IN  [status |-> image.status, image |-> image.handle, device |-> dev.handle, db |-> image.db]

\* Every error comes with a null handle, which load_image looks up all the same: it
\* reads a signature at address 0.
LoadFailed(d) ==
  /\ db' = d
  /\ \E status \in {"INVALID_PARAMETER", "FAULT"} :
       last' = [op |-> "load", status |-> status, handle |-> NullHandle]
  /\ UNCHANGED <<infos, loaded>>

LoadSucceeded(path, buffer, base, image, done) ==
  /\ db' = done.db
  /\ infos' = Append(infos, [entry |-> image.entry, path |-> path, device_handle |-> done.device,
                             base |-> base, memory |-> image.memory])
  /\ loaded' = [h \in DOMAIN loaded \cup {done.image} |->
                  IF h = done.image THEN [source |-> buffer, base |-> base] ELSE loaded[h]]
  /\ last' = [op |-> "load", status |-> "SUCCESS", handle |-> done.image]

\* Image::load_image; pool[i] is whether the allocation of the ImageInfo, the image
\* and the copy of the device path succeeds, the second one at base.
LoadImage(path, buffer, pool, base) ==
  LET size == peloader_get_image_info(buffer)
      image == IF size = 0 THEN [entry |-> 0]
               ELSE peloader_load_image([a \in 0 .. size - 1 |-> Old], buffer, base)
      refused == ~ pool[1] \/ ~ pool[2] \/ image.entry = 0
      device == IF pool[3] THEN drop_file_path_media_device_path(path) ELSE Stray
      done == Installs(Len(infos) + 1, device)
  IN  \/ refused /\ LoadFailed(db)
      \/ ~ refused /\ ~ pool[3] /\ Stop("FAULT")
      \/ /\ ~ refused /\ Len(infos) < MaxImages
         /\ IF done.status = "SUCCESS" THEN LoadSucceeded(path, buffer, base, image, done)
            ELSE LoadFailed(done.db)

\* Reading the file faults without a file system and when the file is not there.
load_image(path, source) ==
  \/ FromFile(path, source) /\ Stop("FAULT")
  \/ FromFile(path, source) /\ HandlesWith(FileSystemGuid) # << >> /\ Stop("OUT_OF_RESOURCES")
  \/ \E buffer \in Buffers(path, source), pool \in [1 .. 3 -> BOOLEAN],
        base \in Bases \ {infos[k].base : k \in DOMAIN infos} : LoadImage(path, buffer, pool, base)

\* Mutant of start_image: the image loaded last is started.
StartLatest(handle) ==
  LET i == IF handle = Foreign THEN 0 ELSE get_protocol(db, handle, ImageInfoGuid)
  IN  /\ last' = [op |-> "start", handle |-> handle,
                  status |-> IF i = 0 THEN "INVALID_PARAMETER" ELSE "STARTED",
                  ran |-> IF i = 0 THEN 0 ELSE infos[Len(infos)].entry]
      /\ UNCHANGED <<db, infos, loaded>>

\* ran is the entry point called, 0 for none.
start_image(handle) ==
  LET i == IF handle = Foreign THEN 0 ELSE get_protocol(db, handle, ImageInfoGuid)
  IN  /\ last' = [op |-> "start", handle |-> handle,
                  status |-> IF i = 0 THEN "INVALID_PARAMETER" ELSE "STARTED",
                  ran |-> IF i = 0 THEN 0 ELSE infos[db[handle][i].interface].entry]
      /\ UNCHANGED <<db, infos, loaded>>

-----------------------------------------------------------------------------
ImageInit == Init /\ infos = << >> /\ loaded = << >>

\* The calls of enter_uefi and of the images it starts, until one faults.
ImageNext ==
  /\ last.op # "none" => last.status # "FAULT"
  /\ \/ \E path \in ImagePaths, source \in Sources \cup {Null} : load_image(path, source)
     \/ \E handle \in Handles \cup {Foreign} : start_image(handle)
     \/ \E handle \in Handles \cup {NullHandle, Foreign}, pair \in Pairs :
          install_protocol_interface(handle, pair) /\ UNCHANGED <<infos, loaded>>

ImageSpec == ImageInit /\ [][ImageNext]_ivars

-----------------------------------------------------------------------------
(* Properties *)

\* start_image runs the image that was loaded with this handle, whatever was loaded
\* and installed since, and nothing for a handle load_image did not return.
StartRunsLoaded ==
  (last.op = "start" /\ last.status = "STARTED") =>
    /\ last.handle \in DOMAIN loaded
    /\ last.ran = loaded[last.handle].base + loaded[last.handle].source.address_of_entry_point

\* An image handle is complete or not there at all, although the results of two of
\* its three installations are ignored: its two protocols name the same image.
NoHalfImages ==
  \A h \in Handles :
    LET info == get_protocol(db, h, ImageInfoGuid)
        image == get_protocol(db, h, LoadedImageGuid)
    IN  /\ (info # 0) = (image # 0)
        /\ info # 0 => h \in DOMAIN loaded /\ db[h][info].interface = db[h][image].interface

\* The image behind a handle that load_image returned is the whole file, each section
\* in its place and each address in it moved once, in all the blocks of the relocation
\* directory and no further; the zeroes written behind a section spoil no other.
ImagesComplete ==
  \A h \in DOMAIN loaded :
    LET info == infos[db[h][get_protocol(db, h, ImageInfoGuid)].interface]
    IN  IsLoaded(loaded[h].source, loaded[h].base, info.memory)

\* A loaded image has a handle for its device, with the path it was loaded from
\* without the file; only an image that took the last handle has none.
DeviceHandles ==
  \A k \in DOMAIN infos :
    LET h == infos[k].device_handle
    IN  IF h = NullHandle THEN Len(db) = MaxHandles
        ELSE /\ h \notin DOMAIN loaded
             /\ DevicePathOf(h) \in {drop_file_path_media_device_path(infos[k].path), Stray}
=============================================================================
