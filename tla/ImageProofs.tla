---------------------------- MODULE ImageProofs ----------------------------
(***************************************************************************)
(* Proofs about the images behind handles, for any limits, protocols and   *)
(* files.  The inductive invariant is ImageInv: a handle has both          *)
(* protocols of an image or none, of an image that load_image loaded       *)
(* completely and returned that handle for.                                *)
(***************************************************************************)
EXTENDS LoadedImage, HandleProofs

\* Every leaf is tried with Zenon, with the SMT solver, and with Zenon for longer.
USE ZenonT(2), SMTT(30), ZenonT(30)

-----------------------------------------------------------------------------
(* Images *)

\* What a database with images has in it.
ImageProtocol ==
  [guid : Guids \cup {DevicePathGuid, ImageInfoGuid, LoadedImageGuid},
   interface : Interfaces \cup Paths \cup Nat \cup {Stray}
                 \cup {drop_file_path_media_device_path(p) : p \in ImagePaths}]

IsSeq(s) == \E S : s \in Seq(S)

\* Handle h has both protocols of an image or none, and those are of an image that load_image
\* returned it for.
ImageOn(d, inf, ld, h) ==
  LET info == get_protocol(d, h, ImageInfoGuid)
      image == get_protocol(d, h, LoadedImageGuid)
      k == d[h][info].interface
  IN  /\ (info # 0) = (image # 0)
      /\ info # 0 => /\ h \in DOMAIN ld /\ k = d[h][image].interface /\ k \in 1 .. Len(inf)
                     /\ inf[k].entry = ld[h].base + ld[h].source.address_of_entry_point

\* Image k has a device handle, which is no image, unless the handles ran out.
DeviceOf(d, inf, ld, k) ==
  LET h == inf[k].device_handle
      i == get_protocol(d, h, DevicePathGuid)
  IN  IF h = NullHandle THEN Len(d) = MaxHandles
      ELSE /\ h \in DOMAIN d /\ h \notin DOMAIN ld /\ i # 0
           /\ d[h][i].interface \in {drop_file_path_media_device_path(inf[k].path), Stray}

ImageInv ==
  /\ db \in Seq(Seq(ImageProtocol)) /\ Len(db) <= MaxHandles /\ IsSeq(infos) /\ DOMAIN loaded \subseteq DOMAIN db
  /\ \A h \in DOMAIN db : ImageOn(db, infos, loaded, h)
  /\ \A k \in 1 .. Len(infos) : DeviceOf(db, infos, loaded, k)
  /\ StartRunsLoaded

\* An installation of something else leaves images and devices alone.
LEMMA ImageKept ==
  ASSUME NEW E, NEW d \in Seq(Seq(E)), NEW handle, NEW pair \in E, NEW r, Installed(d, handle, <<pair>>, r),
         pair.guid \notin {ImageInfoGuid, LoadedImageGuid}, NEW inf, NEW ld,
         NEW h \in DOMAIN r.db, h \in DOMAIN d => ImageOn(d, inf, ld, h)
  PROVE  ImageOn(r.db, inf, ld, h)
<1>. DEFINE pairs == <<pair>>
<1>1. /\ pairs \in Seq(E) /\ \A j \in 1 .. Len(pairs) : pairs[j] = pair
      /\ Installed(d, handle, pairs, r)
  OBVIOUS
<1>. HIDE DEF pairs
<1>2. ASSUME NEW g \in {ImageInfoGuid, LoadedImageGuid}
      PROVE  \/ ~ HasProtocol(r.db, h, g) /\ ~ HasProtocol(d, h, g)
             \/ HasProtocol(r.db, h, g) /\ HasProtocol(d, h, g) /\ SameFirst(d, r.db, h, g)
  <2>1. CASE HasProtocol(d, h, g)
    BY <1>1, <2>1, InstalledKeeps
  <2>2. CASE ~ HasProtocol(d, h, g)
    <3>1. \A j \in 1 .. Len(pairs) : pairs[j].guid # g
      BY <1>1
    <3>. QED BY <1>1, <2>2, <3>1, InstalledOthers
  <2>. QED BY <2>1, <2>2
<1>. QED BY <1>2, Zenon DEF ImageOn, HasProtocol, SameFirst

LEMMA DeviceKept ==
  ASSUME NEW E, NEW d \in Seq(Seq(E)), NEW handle, NEW pairs \in Seq(E), NEW r, Installed(d, handle, pairs, r),
         Len(r.db) <= MaxHandles, NEW inf, NEW ld, NEW k, DeviceOf(d, inf, ld, k)
  PROVE  DeviceOf(r.db, inf, ld, k)
<1>. DEFINE h == inf[k].device_handle
            i == get_protocol(d, h, DevicePathGuid)
<1>1. Grown(d, r.handle, pairs, r.db)
  BY InstalledKind
<1>2. CASE h = NullHandle
  <2>1. Len(d) = MaxHandles /\ MaxHandles \in Nat
    BY <1>2, HandleAssumption DEF DeviceOf
  <2>2. ~ Len(d) < MaxHandles
    BY <2>1
  <2>3. Len(r.db) = MaxHandles
    BY <1>1, <2>1, <2>2, Zenon DEF Grown
  <2>. QED BY <1>2, <2>3, Zenon DEF DeviceOf
<1>3. CASE h # NullHandle
  <2>1. /\ h \in DOMAIN d /\ h \notin DOMAIN ld /\ i # 0
        /\ d[h][i].interface \in {drop_file_path_media_device_path(inf[k].path), Stray}
    BY <1>3, Zenon DEF DeviceOf
  <2>. HIDE DEF h
  <2>2. HasProtocol(d, h, DevicePathGuid)
    BY <2>1 DEF HasProtocol
  <2>3. HasProtocol(r.db, h, DevicePathGuid) /\ SameFirst(d, r.db, h, DevicePathGuid)
    BY <2>2, InstalledKeeps
  <2>. QED BY <1>3, <2>1, <2>3, Zenon DEF DeviceOf, HasProtocol, SameFirst, h
<1>. QED BY <1>2, <1>3

LEMMA AppendedSeq ==
  ASSUME NEW s, IsSeq(s), NEW e
  PROVE  /\ IsSeq(Append(s, e)) /\ Len(s) \in Nat /\ Len(Append(s, e)) = Len(s) + 1
         /\ Append(s, e)[Len(s) + 1] = e /\ \A i \in 1 .. Len(s) : Append(s, e)[i] = s[i]
<1>1. PICK S : s \in Seq(S)
  BY DEF IsSeq
<1>. DEFINE T == S \cup {e}
<1>2. s \in Seq(T) /\ e \in T
  BY <1>1
<1>. HIDE DEF T
<1>3. Append(s, e) \in Seq(T)
  BY <1>2
<1>4. /\ Len(s) \in Nat /\ Len(Append(s, e)) = Len(s) + 1
      /\ Append(s, e)[Len(s) + 1] = e /\ \A i \in 1 .. Len(s) : Append(s, e)[i] = s[i]
  BY <1>2
<1>. QED BY <1>3, <1>4 DEF IsSeq

\* The image got a handle of its own with both protocols, and its device another one if
\* there was one left.
ImageAdded(d, k, device, r) ==
  LET n == Len(d) IN
  /\ r.status = "SUCCESS" /\ r.image = n + 1 /\ n < MaxHandles
  /\ \A h \in DOMAIN d : h \in DOMAIN r.db /\ r.db[h] = d[h]
  /\ DOMAIN r.db = 1 .. Len(r.db)
  /\ r.db[n + 1] = <<[guid |-> ImageInfoGuid, interface |-> k], [guid |-> LoadedImageGuid, interface |-> k]>>
  /\ \/ r.device = NullHandle /\ Len(r.db) = n + 1 /\ n + 1 = MaxHandles
     \/ /\ r.device = n + 2 /\ Len(r.db) = n + 2 /\ n + 2 <= MaxHandles
        /\ r.db[n + 2] = <<[guid |-> DevicePathGuid, interface |-> device]>>

LEMMA InstallsResult ==
  ASSUME NEW E, db \in Seq(Seq(E)), Len(db) <= MaxHandles, NEW k, NEW device,
         [guid |-> ImageInfoGuid, interface |-> k] \in E, [guid |-> LoadedImageGuid, interface |-> k] \in E,
         [guid |-> DevicePathGuid, interface |-> device] \in E,
         NEW r, r = Installs(k, device)
  PROVE  \/ r.db \in Seq(Seq(E)) /\ ImageAdded(db, k, device, r)
         \/ r.status # "SUCCESS" /\ r.db = db
<1>. DEFINE a == [guid |-> ImageInfoGuid, interface |-> k]
            b == [guid |-> DevicePathGuid, interface |-> device]
            c == [guid |-> LoadedImageGuid, interface |-> k]
            n == Len(db)
            info == InstallProtocol(db, NullHandle, a)
            dev == InstallProtocol(info.db, NullHandle, b)
            image == InstallProtocol(dev.db, info.handle, c)
<1>1. /\ r.status = image.status /\ r.image = image.handle /\ r.device = dev.handle /\ r.db = image.db
      /\ a \in E /\ b \in E /\ c \in E /\ c.guid # a.guid
  BY ImageAssumption DEF Installs
<1>2. /\ n \in Nat /\ DOMAIN db = 1 .. n /\ MaxHandles \in Nat /\ n <= MaxHandles
      /\ MaxProtocols \in Nat /\ MaxProtocols >= 2
  BY HandleAssumption, ImageAssumption
<1>. HIDE DEF a, b, c
<1>3. \/ info.db \in Seq(Seq(E)) /\ OneAdded(db, <<a>>, info)
      \/ info.status # "SUCCESS" /\ info.handle = NullHandle /\ info.db = db /\ n >= MaxHandles
  BY <1>1, NewHandle
<1>4. CASE info.status # "SUCCESS" /\ info.handle = NullHandle /\ info.db = db /\ n >= MaxHandles
  <2>. HIDE DEF info
  <2>1. ~ OneAdded(db, <<b>>, dev)
    BY <1>2, <1>4 DEF OneAdded
  <2>2. dev.db = db
    BY <1>1, <1>4, <2>1, NewHandle
  <2>. HIDE DEF dev
  <2>3. ~ OneAdded(db, <<c>>, image)
    BY <1>2, <1>4 DEF OneAdded
  <2>4. image.status # "SUCCESS" /\ image.db = db
    BY <1>1, <1>4, <2>2, <2>3, NewHandle
  <2>. QED BY <1>1, <2>4
<1>5. CASE info.db \in Seq(Seq(E)) /\ OneAdded(db, <<a>>, info)
  <2>. HIDE DEF info
  <2>1. \/ dev.db \in Seq(Seq(E)) /\ OneAdded(info.db, <<b>>, dev)
        \/ dev.handle = NullHandle /\ dev.db = info.db /\ Len(info.db) >= MaxHandles
    BY <1>1, <1>5, NewHandle
  <2>. HIDE DEF dev
  <2>2. /\ info.handle = n + 1 /\ Len(info.db) = n + 1 /\ n < MaxHandles /\ info.db[n + 1] = <<a>>
        /\ DOMAIN info.db = 1 .. n + 1 /\ \A h \in DOMAIN db : h \in DOMAIN info.db /\ info.db[h] = db[h]
    BY <1>5 DEF OneAdded
  <2>3. /\ dev.db \in Seq(Seq(E)) /\ dev.db[n + 1] = <<a>> /\ n + 1 \in DOMAIN dev.db
        /\ DOMAIN dev.db = 1 .. Len(dev.db)
        /\ \A h \in DOMAIN db : h \in DOMAIN dev.db /\ dev.db[h] = db[h]
        /\ \/ dev.handle = NullHandle /\ Len(dev.db) = n + 1 /\ n + 1 >= MaxHandles
           \/ dev.handle = (n + 1) + 1 /\ Len(dev.db) = (n + 1) + 1 /\ dev.db[(n + 1) + 1] = <<b>> /\ n + 1 < MaxHandles
    <3>1. n + 1 \in 1 .. n + 1
      BY <1>2
    <3>. QED BY <1>5, <2>1, <2>2, <3>1, Zenon DEF OneAdded
  <2>4. Installed(dev.db, n + 1, <<c>>, image) \/ Refused(dev.db, n + 1, <<c>>, image)
    BY <1>1, <2>2, <2>3, InstallOne
  <2>5. ~ Refused(dev.db, n + 1, <<c>>, image)
    <3>1. ~ Duplicates(<<a>>, <<c>>)
      BY <1>1 DEF Duplicates
    <3>2. ~ Len(<<a>>) + Len(<<c>>) > MaxProtocols
      BY <1>2
    <3>. QED BY <2>3, <3>1, <3>2, Zenon DEF Refused
  <2>. HIDE DEF image
  <2>6. /\ image.db \in Seq(Seq(E)) /\ image.handle = n + 1 /\ image.status = "SUCCESS"
        /\ Grown(dev.db, n + 1, <<c>>, image.db)
    <3>1. <<c>> \in Seq(E) /\ dev.db \in Seq(Seq(E)) /\ Installed(dev.db, n + 1, <<c>>, image)
      BY <1>1, <2>3, <2>4, <2>5
    <3>2. image.db \in Seq(Seq(E)) /\ Grown(dev.db, image.handle, <<c>>, image.db)
      BY <3>1, InstalledKind, Zenon
    <3>3. n + 1 # NullHandle
      BY <1>2 DEF NullHandle
    <3>4. image.status = "SUCCESS" /\ image.handle = n + 1
      BY <2>4, <2>5, <3>3, Zenon DEF Installed
    <3>. QED BY <3>2, <3>4
  <2>7. n + 1 # Len(dev.db) + 1
    BY <1>2, <2>3
  <2>8. /\ Len(image.db) = Len(dev.db) /\ image.db[n + 1] = <<a>> \o <<c>> /\ DOMAIN image.db = 1 .. Len(image.db)
        /\ \A h \in DOMAIN dev.db : h \in DOMAIN image.db /\ (h # n + 1 => image.db[h] = dev.db[h])
    BY <2>3, <2>6, <2>7, Zenon DEF Grown
  <2>9. <<a>> \o <<c>> = <<a, c>>
    BY TwoPairs
  <2>10. \A h \in DOMAIN db : h # n + 1
    BY <1>2
  <2>11. \A h \in DOMAIN db : h \in DOMAIN image.db /\ image.db[h] = db[h]
    BY <2>3, <2>8, <2>10, Zenon
  <2>12. \/ dev.handle = NullHandle /\ Len(image.db) = n + 1 /\ n + 1 = MaxHandles
         \/ /\ dev.handle = n + 2 /\ Len(image.db) = n + 2 /\ n + 2 <= MaxHandles
            /\ image.db[n + 2] = <<b>>
    <3>1. (n + 1) + 1 = n + 2 /\ n + 2 # n + 1 /\ n + 2 \in 1 .. n + 2
      BY <1>2
    <3>2. n + 1 >= MaxHandles => n + 1 = MaxHandles
      BY <1>2, <2>2
    <3>3. n + 1 < MaxHandles => n + 2 <= MaxHandles
      BY <1>2
    <3>. QED BY <2>3, <2>8, <3>1, <3>2, <3>3, Zenon
  <2>13. ImageAdded(db, k, device, r)
    BY <1>1, <2>2, <2>6, <2>8, <2>9, <2>11, <2>12, Zenon DEF ImageAdded, a, b, c
  <2>. QED BY <1>1, <2>6, <2>13
<1>. QED BY <1>3, <1>4, <1>5

\* The handles behind the n first ones.
LEMMA Beyond ==
  ASSUME NEW n \in Nat
  PROVE  /\ n + 1 # 0 /\ n + 2 # 0 /\ n + 2 # n + 1 /\ 1 # 0 /\ 2 # 0
         /\ n + 1 \in 1 .. n + 1 /\ n + 1 \in 1 .. n + 2 /\ n + 2 \in 1 .. n + 2
         /\ \A h \in 1 .. n : h # 0 /\ h # n + 1 /\ h # n + 2 /\ h \in 1 .. n + 1 /\ h \in 1 .. n + 2
         /\ \A h \in 1 .. n + 1 : h \in 1 .. n \/ h = n + 1
         /\ \A h \in 1 .. n + 2 : h \in 1 .. n \/ h = n + 1 \/ h = n + 2
OBVIOUS

\* Handle h has the protocols of image k, and handle j the device path.
AddedFound(d, h, k, j, device) ==
  /\ h \in DOMAIN d
  /\ get_protocol(d, h, ImageInfoGuid) = 1 /\ d[h][1].interface = k
  /\ get_protocol(d, h, LoadedImageGuid) = 2 /\ d[h][2].interface = k
  /\ j \in DOMAIN d =>
       /\ ~ HasProtocol(d, j, ImageInfoGuid) /\ ~ HasProtocol(d, j, LoadedImageGuid)
       /\ get_protocol(d, j, DevicePathGuid) = 1 /\ d[j][1].interface = device

\* The image that was added is found by both its GUIDs, its device by that of device paths.
LEMMA AddedProtocols ==
  ASSUME NEW E, NEW d, NEW k, NEW device, NEW r, r.db \in Seq(Seq(E)), ImageAdded(d, k, device, r),
         Len(d) \in Nat
  PROVE  AddedFound(r.db, Len(d) + 1, k, Len(d) + 2, device)
<1>. DEFINE n == Len(d)
            a == [guid |-> ImageInfoGuid, interface |-> k]
            c == [guid |-> LoadedImageGuid, interface |-> k]
            b == [guid |-> DevicePathGuid, interface |-> device]
            s == <<a, c>>
            t == <<b>>
<1>1. /\ DOMAIN r.db = 1 .. Len(r.db) /\ r.db[n + 1] = s
      /\ Len(r.db) = n + 1 \/ Len(r.db) = n + 2
      /\ Len(r.db) = n + 2 => r.db[n + 2] = t
  BY Beyond DEF ImageAdded
<1>2. ImageInfoGuid # LoadedImageGuid /\ ImageInfoGuid # DevicePathGuid /\ LoadedImageGuid # DevicePathGuid
  BY ImageAssumption
<1>3. Len(s) = 2 /\ s[1] = a /\ s[2] = c /\ Len(t) = 1 /\ t[1] = b
  OBVIOUS
<1>4. /\ a.guid = ImageInfoGuid /\ c.guid = LoadedImageGuid /\ b.guid = DevicePathGuid
      /\ a.interface = k /\ c.interface = k /\ b.interface = device
  OBVIOUS
<1>. HIDE DEF a, b, c, s, t
<1>5. n + 1 \in DOMAIN r.db
  BY <1>1
<1>6. IsFirst(s, ImageInfoGuid, 1) /\ IsFirst(s, LoadedImageGuid, 2)
  BY <1>2, <1>3, <1>4 DEF IsFirst
<1>7. get_protocol(r.db, n + 1, ImageInfoGuid) = 1
  BY <1>1, <1>5, <1>6, FirstProtocol
<1>8. get_protocol(r.db, n + 1, LoadedImageGuid) = 2
  BY <1>1, <1>5, <1>6, FirstProtocol
<1>9. ASSUME n + 2 \in DOMAIN r.db
      PROVE  /\ ~ HasProtocol(r.db, n + 2, ImageInfoGuid) /\ ~ HasProtocol(r.db, n + 2, LoadedImageGuid)
             /\ get_protocol(r.db, n + 2, DevicePathGuid) = 1 /\ r.db[n + 2][1].interface = device
  <2>1. n + 2 \in DOMAIN r.db /\ r.db[n + 2] = t
    BY <1>1, <1>9
  <2>2. IsFirst(t, DevicePathGuid, 1) /\ \A i \in 1 .. Len(t) : t[i].guid = DevicePathGuid
    BY <1>3, <1>4 DEF IsFirst
  <2>3. get_protocol(r.db, n + 2, DevicePathGuid) = 1
    BY <2>1, <2>2, FirstProtocol
  <2>4. ASSUME NEW g \in {ImageInfoGuid, LoadedImageGuid} PROVE ~ HasProtocol(r.db, n + 2, g)
    <3>1. g # DevicePathGuid
      BY <1>2
    <3>2. \A i : ~ IsFirst(t, g, i)
      BY <2>2, <3>1 DEF IsFirst
    <3>3. IsFirst(t, g, get_protocol(r.db, n + 2, g)) \/ get_protocol(r.db, n + 2, g) = 0
      BY <2>1, GetProtocol
    <3>. QED BY <3>2, <3>3, Zenon DEF HasProtocol
  <2>. QED BY <1>3, <1>4, <2>1, <2>3, <2>4
<1>. QED BY <1>1, <1>3, <1>4, <1>5, <1>7, <1>8, <1>9, Zenon DEF AddedFound

LEMMA LoadedOK ==
  ASSUME ImageInv, NEW path, NEW buffer, NEW base, NEW image, NEW device, NEW done,
         image.entry = base + buffer.address_of_entry_point,
         device \in {drop_file_path_media_device_path(path), Stray},
         done.db \in Seq(Seq(ImageProtocol)), ImageAdded(db, Len(infos) + 1, device, done),
         LoadSucceeded(path, buffer, base, image, done)
  PROVE  ImageInv'
<1>. DEFINE n == Len(db)
            m == Len(infos)
            x == [entry |-> image.entry, path |-> path, device_handle |-> done.device,
                  base |-> base, memory |-> image.memory]
            y == [source |-> buffer, base |-> base]
<1>1. /\ db \in Seq(Seq(ImageProtocol)) /\ n <= MaxHandles /\ IsSeq(infos) /\ DOMAIN loaded \subseteq DOMAIN db
      /\ \A h \in DOMAIN db : ImageOn(db, infos, loaded, h)
      /\ \A k \in 1 .. m : DeviceOf(db, infos, loaded, k)
  BY DEF ImageInv
<1>2. n \in Nat /\ DOMAIN db = 1 .. n /\ MaxHandles \in Nat
  BY <1>1, HandleAssumption
<1>3. db' = done.db /\ done.image = n + 1 /\ n < MaxHandles
  BY DEF LoadSucceeded, ImageAdded
<1>4. infos' = Append(infos, x) /\ last'.op = "load"
  BY DEF LoadSucceeded
<1>5. DOMAIN loaded' = DOMAIN loaded \cup {n + 1} /\ loaded'[n + 1] = y
  BY <1>3 DEF LoadSucceeded
<1>6. \A h \in DOMAIN loaded : loaded'[h] = loaded[h]
  BY <1>1, <1>2, <1>3 DEF LoadSucceeded
<1>7. /\ IsSeq(infos') /\ m \in Nat /\ Len(infos') = m + 1 /\ infos'[m + 1] = x
      /\ \A i \in 1 .. m : infos'[i] = infos[i]
  BY <1>1, <1>4, AppendedSeq
<1>8. /\ x.entry = base + buffer.address_of_entry_point /\ x.path = path /\ x.device_handle = done.device
      /\ y.source = buffer /\ y.base = base
  OBVIOUS
<1>. HIDE DEF x, y
<1>9. /\ \A h \in DOMAIN db : h \in DOMAIN db' /\ db'[h] = db[h]
      /\ DOMAIN db' = 1 .. Len(db')
      /\ \/ done.device = NullHandle /\ Len(db') = n + 1 /\ n + 1 = MaxHandles
         \/ done.device = n + 2 /\ Len(db') = n + 2 /\ n + 2 <= MaxHandles
  BY <1>3 DEF ImageAdded
<1>. HIDE DEF n, m
<1>0. n # MaxHandles
  BY <1>2, <1>3
<1>10. ASSUME NEW h \in DOMAIN db PROVE ImageOn(db', infos', loaded', h)
  <2>1. db'[h] = db[h] /\ h # n + 1
    BY <1>2, <1>9, Beyond, Zenon
  <2>2. \A g : get_protocol(db', h, g) = get_protocol(db, h, g)
    BY <2>1, Zenon DEF get_protocol
  <2>3. \A k \in 1 .. m : k \in 1 .. m + 1
    BY <1>7, Beyond, Zenon
  <2>4. ImageOn(db, infos, loaded, h)
    BY <1>1
  <2>. QED BY <1>5, <1>6, <1>7, <2>1, <2>2, <2>3, <2>4 DEF ImageOn, m
<1>11. AddedFound(db', n + 1, m + 1, n + 2, device)
  BY <1>2, <1>3, AddedProtocols DEF n, m
<1>12. ImageOn(db', infos', loaded', n + 1)
  <2>1. m + 1 \in 1 .. m + 1 /\ 1 # 0 /\ 2 # 0
    BY <1>7, Beyond, Zenon
  <2>. QED BY <1>5, <1>7, <1>8, <1>11, <2>1, Zenon DEF ImageOn, AddedFound
<1>13. ASSUME n + 2 \in DOMAIN db' PROVE ImageOn(db', infos', loaded', n + 2)
  BY <1>11, <1>13, Zenon DEF ImageOn, HasProtocol, AddedFound
<1>14. ASSUME NEW h \in DOMAIN db' PROVE ImageOn(db', infos', loaded', h)
  <2>1. h \in DOMAIN db \/ h = n + 1 \/ h = n + 2
    BY <1>2, <1>9, <1>14, Beyond, Zenon
  <2>. QED BY <1>10, <1>12, <1>13, <2>1
<1>15. ASSUME NEW k \in 1 .. m PROVE DeviceOf(db', infos', loaded', k)
  <2>. DEFINE h == infos[k].device_handle
  <2>1. DeviceOf(db, infos, loaded, k) /\ n # MaxHandles /\ infos'[k] = infos[k]
    BY <1>0, <1>1, <1>7, Zenon
  <2>2. /\ h # NullHandle /\ h \in DOMAIN db /\ h \notin DOMAIN loaded
        /\ get_protocol(db, h, DevicePathGuid) # 0
        /\ db[h][get_protocol(db, h, DevicePathGuid)].interface \in {drop_file_path_media_device_path(infos[k].path), Stray}
    BY <2>1, Zenon DEF DeviceOf, n
  <2>3. db'[h] = db[h] /\ h \in DOMAIN db' /\ h # n + 1
    BY <1>2, <1>9, <2>2, Beyond, Zenon
  <2>4. get_protocol(db', h, DevicePathGuid) = get_protocol(db, h, DevicePathGuid)
    BY <2>3, Zenon DEF get_protocol
  <2>. QED BY <1>5, <2>1, <2>2, <2>3, <2>4, Zenon DEF DeviceOf
<1>16. DeviceOf(db', infos', loaded', m + 1)
  <2>1. CASE done.device = NullHandle
    <3>1. Len(db') = MaxHandles
      BY <1>2, <1>9, <2>1, Beyond, Zenon DEF NullHandle
    <3>. QED BY <1>7, <1>8, <2>1, <3>1, Zenon DEF DeviceOf
  <2>2. CASE done.device # NullHandle
    <3>1. done.device = n + 2 /\ n + 2 \in DOMAIN db'
      BY <1>2, <1>9, <2>2, Beyond, Zenon
    <3>2. n + 2 \notin DOMAIN loaded' /\ 1 # 0
      BY <1>1, <1>2, <1>5, Beyond, Zenon
    <3>. QED BY <1>7, <1>8, <1>11, <2>2, <3>1, <3>2, Zenon DEF DeviceOf, AddedFound
  <2>. QED BY <2>1, <2>2
<1>17. ASSUME NEW k \in 1 .. Len(infos') PROVE DeviceOf(db', infos', loaded', k)
  <2>1. k \in 1 .. m \/ k = m + 1
    BY <1>7, Beyond, Zenon
  <2>. QED BY <1>15, <1>16, <2>1
<1>18. Len(db') <= MaxHandles /\ DOMAIN loaded' \subseteq DOMAIN db'
  <2>1. Len(db') <= MaxHandles
    BY <1>2, <1>9
  <2>2. n + 1 \in DOMAIN db' /\ \A h \in DOMAIN db : h \in DOMAIN db'
    BY <1>9, <1>11, Zenon DEF AddedFound
  <2>. QED BY <1>1, <1>5, <2>1, <2>2, Zenon
<1>19. StartRunsLoaded'
  BY <1>4 DEF StartRunsLoaded
<1>. QED BY <1>3, <1>7, <1>14, <1>17, <1>18, <1>19 DEF ImageInv

\* A step that leaves the images and their handles alone.
LEMMA ImagesUnchanged ==
  ASSUME ImageInv, UNCHANGED <<db, infos, loaded>>, StartRunsLoaded'
  PROVE  ImageInv'
BY Zenon DEF ImageInv

LEMMA LoadImageOK ==
  ASSUME ImageInv, NEW path \in ImagePaths, NEW buffer, NEW pool, NEW base, LoadImage(path, buffer, pool, base)
  PROVE  ImageInv'
<1>. DEFINE size == peloader_get_image_info(buffer)
            image == IF size = 0 THEN [entry |-> 0]
                     ELSE peloader_load_image([a \in 0 .. size - 1 |-> Old], buffer, base)
            refused == ~ pool[1] \/ ~ pool[2] \/ image.entry = 0
            device == IF pool[3] THEN drop_file_path_media_device_path(path) ELSE Stray
            k == Len(infos) + 1
            done == Installs(k, device)
<1>1. \/ refused /\ LoadFailed(db)
      \/ ~ refused /\ ~ pool[3] /\ Stop("FAULT")
      \/ /\ ~ refused /\ Len(infos) < MaxImages
         /\ IF done.status = "SUCCESS" THEN LoadSucceeded(path, buffer, base, image, done)
            ELSE LoadFailed(done.db)
  BY Zenon DEF LoadImage
<1>2. ASSUME LoadFailed(db) PROVE ImageInv'
  <2>1. UNCHANGED <<db, infos, loaded>> /\ last'.op = "load"
    BY <1>2 DEF LoadFailed
  <2>. QED BY <2>1, ImagesUnchanged DEF StartRunsLoaded
<1>3. CASE ~ refused /\ ~ pool[3] /\ Stop("FAULT")
  <2>1. UNCHANGED <<db, infos, loaded>> /\ last'.op = "load"
    BY <1>3 DEF Stop
  <2>. QED BY <2>1, ImagesUnchanged DEF StartRunsLoaded
<1>4. ~ refused => image.entry = base + buffer.address_of_entry_point
  <2>1. ASSUME image.entry # 0 PROVE image.entry = base + buffer.address_of_entry_point
    <3>1. size # 0
      BY <2>1
    <3>2. image = peloader_load_image([a \in 0 .. size - 1 |-> Old], buffer, base)
      BY <3>1
    <3>. HIDE DEF image
    <3>. QED BY <2>1, <3>2 DEF peloader_load_image
  <2>. QED BY <2>1
<1>. HIDE DEF image, refused, size
<1>5. device \in {drop_file_path_media_device_path(path), Stray}
  OBVIOUS
<1>. HIDE DEF device
<1>6. /\ db \in Seq(Seq(ImageProtocol)) /\ Len(db) <= MaxHandles
      /\ [guid |-> ImageInfoGuid, interface |-> k] \in ImageProtocol
      /\ [guid |-> LoadedImageGuid, interface |-> k] \in ImageProtocol
      /\ [guid |-> DevicePathGuid, interface |-> device] \in ImageProtocol
  <2>1. k \in Nat
    BY AppendedSeq DEF ImageInv
  <2>. HIDE DEF k
  <2>. QED BY <1>5, <2>1 DEF ImageInv, ImageProtocol
<1>7. \/ done.db \in Seq(Seq(ImageProtocol)) /\ ImageAdded(db, k, device, done)
      \/ done.status # "SUCCESS" /\ done.db = db
  BY <1>6, InstallsResult
<1>. HIDE DEF done
<1>8. CASE /\ ~ refused /\ done.status = "SUCCESS" /\ LoadSucceeded(path, buffer, base, image, done)
           /\ done.db \in Seq(Seq(ImageProtocol)) /\ ImageAdded(db, k, device, done)
  BY <1>4, <1>5, <1>8, LoadedOK
<1>9. ImageAdded(db, k, device, done) => done.status = "SUCCESS"
  BY DEF ImageAdded
<1>. QED BY <1>1, <1>2, <1>3, <1>7, <1>8, <1>9, Zenon

LEMMA StartOK ==
  ASSUME ImageInv, NEW handle \in Handles \cup {Foreign}, start_image(handle)
  PROVE  ImageInv'
<1>. DEFINE i == IF handle = Foreign THEN 0 ELSE get_protocol(db, handle, ImageInfoGuid)
            k == db[handle][i].interface
<1>1. /\ UNCHANGED <<db, infos, loaded>> /\ last'.handle = handle
      /\ last'.status = IF i = 0 THEN "INVALID_PARAMETER" ELSE "STARTED"
      /\ last'.ran = IF i = 0 THEN 0 ELSE infos[k].entry
  BY DEF start_image
<1>2. ASSUME i # 0
      PROVE  handle \in DOMAIN loaded /\ infos[k].entry = loaded[handle].base + loaded[handle].source.address_of_entry_point
  <2>1. handle \in DOMAIN db /\ i = get_protocol(db, handle, ImageInfoGuid)
    BY <1>2 DEF Handles
  <2>2. ImageOn(db, infos, loaded, handle)
    BY <2>1 DEF ImageInv
  <2>. QED BY <1>2, <2>1, <2>2, Zenon DEF ImageOn
<1>. HIDE DEF i, k
<1>3. StartRunsLoaded'
  <2>1. CASE i = 0
    BY <1>1, <2>1 DEF StartRunsLoaded
  <2>2. CASE i # 0
    BY <1>1, <1>2, <2>2 DEF StartRunsLoaded
  <2>. QED BY <2>1, <2>2
<1>. QED BY <1>1, <1>3, ImagesUnchanged

LEMMA ImageInstallOK ==
  ASSUME ImageInv, NEW handle \in Handles \cup {NullHandle, Foreign}, NEW pair \in Pairs,
         install_protocol_interface(handle, pair), UNCHANGED <<infos, loaded>>
  PROVE  ImageInv'
<1>1. pair \in ImageProtocol /\ pair.guid \notin {ImageInfoGuid, LoadedImageGuid}
  BY ImageAssumption DEF Pairs, ImageProtocol
<1>2. /\ db \in Seq(Seq(ImageProtocol)) /\ Len(db) <= MaxHandles /\ IsSeq(infos) /\ DOMAIN loaded \subseteq DOMAIN db
      /\ \A h \in DOMAIN db : ImageOn(db, infos, loaded, h)
      /\ \A k \in 1 .. Len(infos) : DeviceOf(db, infos, loaded, k)
  BY DEF ImageInv
<1>3. PICK r : Served("install", <<pair>>, handle, <<pair>>, r)
  BY <1>1, <1>2, ServedOne
<1>4. db' = r.db /\ last'.op = "install"
  BY <1>3 DEF Served
<1>5. StartRunsLoaded'
  BY <1>4 DEF StartRunsLoaded
<1>6. CASE r.db = db
  BY <1>4, <1>5, <1>6, ImagesUnchanged
<1>7. CASE Installed(db, handle, <<pair>>, r)
  <2>. DEFINE pairs == <<pair>>
  <2>1. pairs \in Seq(ImageProtocol) /\ Installed(db, handle, pairs, r)
    BY <1>1, <1>7
  <2>2. \A h \in DOMAIN r.db : ImageOn(r.db, infos, loaded, h)
    BY <1>1, <1>2, <1>7, ImageKept
  <2>. HIDE DEF pairs
  <2>3. r.db \in Seq(Seq(ImageProtocol)) /\ Grown(db, r.handle, pairs, r.db)
    BY <1>2, <2>1, InstalledKind
  <2>4. Len(r.db) <= MaxHandles
    <3>1. Len(db) \in Nat /\ MaxHandles \in Nat
      BY <1>2, HandleAssumption
    <3>2. Len(r.db) = Len(db) \/ (Len(r.db) = Len(db) + 1 /\ Len(db) < MaxHandles)
      BY <2>3, Zenon DEF Grown
    <3>3. ASSUME NEW l \in Nat, l < MaxHandles PROVE l + 1 <= MaxHandles
      BY <3>1, <3>3
    <3>. QED BY <1>2, <3>1, <3>2, <3>3, Zenon
  <2>5. \A k \in 1 .. Len(infos) : DeviceOf(r.db, infos, loaded, k)
    BY <1>2, <2>1, <2>4, DeviceKept
  <2>6. DOMAIN loaded \subseteq DOMAIN r.db
    BY <1>2, <2>3, Zenon DEF Grown
  <2>. QED BY <1>2, <1>4, <1>5, <2>2, <2>3, <2>4, <2>5, <2>6, Zenon DEF ImageInv
<1>. QED BY <1>3, <1>6, <1>7 DEF Served

\* What load_image, start_image and the installations in between keep.
LEMMA ImagesSafe == ImageSpec => [](StartRunsLoaded /\ NoHalfImages /\ DeviceHandles)
<1>1. ImageInit => ImageInv
  <2>. SUFFICES ASSUME ImageInit PROVE ImageInv
    OBVIOUS
  <2>1. db = << >> /\ infos = << >> /\ loaded = << >> /\ last.op = "none"
    BY DEF ImageInit, Init
  <2>2. << >> \in Seq(Seq(ImageProtocol)) /\ DOMAIN << >> = {} /\ Len(<< >>) = 0 /\ 1 .. 0 = {}
    OBVIOUS
  <2>3. IsSeq(<< >>) /\ 0 <= MaxHandles
    BY <2>2, HandleAssumption DEF IsSeq
  <2>4. StartRunsLoaded
    BY <2>1 DEF StartRunsLoaded
  <2>. QED BY <2>1, <2>2, <2>3, <2>4, Zenon DEF ImageInv
<1>2. ImageInv /\ [ImageNext]_ivars => ImageInv'
  <2>. SUFFICES ASSUME ImageInv, [ImageNext]_ivars PROVE ImageInv'
    OBVIOUS
  <2>1. CASE UNCHANGED ivars
    BY <2>1, ImagesUnchanged DEF ivars, StartRunsLoaded, ImageInv
  <2>2. ASSUME NEW status, Stop(status) PROVE ImageInv'
    <3>1. UNCHANGED <<db, infos, loaded>> /\ last'.op = "load"
      BY <2>2 DEF Stop
    <3>. QED BY <3>1, ImagesUnchanged DEF StartRunsLoaded
  <2>3. ASSUME NEW path \in ImagePaths, NEW source, load_image(path, source) PROVE ImageInv'
    BY <2>2, <2>3, LoadImageOK, Zenon DEF load_image
  <2>. QED BY <2>1, <2>3, StartOK, ImageInstallOK, Zenon DEF ImageNext
<1>3. ImageInv => StartRunsLoaded /\ NoHalfImages /\ DeviceHandles
  <2>. SUFFICES ASSUME ImageInv PROVE NoHalfImages /\ DeviceHandles
    BY DEF ImageInv
  <2>1. NoHalfImages
    BY Zenon DEF ImageInv, ImageOn, NoHalfImages, Handles
  <2>2. DOMAIN infos = 1 .. Len(infos)
    BY DEF ImageInv, IsSeq
  <2>3. DeviceHandles
    BY <2>2, Zenon DEF ImageInv, DeviceOf, DeviceHandles, DevicePathOf
  <2>. QED BY <2>1, <2>3
<1>. QED BY <1>1, <1>2, <1>3, PTL DEF ImageSpec

\* For any files, limits and order of calls: start_image runs the image that was loaded with
\* its handle.
THEOREM StartsLoadedImage == ImageSpec => []StartRunsLoaded
BY ImagesSafe, PTL

\* An image handle has both its protocols although load_image ignores two of three results.
THEOREM ImagesWhole == ImageSpec => []NoHalfImages
BY ImagesSafe, PTL

\* The device of an image is a handle of its own with the path the image came from.
THEOREM DevicesKept == ImageSpec => []DeviceHandles
BY ImagesSafe, PTL

=============================================================================
