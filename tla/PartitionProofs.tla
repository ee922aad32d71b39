-------------------------- MODULE PartitionProofs --------------------------
(***************************************************************************)
(* Proofs about the start of the firmware, from the partition table to the *)
(* handles, for any table, any sector that cannot be read and any limits.  *)
(* The inductive invariants are PartInv, about wrappers and handles, and   *)
(* ScanInv, about what the two scans of the table have passed.             *)
(***************************************************************************)
EXTENDS Partitions, HandleProofs

\* Every leaf is tried with Zenon, with the SMT solver, and with Zenon for longer.
USE ZenonT(2), SMTT(30), ZenonT(30)

\* A sequence with nothing behind it.
LEMMA ConcatNone ==
  ASSUME NEW S, NEW s \in Seq(S)
  PROVE  s \o << >> = s
OBVIOUS

-----------------------------------------------------------------------------
(* From the partition table to handles.  The three handles of the console  *)
(* come first, then one for each wrapper, one for the whole disk and one   *)
(* for the file system.                                                    *)

PartEntry == [efi : BOOLEAN, guid : Nat, first_lba : Nat, last_lba : Nat]

\* The i-th wrapper, of a partition p.
Wrapped(i, p) == BlockWrapper(i, p.first_lba, p.last_lba, p.guid)

BlockWrappers == {Wrapped(i, p) : i \in Nat, p \in PartEntry}

Pair(guid, interface) == [guid |-> guid, interface |-> interface]

\* A handle with a protocol and a device path.
OnHandle(guid, interface, path) == <<Pair(guid, interface), Pair(DevicePathGuid, path)>>

IsDb(d) == \E E : d \in Seq(Seq(E))

\* The database with the wrappers w and the start f and path p of the file system.
DbShape(d, w, f, p) ==
  /\ IsDb(d) /\ Len(d) <= 5 + Len(w)
  /\ \A h \in DOMAIN d : h <= 3 =>
       \A i \in 1 .. Len(d[h]) : d[h][i].guid \in {TextInput, TextInputEx, TextOutput}
  /\ \A i \in 1 .. Len(w) : 3 + i \in DOMAIN d => d[3 + i] = OnHandle(BlockIo, i, w[i].disk_paths)
  /\ 4 + Len(w) \in DOMAIN d => d[4 + Len(w)] = OnHandle(BlockIo, 0, PciPath)
  /\ 5 + Len(w) \in DOMAIN d => d[5 + Len(w)] = OnHandle(FileSystem, f, p)

\* What is there in each phase: n handles, the partitions ps, their wrappers w, the wrapper
\* d of the disk.
PhaseInv(ph, n, ps, w, d) ==
  /\ ph = "console" => n = 0
  /\ ph \in {"search", "find", "header", "scan"} => n = 3
  /\ ph = "wrap" => n = 3 + Len(w)
  /\ ph = "fs" => n = 4 + Len(w)
  /\ ph = "booted" => n = 5 + Len(w)
  /\ ph # "booted" => n <= 4 + Len(w)
  /\ ph \in {"console", "search", "find", "header", "scan"} => w = << >>
  /\ ph \in {"fs", "booted"} => d.start_lba = 0 /\ Len(w) = Len(ps)

\* The wrappers are those of the partitions, and e is an EFI partition among them, if any is.
WrapInv(ps, w, e) ==
  /\ ps \in Seq(PartEntry) /\ w \in Seq(BlockWrappers)
  /\ Len(w) <= Len(ps) /\ Len(w) < MaxParts
  /\ \A i \in 1 .. Len(w) : w[i] = Wrapped(i, ps[i])
  /\ e \in 0 .. Len(w)
  /\ e = 0 => \A j \in 1 .. Len(w) : ~ ps[j].efi
  /\ e # 0 => ps[e].efi

PartInv ==
  /\ gpt \in Tables
  /\ WrapInv(parts, wrappers, efi_part_id)
  /\ PhaseInv(phase, Len(db), parts, wrappers, whole)
  /\ DbShape(db, wrappers, found, Wrapper(efi_part_id).disk_paths)
  /\ last.op = "blocks" => phase = "booted" /\ ReadsPartition

\* The entries of a table from the first on, read up to c of them: the sector is lba.
EntryOf(g, i) == g.entries[g.first_part_lba + (i - 1) \div PerSector][((i - 1) % PerSector) + 1]
Sized(g) == (g.first_usable_lba - g.first_part_lba) * PerSector

\* Where a scan is: s sectors are behind it.
ScanPlace ==
  phase \in {"find", "scan"} => \E s \in Nat : lba = gpt.first_part_lba + s /\ checked = s * PerSector

\* find_efi_partition has passed c entries.
Passed(g, c) == \A i \in 1 .. c : i # g.part_count /\ ~ EntryOf(g, i).efi

\* f is the start of an EFI partition among those the header counts.
FoundOne(g, f) ==
  \E e \in 1 .. Sized(g) : /\ EntryOf(g, e).efi /\ f = EntryOf(g, e).first_lba
                           /\ g.part_count > 0 => e <= g.part_count

\* get_partitions takes entries of the table only, all of those in use among the first c,
\* and in the end among those the header counts.
FromTable(g, ps) == \A j \in 1 .. Len(ps) : \E i \in 1 .. Sized(g) : ps[j] = EntryOf(g, i)

IsTaken(g, i, ps) == EntryOf(g, i).guid # NoGuid => \E j \in 1 .. Len(ps) : ps[j] = EntryOf(g, i)

TookUpTo(g, c, ps) == \A i \in 1 .. c : IsTaken(g, i, ps)

TookAll(g, ps) == \A i \in 1 .. Sized(g) : i <= g.part_count => IsTaken(g, i, ps)

\* The two scans.
ScanInv ==
  /\ ScanPlace
  /\ phase = "find" => Passed(gpt, checked)
  /\ phase \in {"header", "scan", "wrap", "fs", "booted"} => FoundOne(gpt, found)
  /\ FromTable(gpt, parts)
  /\ phase = "scan" => TookUpTo(gpt, checked, parts)
  /\ phase \in {"wrap", "fs", "booted"} => TookAll(gpt, parts)

LEMMA LargerSeqs ==
  ASSUME NEW E, NEW F, E \subseteq F, NEW d \in Seq(Seq(E))
  PROVE  d \in Seq(Seq(F))
<1>1. ASSUME NEW s \in Seq(E) PROVE s \in Seq(F)
  OBVIOUS
<1>. DEFINE S == Seq(E)
            T == Seq(F)
<1>2. \A s \in S : s \in T
  BY <1>1
<1>. HIDE DEF S, T
<1>3. \A c \in Seq(S) : c \in Seq(T)
  BY <1>2
<1>. QED BY <1>3 DEF S, T

\* A database with a handle more.
OneMoreHandle(d, e, s) ==
  /\ IsDb(e) /\ Len(d) \in Nat /\ Len(e) = Len(d) + 1
  /\ DOMAIN d = 1 .. Len(d) /\ DOMAIN e = 1 .. Len(e)
  /\ e[Len(d) + 1] = s /\ \A h \in DOMAIN d : e[h] = d[h]

LEMMA NewOK ==
  ASSUME NEW d, IsDb(d), Len(d) < MaxHandles, NEW pair, NEW r, r = InstallProtocol(d, NullHandle, pair)
  PROVE  OneMoreHandle(d, r.db, <<pair>>) /\ r.handle = Len(d) + 1
<1>1. PICK E : d \in Seq(Seq(E))
  BY DEF IsDb
<1>. DEFINE F == E \cup {pair}
<1>2. d \in Seq(Seq(F)) /\ pair \in F
  BY <1>1, LargerSeqs
<1>3. Len(d) \in Nat /\ DOMAIN d = 1 .. Len(d) /\ MaxHandles \in Nat
  BY <1>1, HandleAssumption
<1>. HIDE DEF F
<1>4. ~ Len(d) >= MaxHandles
  BY <1>3
<1>5. r.db \in Seq(Seq(F)) /\ OneAdded(d, <<pair>>, r)
  BY <1>2, <1>4, NewHandle, Zenon
<1>6. IsDb(r.db)
  BY <1>5 DEF IsDb
<1>. QED BY <1>3, <1>5, <1>6 DEF OneMoreHandle, OneAdded

LEMMA OneInstalled ==
  ASSUME NEW E, NEW d \in Seq(Seq(E)), NEW h \in DOMAIN d, h # NullHandle, NEW pair \in E, NEW r,
         Installed(d, h, <<pair>>, r)
  PROVE  r.db \in Seq(Seq(E)) /\ Grown(d, r.handle, <<pair>>, r.db) /\ r.handle = h
<1>. DEFINE pairs == <<pair>>
<1>1. pairs \in Seq(E) /\ Installed(d, h, pairs, r)
  OBVIOUS
<1>2. r.handle = h
  BY DEF Installed
<1>. HIDE DEF pairs
<1>3. r.db \in Seq(Seq(E)) /\ Grown(d, r.handle, pairs, r.db)
  BY <1>1, InstalledKind
<1>. QED BY <1>2, <1>3 DEF pairs

\* A second protocol on the handle that was added last.
LEMMA SecondOK ==
  ASSUME NEW d, NEW e, NEW p, NEW q, OneMoreHandle(d, e, <<p>>), p.guid # q.guid,
         NEW r, r = InstallProtocol(e, Len(d) + 1, q)
  PROVE  OneMoreHandle(d, r.db, <<p, q>>) /\ r.handle = Len(d) + 1
<1>1. PICK E : e \in Seq(Seq(E))
  BY DEF IsDb, OneMoreHandle
<1>. DEFINE F == E \cup {q}
            h == Len(d) + 1
<1>2. e \in Seq(Seq(F)) /\ q \in F
  BY <1>1, LargerSeqs
<1>3. /\ Len(d) \in Nat /\ Len(e) = Len(d) + 1 /\ DOMAIN d = 1 .. Len(d) /\ DOMAIN e = 1 .. Len(e)
      /\ e[h] = <<p>> /\ \A k \in DOMAIN d : e[k] = d[k]
  BY DEF OneMoreHandle
<1>4. h \in DOMAIN e /\ h # NullHandle /\ h \notin DOMAIN d
  BY <1>3 DEF NullHandle
<1>. HIDE DEF F, h
<1>5. Installed(e, h, <<q>>, r) \/ Refused(e, h, <<q>>, r)
  BY <1>2, <1>4, InstallOne DEF h
<1>6. ~ Duplicates(<<p>>, <<q>>) /\ Len(<<p>>) + Len(<<q>>) <= MaxProtocols
  BY PartitionAssumption, HandleAssumption DEF Duplicates
<1>7. ~ Refused(e, h, <<q>>, r)
  <2>1. MaxProtocols \in Nat /\ Len(<<p>>) + Len(<<q>>) \in Nat
    BY HandleAssumption
  <2>2. ~ Len(<<p>>) + Len(<<q>>) > MaxProtocols
    BY <1>6, <2>1
  <2>. QED BY <1>3, <1>4, <1>6, <2>2, Zenon DEF Refused
<1>8. Installed(e, h, <<q>>, r)
  BY <1>5, <1>7
<1>9. r.db \in Seq(Seq(F)) /\ Grown(e, r.handle, <<q>>, r.db) /\ r.handle = h
  BY <1>2, <1>4, <1>8, OneInstalled
<1>10. Len(r.db) = Len(e) /\ DOMAIN r.db = DOMAIN e /\ r.db[h] = <<p>> \o <<q>>
  <2>1. h # Len(e) + 1
    BY <1>3 DEF h
  <2>. QED BY <1>3, <1>4, <1>9, <2>1 DEF Grown
<1>11. \A k \in DOMAIN d : r.db[k] = d[k]
  <2>1. \A k \in DOMAIN d : k \in DOMAIN e /\ k # h
    BY <1>3, <1>4
  <2>2. \A k \in DOMAIN e : k # h => r.db[k] = e[k]
    BY <1>9, Zenon DEF Grown
  <2>. QED BY <1>3, <2>1, <2>2, Zenon
<1>12. IsDb(r.db) /\ r.db[h] = <<p, q>>
  BY <1>9, <1>10, TwoPairs DEF IsDb
<1>. QED BY <1>3, <1>9, <1>10, <1>11, <1>12 DEF OneMoreHandle, h

LEMMA PublishOK ==
  ASSUME NEW d, IsDb(d), Len(d) < MaxHandles, NEW guid, guid # DevicePathGuid, NEW interface, NEW path
  PROVE  OneMoreHandle(d, Publish(d, guid, interface, path), OnHandle(guid, interface, path))
<1>. DEFINE p == Pair(guid, interface)
            q == Pair(DevicePathGuid, path)
            new == InstallProtocol(d, NullHandle, p)
            r == InstallProtocol(new.db, new.handle, q)
<1>1. Publish(d, guid, interface, path) = r.db
  BY DEF Publish, Pair
<1>2. p.guid # q.guid
  BY DEF Pair
<1>. HIDE DEF p, q
<1>3. OneMoreHandle(d, new.db, <<p>>) /\ new.handle = Len(d) + 1
  BY NewOK
<1>. HIDE DEF new
<1>4. OneMoreHandle(d, r.db, <<p, q>>)
  BY <1>2, <1>3, SecondOK
<1>. QED BY <1>1, <1>4 DEF OnHandle, p, q


\* How the database grows.
WrapperGrowth(d, e, w, x, v, f, p) ==
  /\ w \in Seq(BlockWrappers) /\ x \in BlockWrappers /\ DbShape(d, w, f, p) /\ Len(d) = 3 + Len(w)
  /\ OneMoreHandle(d, e, OnHandle(BlockIo, Len(w) + 1, x.disk_paths)) /\ v = Append(w, x)

LEMMA WrapperAdded ==
  ASSUME NEW d, NEW e, NEW w, NEW x, NEW v, NEW f, NEW p, WrapperGrowth(d, e, w, x, v, f, p)
  PROVE  \A g, q : DbShape(e, v, g, q) /\ Len(e) = 3 + Len(v)
<1>. SUFFICES ASSUME NEW g, NEW q PROVE DbShape(e, v, g, q) /\ Len(e) = 3 + Len(v)
  OBVIOUS
<1>0. /\ w \in Seq(BlockWrappers) /\ x \in BlockWrappers /\ DbShape(d, w, f, p) /\ Len(d) = 3 + Len(w)
      /\ OneMoreHandle(d, e, OnHandle(BlockIo, Len(w) + 1, x.disk_paths)) /\ v = Append(w, x)
  BY DEF WrapperGrowth
<1>1. /\ Len(d) \in Nat /\ Len(e) = Len(d) + 1 /\ DOMAIN d = 1 .. Len(d) /\ DOMAIN e = 1 .. Len(e)
      /\ e[Len(d) + 1] = OnHandle(BlockIo, Len(w) + 1, x.disk_paths) /\ \A h \in DOMAIN d : e[h] = d[h]
      /\ IsDb(e)
  BY <1>0 DEF OneMoreHandle
<1>2. Len(w) \in Nat /\ Len(v) = Len(w) + 1 /\ v[Len(w) + 1] = x /\ \A i \in 1 .. Len(w) : v[i] = w[i]
  BY <1>0
<1>3. ASSUME NEW h \in DOMAIN e, h <= 3
      PROVE  \A i \in 1 .. Len(e[h]) : e[h][i].guid \in {TextInput, TextInputEx, TextOutput}
  <2>1. h \in DOMAIN d /\ e[h] = d[h]
    BY <1>0, <1>1, <1>2, <1>3
  <2>2. \A i \in 1 .. Len(d[h]) : d[h][i].guid \in {TextInput, TextInputEx, TextOutput}
    BY <1>0, <1>3, <2>1, Zenon DEF DbShape
  <2>. QED BY <2>1, <2>2, Zenon
<1>4. ASSUME NEW i \in 1 .. Len(v)
      PROVE  e[3 + i] = OnHandle(BlockIo, i, v[i].disk_paths)
  <2>1. CASE i \in 1 .. Len(w)
    <3>1. 3 + i \in DOMAIN d
      BY <1>0, <1>1, <1>2, <2>1
    <3>2. e[3 + i] = d[3 + i]
      BY <1>1, <3>1, Zenon
    <3>3. d[3 + i] = OnHandle(BlockIo, i, w[i].disk_paths)
      BY <1>0, <2>1, <3>1, Zenon DEF DbShape
    <3>. QED BY <1>2, <2>1, <3>2, <3>3, Zenon
  <2>2. CASE i = Len(w) + 1
    <3>1. 3 + i = Len(d) + 1
      BY <1>0, <1>1, <1>2, <2>2
    <3>. QED BY <1>1, <1>2, <2>2, <3>1, Zenon
  <2>. QED BY <1>2, <2>1, <2>2
<1>5. Len(e) = 3 + Len(v) /\ Len(e) <= 5 + Len(v) /\ 4 + Len(v) \notin DOMAIN e /\ 5 + Len(v) \notin DOMAIN e
  BY <1>0, <1>1, <1>2
<1>. QED BY <1>1, <1>3, <1>4, <1>5 DEF DbShape

LEMMA DiskAdded ==
  ASSUME NEW d, NEW e, NEW w \in Seq(BlockWrappers), NEW f, NEW p, NEW g, NEW q,
         DbShape(d, w, f, p), Len(d) = 3 + Len(w), OneMoreHandle(d, e, OnHandle(BlockIo, 0, PciPath))
  PROVE  DbShape(e, w, g, q) /\ Len(e) = 4 + Len(w)
<1>1. /\ Len(d) \in Nat /\ Len(e) = Len(d) + 1 /\ DOMAIN d = 1 .. Len(d) /\ DOMAIN e = 1 .. Len(e)
      /\ e[Len(d) + 1] = OnHandle(BlockIo, 0, PciPath) /\ \A h \in DOMAIN d : e[h] = d[h]
      /\ IsDb(e) /\ Len(w) \in Nat
  BY DEF OneMoreHandle
<1>2. /\ \A h \in DOMAIN e : h <= 3 => h \in DOMAIN d
      /\ \A i \in 1 .. Len(w) : 3 + i \in DOMAIN d
      /\ 4 + Len(w) = Len(d) + 1 /\ 5 + Len(w) \notin DOMAIN e /\ Len(e) = 4 + Len(w) /\ Len(e) <= 5 + Len(w)
  BY <1>1
<1>3. ASSUME NEW h \in DOMAIN e, h <= 3
      PROVE  \A i \in 1 .. Len(e[h]) : e[h][i].guid \in {TextInput, TextInputEx, TextOutput}
  <2>1. h \in DOMAIN d /\ e[h] = d[h]
    BY <1>1, <1>2, <1>3
  <2>2. \A i \in 1 .. Len(d[h]) : d[h][i].guid \in {TextInput, TextInputEx, TextOutput}
    BY <1>3, <2>1, Zenon DEF DbShape
  <2>. QED BY <2>1, <2>2, Zenon
<1>4. \A i \in 1 .. Len(w) : e[3 + i] = OnHandle(BlockIo, i, w[i].disk_paths)
  <2>1. \A i \in 1 .. Len(w) : d[3 + i] = OnHandle(BlockIo, i, w[i].disk_paths)
    BY <1>2, Zenon DEF DbShape
  <2>. QED BY <1>1, <1>2, <2>1, Zenon
<1>5. e[4 + Len(w)] = OnHandle(BlockIo, 0, PciPath)
  BY <1>1, <1>2, Zenon
<1>. QED BY <1>1, <1>2, <1>3, <1>4, <1>5, Zenon DEF DbShape

LEMMA FileSystemAdded ==
  ASSUME NEW d, NEW e, NEW w \in Seq(BlockWrappers), NEW f, NEW p,
         DbShape(d, w, f, p), Len(d) = 4 + Len(w), OneMoreHandle(d, e, OnHandle(FileSystem, f, p))
  PROVE  DbShape(e, w, f, p) /\ Len(e) = 5 + Len(w)
<1>1. /\ Len(d) \in Nat /\ Len(e) = Len(d) + 1 /\ DOMAIN d = 1 .. Len(d) /\ DOMAIN e = 1 .. Len(e)
      /\ e[Len(d) + 1] = OnHandle(FileSystem, f, p) /\ \A h \in DOMAIN d : e[h] = d[h]
      /\ IsDb(e) /\ Len(w) \in Nat
  BY DEF OneMoreHandle
<1>2. /\ \A h \in DOMAIN e : h <= 3 => h \in DOMAIN d
      /\ \A i \in 1 .. Len(w) : 3 + i \in DOMAIN d
      /\ 4 + Len(w) \in DOMAIN d /\ 5 + Len(w) = Len(d) + 1 /\ Len(e) = 5 + Len(w) /\ Len(e) <= 5 + Len(w)
  BY <1>1
<1>3. ASSUME NEW h \in DOMAIN e, h <= 3
      PROVE  \A i \in 1 .. Len(e[h]) : e[h][i].guid \in {TextInput, TextInputEx, TextOutput}
  <2>1. h \in DOMAIN d /\ e[h] = d[h]
    BY <1>1, <1>2, <1>3
  <2>2. \A i \in 1 .. Len(d[h]) : d[h][i].guid \in {TextInput, TextInputEx, TextOutput}
    BY <1>3, <2>1, Zenon DEF DbShape
  <2>. QED BY <2>1, <2>2, Zenon
<1>4. \A i \in 1 .. Len(w) : e[3 + i] = OnHandle(BlockIo, i, w[i].disk_paths)
  <2>1. \A i \in 1 .. Len(w) : d[3 + i] = OnHandle(BlockIo, i, w[i].disk_paths)
    BY <1>2, Zenon DEF DbShape
  <2>. QED BY <1>1, <1>2, <2>1, Zenon
<1>5. e[4 + Len(w)] = OnHandle(BlockIo, 0, PciPath) /\ e[5 + Len(w)] = OnHandle(FileSystem, f, p)
  BY <1>1, <1>2, Zenon DEF DbShape
<1>. QED BY <1>1, <1>2, <1>3, <1>4, <1>5, Zenon DEF DbShape

\* Before the file system is published it may be any.
LEMMA NoFileSystem ==
  ASSUME NEW d, NEW w \in Seq(BlockWrappers), NEW f, NEW p, NEW g, NEW q,
         DbShape(d, w, f, p), Len(d) <= 4 + Len(w)
  PROVE  DbShape(d, w, g, q)
<1>1. PICK E : d \in Seq(Seq(E))
  BY DEF DbShape, IsDb
<1>2. 5 + Len(w) \notin DOMAIN d
  BY <1>1
<1>. QED BY <1>2, Zenon DEF DbShape

LEMMA ConsoleOK ==
  ASSUME db = << >>, initialize_console, NEW f, NEW p
  PROVE  DbShape(db', << >>, f, p) /\ Len(db') = 3
<1>. DEFINE i == InstallProtocol(db, NullHandle, Pair(TextInput, Null))
            b == InstallProtocol(i.db, i.handle, Pair(TextInputEx, Null))
            o == InstallProtocol(b.db, NullHandle, Pair(TextOutput, Null))
            e == InstallProtocol(o.db, NullHandle, Pair(TextOutput, Null))
<1>1. db' = e.db
  BY DEF initialize_console, Pair
<1>2. IsDb(db) /\ Len(db) = 0
  BY DEF IsDb
<1>3. 5 <= MaxHandles /\ MaxHandles \in Nat /\ TextInput # TextInputEx
  BY PartitionAssumption, HandleAssumption
<1>4. Len(db) < MaxHandles
  BY <1>2, <1>3
<1>. DEFINE ti == Pair(TextInput, Null)
            tix == Pair(TextInputEx, Null)
            to == Pair(TextOutput, Null)
<1>5. ti.guid = TextInput /\ tix.guid = TextInputEx /\ to.guid = TextOutput
  BY DEF Pair
<1>. HIDE DEF ti, tix, to
<1>6. OneMoreHandle(db, i.db, <<ti>>) /\ i.handle = Len(db) + 1
  BY <1>2, <1>4, NewOK DEF ti
<1>. HIDE DEF i
<1>7. OneMoreHandle(db, b.db, <<ti, tix>>)
  BY <1>3, <1>5, <1>6, SecondOK DEF tix
<1>. HIDE DEF b
<1>8. IsDb(b.db) /\ Len(b.db) = 1 /\ Len(b.db) < MaxHandles /\ b.db[1] = <<ti, tix>>
  BY <1>2, <1>3, <1>7 DEF OneMoreHandle
<1>9. OneMoreHandle(b.db, o.db, <<to>>)
  BY <1>8, NewOK DEF to
<1>. HIDE DEF o
<1>10. /\ IsDb(o.db) /\ Len(o.db) = 2 /\ Len(o.db) < MaxHandles
       /\ o.db[2] = <<to>> /\ o.db[1] = <<ti, tix>>
  BY <1>3, <1>8, <1>9 DEF OneMoreHandle
<1>11. OneMoreHandle(o.db, e.db, <<to>>)
  BY <1>10, NewOK DEF to
<1>. HIDE DEF e
<1>12. /\ IsDb(e.db) /\ Len(e.db) = 3 /\ DOMAIN e.db = 1 .. 3
       /\ e.db[3] = <<to>> /\ e.db[2] = <<to>> /\ e.db[1] = <<ti, tix>>
  BY <1>10, <1>11 DEF OneMoreHandle
<1>13. \A h \in 1 .. 3 : \A k \in 1 .. Len(e.db[h]) : e.db[h][k].guid \in {TextInput, TextInputEx, TextOutput}
  <2>1. \A h \in 1 .. 3 : h = 1 \/ h = 2 \/ h = 3
    OBVIOUS
  <2>2. \A k \in 1 .. Len(<<to>>) : <<to>>[k].guid = TextOutput
    BY <1>5
  <2>3. \A k \in 1 .. Len(<<ti, tix>>) : <<ti, tix>>[k].guid \in {TextInput, TextInputEx}
    BY <1>5
  <2>. QED BY <1>12, <2>1, <2>2, <2>3, Zenon
<1>14. Len(<< >>) = 0 /\ 4 + 0 \notin 1 .. 3 /\ 5 + 0 \notin 1 .. 3 /\ 3 <= 5 + 0 /\ 1 .. 0 = {}
  OBVIOUS
<1>15. DbShape(e.db, << >>, f, p)
  BY <1>12, <1>13, <1>14 DEF DbShape
<1>. QED BY <1>1, <1>12, <1>15


LEMMA NodeIs ==
  ASSUME NEW type, NEW x
  PROVE  /\ Node(type, <<x>>) = <<[type |-> type, len |-> HeaderSize + 1], x>>
         /\ EndNode = <<[type |-> "END", len |-> HeaderSize + 0]>>
<1>. DEFINE a == [type |-> type, len |-> HeaderSize + 1]
            e == [type |-> "END", len |-> HeaderSize + 0]
<1>1. Len(<<x>>) = 1 /\ Len(<< >>) = 0
  OBVIOUS
<1>2. Node(type, <<x>>) = <<a>> \o <<x>> /\ EndNode = <<e>> \o << >>
  BY <1>1, Zenon DEF Node, EndNode
<1>. HIDE DEF a, e
<1>3. <<a>> \o <<x>> = <<a, x>>
  BY TwoPairs, Zenon
<1>4. <<e>> \o << >> = <<e>>
  <2>1. <<e>> \in Seq({e})
    OBVIOUS
  <2>. QED BY <2>1, ConcatNone, Zenon
<1>. QED BY <1>2, <1>3, <1>4, Zenon DEF a, e

\* The path of a wrapper: PCI node, hard disk node, end.
LEMMA WrappedPath ==
  ASSUME NEW i \in Nat, NEW p \in PartEntry, NEW w, w = Wrapped(i, p)
  PROVE  /\ w \in BlockWrappers /\ w.start_lba = p.first_lba /\ w.start_lba \in Nat
         /\ w.disk_paths[4].start = w.start_lba /\ w.disk_paths[4].guid = p.guid
         /\ w.disk_paths # PciPath
<1>. DEFINE a == [type |-> "HW", len |-> HeaderSize + 1]
            e == [type |-> "END", len |-> HeaderSize + 0]
            hd == [number |-> i, start |-> p.first_lba, size |-> p.last_lba - p.first_lba + 1, guid |-> p.guid]
<1>1. /\ Node("HW", <<Pci>>) = <<a, Pci>> /\ Node("HW", <<hd>>) = <<a, hd>> /\ EndNode = <<e>>
  BY NodeIs, Zenon
<1>2. hd.start = p.first_lba /\ hd.guid = p.guid /\ p.first_lba \in Nat
  BY DEF PartEntry
<1>3. w.start_lba = p.first_lba /\ w.disk_paths = Node("HW", <<Pci>>) \o Node("HW", <<hd>>) \o EndNode
  BY DEF Wrapped, BlockWrapper
<1>. HIDE DEF a, e, hd
<1>4. w.disk_paths = (<<a, Pci>> \o <<a, hd>>) \o <<e>> /\ PciPath = <<a, Pci>> \o <<e>>
  BY <1>1, <1>3 DEF PciPath
<1>5. Len(w.disk_paths) = 5 /\ Len(PciPath) = 3 /\ w.disk_paths[4] = hd
  BY <1>4
<1>6. w \in BlockWrappers
  BY DEF BlockWrappers
<1>7. w.disk_paths # PciPath
  BY <1>5
<1>. QED BY <1>2, <1>3, <1>5, <1>6, <1>7, Zenon

\* A step of the start that leaves the database, the wrappers and the last call alone.
LEMMA QuietOK ==
  ASSUME PartInv, phase # "booted", phase' # "booted", UNCHANGED <<gpt, last, wrappers, efi_part_id, db>>,
         WrapInv(parts', wrappers, efi_part_id), PhaseInv(phase', Len(db), parts', wrappers, whole')
  PROVE  PartInv'
<1>1. DbShape(db, wrappers, found', Wrapper(efi_part_id)'.disk_paths)
  <2>1. wrappers \in Seq(BlockWrappers)
    BY DEF WrapInv
  <2>2. Len(db) <= 4 + Len(wrappers)
    BY DEF PhaseInv
  <2>. QED BY <2>1, <2>2, NoFileSystem DEF PartInv
<1>2. ~ (last.op = "blocks")
  BY DEF PartInv
<1>3. db' = db /\ wrappers' = wrappers /\ last' = last /\ gpt' = gpt /\ efi_part_id' = efi_part_id
  OBVIOUS
<1>4. gpt \in Tables
  BY DEF PartInv
<1>. QED BY <1>1, <1>2, <1>3, <1>4 DEF PartInv

\* A step of the start that publishes a handle.
LEMMA GrowthOK ==
  ASSUME PartInv, phase # "booted", UNCHANGED <<gpt, last>>,
         WrapInv(parts', wrappers', efi_part_id'), PhaseInv(phase', Len(db'), parts', wrappers', whole'),
         DbShape(db', wrappers', found', Wrapper(efi_part_id)'.disk_paths)
  PROVE  PartInv'
<1>2. ~ (last.op = "blocks")
  BY DEF PartInv
<1>4. gpt \in Tables
  BY DEF PartInv
<1>. QED BY <1>2, <1>4 DEF PartInv

LEMMA ConsoleStep ==
  ASSUME PartInv, initialize_console
  PROVE  PartInv'
<1>1. /\ phase = "console" /\ phase' = "search" /\ UNCHANGED <<gpt, last>>
      /\ UNCHANGED <<lba, checked, found, parts, wrappers, whole, efi_part_id>>
  BY DEF initialize_console, Goto
<1>2. PhaseInv(phase, Len(db), parts, wrappers, whole) /\ WrapInv(parts, wrappers, efi_part_id)
  BY DEF PartInv
<1>3. Len(db) = 0 /\ wrappers = << >>
  BY <1>1, <1>2 DEF PhaseInv
<1>4. db = << >>
  <2>1. PICK E : db \in Seq(Seq(E))
    BY DEF PartInv, DbShape, IsDb
  <2>. QED BY <1>3, <2>1
<1>. DEFINE path == Wrapper(efi_part_id)'.disk_paths
<1>. HIDE DEF path
<1>5. DbShape(db', << >>, found', path) /\ Len(db') = 3
  BY <1>4, ConsoleOK
<1>6. PhaseInv(phase', Len(db'), parts', wrappers', whole')
  <2>1. Len(db') = 3 /\ wrappers' = << >> /\ phase' = "search" /\ Len(<< >>) = 0 /\ 3 <= 4 + 0
    BY <1>1, <1>3, <1>5
  <2>. QED BY <2>1 DEF PhaseInv
<1>. QED BY <1>1, <1>2, <1>3, <1>5, <1>6, GrowthOK DEF path

\* Between the console and the scan nothing is published.
Early == {"search", "find", "header", "scan"}

LEMMA EarlyPhases ==
  ASSUME NEW n, NEW ps, NEW w, NEW d, NEW qs, NEW c, NEW q, NEW p \in Early, PhaseInv(p, n, ps, w, d),
         q \in Early \cup {"failed", "unwrap", "bounds", "wrap"}
  PROVE  PhaseInv(q, n, qs, w, c) /\ w = << >> /\ q # "booted" /\ p # "booted"
<1>1. n = 3 /\ w = << >>
  BY DEF PhaseInv, Early
<1>2. Len(w) = 0 /\ 3 <= 4 + Len(w) /\ 3 = 3 + Len(w)
  BY <1>1
<1>3. q \notin {"console", "fs", "booted"} /\ p # "booted"
  BY Zenon DEF Early
<1>. QED BY <1>1, <1>2, <1>3 DEF PhaseInv

LEMMA EarlyStep ==
  ASSUME PartInv, phase \in Early, phase' \in Early \cup {"failed", "unwrap", "bounds", "wrap"},
         UNCHANGED <<gpt, last, wrappers, efi_part_id, db>>, parts' \in Seq(PartEntry)
  PROVE  PartInv'
<1>1. PhaseInv(phase, Len(db), parts, wrappers, whole) /\ WrapInv(parts, wrappers, efi_part_id)
  BY DEF PartInv
<1>2. PhaseInv(phase', Len(db), parts', wrappers, whole') /\ wrappers = << >> /\ phase' # "booted" /\ phase # "booted"
  BY <1>1, EarlyPhases
<1>3. WrapInv(parts', wrappers, efi_part_id)
  <2>1. Len(wrappers) = 0 /\ 1 .. Len(wrappers) = {} /\ 0 .. Len(wrappers) = {0} /\ Len(parts') \in Nat
    BY <1>2
  <2>. QED BY <1>1, <2>1 DEF WrapInv
<1>. QED BY <1>2, <1>3, QuietOK

LEMMA HeaderStep ==
  ASSUME NEW now \in Early, NEW next \in Early, NEW stop \in {"failed", "unwrap"}, PartInv,
         ReadHeader(now, next, stop)
  PROVE  PartInv'
<1>1. /\ phase = now /\ phase' \in {next, stop}
      /\ UNCHANGED <<gpt, last, wrappers, efi_part_id, db>> /\ parts' = parts
  BY DEF ReadHeader, Goto
<1>2. parts \in Seq(PartEntry)
  BY DEF PartInv, WrapInv
<1>. QED BY <1>1, <1>2, EarlyStep

LEMMA FindStep ==
  ASSUME PartInv, find_efi_partition
  PROVE  PartInv'
<1>1. /\ phase = "find" /\ phase' \in {"failed", "header", "find"}
      /\ UNCHANGED <<gpt, last, wrappers, efi_part_id, db>> /\ parts' = parts
  BY DEF find_efi_partition, Goto
<1>2. parts \in Seq(PartEntry) /\ phase \in Early /\ phase' \in Early \cup {"failed", "unwrap", "bounds", "wrap"}
  BY <1>1 DEF PartInv, WrapInv, Early
<1>. QED BY <1>1, <1>2, EarlyStep


\* The entries taken from the first n of a sector.
Took(sector, n, s) ==
  /\ s \in Seq(PartEntry)
  /\ \A j \in 1 .. Len(s) : \E k \in 1 .. n : s[j] = sector[k]
  /\ \A k \in 1 .. n : sector[k].guid # NoGuid => \E j \in 1 .. Len(s) : s[j] = sector[k]

LEMMA TookOne ==
  ASSUME NEW sector \in Seq(PartEntry), NEW n \in Nat, n + 1 <= Len(sector), NEW s, Took(sector, n, s)
  PROVE  Took(sector, n + 1, IF sector[n + 1].guid # NoGuid THEN Append(s, sector[n + 1]) ELSE s)
<1>1. sector[n + 1] \in PartEntry /\ s \in Seq(PartEntry)
  BY DEF Took
<1>2. CASE sector[n + 1].guid # NoGuid
  <2>. DEFINE t == Append(s, sector[n + 1])
  <2>1. t \in Seq(PartEntry) /\ Len(t) = Len(s) + 1 /\ t[Len(s) + 1] = sector[n + 1] /\ Len(s) \in Nat
    BY <1>1
  <2>2. \A j \in 1 .. Len(s) : t[j] = s[j]
    BY <1>1
  <2>. HIDE DEF t
  <2>3. \A j \in 1 .. Len(t) : \E k \in 1 .. n + 1 : t[j] = sector[k]
    <3>. SUFFICES ASSUME NEW j \in 1 .. Len(t) PROVE \E k \in 1 .. n + 1 : t[j] = sector[k]
      OBVIOUS
    <3>1. CASE j \in 1 .. Len(s)
      <4>1. PICK k \in 1 .. n : s[j] = sector[k]
        BY <3>1 DEF Took
      <4>2. k \in 1 .. n + 1
        OBVIOUS
      <4>. QED BY <2>2, <3>1, <4>1, <4>2
    <3>2. CASE j = Len(s) + 1
      <4>1. n + 1 \in 1 .. n + 1
        OBVIOUS
      <4>. QED BY <2>1, <3>2, <4>1
    <3>. QED BY <2>1, <3>1, <3>2
  <2>4. \A k \in 1 .. n + 1 : sector[k].guid # NoGuid => \E j \in 1 .. Len(t) : t[j] = sector[k]
    <3>. SUFFICES ASSUME NEW k \in 1 .. n + 1, sector[k].guid # NoGuid PROVE \E j \in 1 .. Len(t) : t[j] = sector[k]
      OBVIOUS
    <3>1. CASE k \in 1 .. n
      <4>1. PICK j \in 1 .. Len(s) : s[j] = sector[k]
        BY <3>1 DEF Took
      <4>2. j \in 1 .. Len(t)
        BY <2>1
      <4>. QED BY <2>2, <4>1, <4>2
    <3>2. CASE k = n + 1
      <4>1. Len(s) + 1 \in 1 .. Len(t)
        BY <2>1
      <4>. QED BY <2>1, <3>2, <4>1
    <3>. QED BY <3>1, <3>2
  <2>. QED BY <1>2, <2>1, <2>3, <2>4 DEF Took, t
<1>3. CASE ~ (sector[n + 1].guid # NoGuid)
  <2>1. \A k \in 1 .. n : k \in 1 .. n + 1
    OBVIOUS
  <2>2. \A k \in 1 .. n + 1 : k \in 1 .. n \/ k = n + 1
    OBVIOUS
  <2>. QED BY <1>1, <1>3, <2>1, <2>2, Zenon DEF Took
<1>. QED BY <1>2, <1>3

\* get_partitions takes the entries of a sector that are in use, and no others.
LEMMA UsedIs ==
  ASSUME NEW sector \in Seq(PartEntry)
  PROVE  Took(sector, Len(sector), Used(sector))
<1>. DEFINE N == Len(sector)
            Step(k, s) == IF sector[k].guid # NoGuid THEN Append(s, sector[k]) ELSE s
            Steps(f) == f = [k \in 0 .. N |-> IF k = 0 THEN << >>
                              ELSE IF sector[k].guid # NoGuid THEN Append(f[k - 1], sector[k]) ELSE f[k - 1]]
            taken == CHOOSE f : Steps(f)
            T == Seq(PartEntry)
            step == [n \in Nat |-> [s \in T |-> IF n < N THEN Step(n + 1, s) ELSE s]]
<1>0. N \in Nat
  OBVIOUS
<1>1. Used(sector) = taken[N]
  BY Zenon DEF Used
<1>2. step \in [Nat -> [T -> T]] /\ << >> \in T
  <2>1. ASSUME NEW n \in Nat, NEW s \in T, n < N PROVE Step(n + 1, s) \in T
    <3>1. sector[n + 1] \in PartEntry
      BY <2>1
    <3>. QED BY <3>1
  <2>. HIDE DEF Step, T
  <2>2. step \in [Nat -> [T -> T]]
    BY <2>1
  <2>. QED BY <2>2 DEF T
<1>. HIDE DEF T, step
<1>3. PICK g : Iterates(g, T, << >>, step)
  BY <1>2, Recursion, Zenon
<1>4. g \in [Nat -> T] /\ g[0] = << >> /\ \A n \in Nat : n < N => g[n + 1] = Step(n + 1, g[n])
  <2>1. g \in [Nat -> T] /\ g[0] = << >> /\ \A n \in Nat : g[n + 1] = step[n][g[n]]
    BY <1>3 DEF Iterates
  <2>. HIDE DEF Step, N
  <2>. QED BY <2>1 DEF step
<1>. DEFINE h == [k \in 0 .. N |-> g[k]]
<1>5. Steps(h)
  <2>1. ASSUME NEW k \in 0 .. N
        PROVE  h[k] = IF k = 0 THEN << >>
                      ELSE IF sector[k].guid # NoGuid THEN Append(h[k - 1], sector[k]) ELSE h[k - 1]
    <3>1. CASE k = 0
      BY <1>4, <3>1
    <3>2. CASE k # 0
      <4>1. k - 1 \in Nat /\ k - 1 \in 0 .. N /\ (k - 1) + 1 = k /\ k - 1 < N
        BY <1>0, <3>2
      <4>2. g[k] = Step(k, g[k - 1])
        BY <1>4, <4>1
      <4>. HIDE DEF N
      <4>. QED BY <3>2, <4>1, <4>2
    <3>. QED BY <3>1, <3>2
  <2>. QED BY <2>1, Zenon
<1>6. Steps(taken)
  BY <1>5, Zenon
<1>. HIDE DEF taken
<1>7. \A k \in 0 .. N : taken[k] = IF k = 0 THEN << >> ELSE Step(k, taken[k - 1])
  BY <1>6, Zenon
<1>. HIDE DEF Steps, Step
<1>. DEFINE S == {n \in Nat : n <= N => Took(sector, n, taken[n])}
<1>8. 0 \in S
  <2>1. taken[0] = << >>
    BY <1>0, <1>7
  <2>2. 1 .. 0 = {} /\ << >> \in Seq(PartEntry) /\ Len(<< >>) = 0
    OBVIOUS
  <2>3. Took(sector, 0, << >>)
    BY <2>2 DEF Took
  <2>. QED BY <2>1, <2>3
<1>9. ASSUME NEW n \in Nat, n \in S PROVE n + 1 \in S
  <2>. SUFFICES ASSUME n + 1 <= N PROVE Took(sector, n + 1, taken[n + 1])
    OBVIOUS
  <2>1. n <= N /\ n + 1 \in 0 .. N /\ n + 1 # 0 /\ (n + 1) - 1 = n
    BY <1>0
  <2>2. Took(sector, n, taken[n])
    BY <1>9, <2>1
  <2>3. taken[n + 1] = Step(n + 1, taken[n])
    BY <1>7, <2>1
  <2>. QED BY <2>2, <2>3, TookOne DEF Step
<1>10. \A n \in Nat : n \in S
  <2>. HIDE DEF S
  <2>. QED BY <1>8, <1>9, NatInduct
<1>. QED BY <1>0, <1>1, <1>10

\* The sectors of the table that the scans read.
LEMMA SectorKind ==
  ASSUME NEW g \in Tables, NEW l \in Nat, g.first_part_lba <= l, l < g.first_usable_lba
  PROVE  /\ g.entries[l] \in [1 .. PerSector -> PartEntry]
         /\ g.entries[l] \in Seq(PartEntry) /\ Len(g.entries[l]) = PerSector
<1>1. g.first_part_lba \in Nat /\ g.first_usable_lba \in Nat /\ PerSector \in Nat
  BY PartitionAssumption
<1>2. l \in g.first_part_lba .. g.first_usable_lba - 1
  BY <1>1
<1>3. g.entries[l] \in [1 .. PerSector -> PartEntry]
  BY <1>2, PartitionAssumption DEF PartEntry
<1>. QED BY <1>1, <1>3


LEMMA GetStep ==
  ASSUME PartInv, ScanPlace, get_partitions
  PROVE  PartInv'
<1>1. /\ phase = "scan" /\ phase' \in {"wrap", "unwrap", "bounds", "scan"}
      /\ UNCHANGED <<gpt, last, wrappers, efi_part_id, db>>
      /\ parts' = parts \/ (lba < gpt.first_usable_lba /\ parts' = parts \o Used(gpt.entries[lba]))
  BY DEF get_partitions, Goto
<1>2. phase \in Early /\ phase' \in Early \cup {"failed", "unwrap", "bounds", "wrap"}
  BY <1>1 DEF Early
<1>3. parts \in Seq(PartEntry) /\ gpt \in Tables
  BY DEF PartInv, WrapInv
<1>4. parts' \in Seq(PartEntry)
  <2>1. CASE lba < gpt.first_usable_lba
    <3>1. gpt.first_part_lba \in Nat
      BY <1>3, PartitionAssumption
    <3>2. lba \in Nat /\ gpt.first_part_lba <= lba
      BY <1>1, <3>1 DEF ScanPlace
    <3>3. gpt.entries[lba] \in Seq(PartEntry)
      BY <1>3, <2>1, <3>2, SectorKind
    <3>4. Used(gpt.entries[lba]) \in Seq(PartEntry)
      BY <3>3, UsedIs DEF Took
    <3>. DEFINE used == Used(gpt.entries[lba])
    <3>. HIDE DEF PartEntry, used
    <3>5. parts \o used \in Seq(PartEntry)
      BY <1>3, <3>4 DEF used
    <3>. QED BY <1>1, <1>3, <3>5, Zenon DEF used
  <2>. QED BY <1>1, <1>3, <2>1
<1>. QED BY <1>1, <1>2, <1>4, EarlyStep

\* A partition more is wrapped.
LEMMA WrapGrows ==
  ASSUME NEW ps, NEW w, NEW e, WrapInv(ps, w, e), Len(w) < Len(ps), Len(w) + 1 < MaxParts,
         NEW v, v = Append(w, Wrapped(Len(w) + 1, ps[Len(w) + 1])),
         NEW f, f = IF ps[Len(w) + 1].efi THEN Len(w) + 1 ELSE e
  PROVE  WrapInv(ps, v, f)
<1>1. ps \in Seq(PartEntry) /\ w \in Seq(BlockWrappers) /\ Len(w) \in Nat /\ Len(ps) \in Nat
  BY DEF WrapInv
<1>2. Len(w) + 1 \in 1 .. Len(ps) /\ ps[Len(w) + 1] \in PartEntry
  BY <1>1
<1>. DEFINE x == Wrapped(Len(w) + 1, ps[Len(w) + 1])
<1>3. x \in BlockWrappers
  BY <1>1, <1>2, WrappedPath
<1>. HIDE DEF x
<1>4. /\ v \in Seq(BlockWrappers) /\ Len(v) = Len(w) + 1 /\ v[Len(w) + 1] = x
      /\ \A i \in 1 .. Len(w) : v[i] = w[i]
  BY <1>1, <1>3 DEF x
<1>5. \A i \in 1 .. Len(v) : i \in 1 .. Len(w) \/ i = Len(w) + 1
  BY <1>1, <1>4
<1>6. \A i \in 1 .. Len(v) : v[i] = Wrapped(i, ps[i])
  <2>1. \A i \in 1 .. Len(w) : w[i] = Wrapped(i, ps[i])
    BY DEF WrapInv
  <2>. QED BY <1>4, <1>5, <2>1, Zenon DEF x
<1>7. Len(v) <= Len(ps) /\ Len(v) < MaxParts
  BY <1>1, <1>4
<1>8. f \in 0 .. Len(v) /\ (f = 0 => \A j \in 1 .. Len(v) : ~ ps[j].efi) /\ (f # 0 => ps[f].efi)
  <2>0. /\ e \in 0 .. Len(w) /\ (e = 0 => \A j \in 1 .. Len(w) : ~ ps[j].efi) /\ (e # 0 => ps[e].efi)
    BY DEF WrapInv
  <2>1. CASE ps[Len(w) + 1].efi
    <3>1. f = Len(w) + 1
      BY <2>1
    <3>2. f \in 0 .. Len(v) /\ f # 0
      BY <1>1, <1>4, <3>1
    <3>. QED BY <2>1, <3>1, <3>2
  <2>2. CASE ~ ps[Len(w) + 1].efi
    <3>1. f = e
      BY <2>2
    <3>2. f \in 0 .. Len(v)
      BY <1>1, <1>4, <2>0, <3>1
    <3>. QED BY <1>5, <2>0, <2>2, <3>1, <3>2, Zenon
  <2>. QED BY <2>1, <2>2
<1>. QED BY <1>1, <1>4, <1>6, <1>7, <1>8 DEF WrapInv

LEMMA WrapStep ==
  ASSUME PartInv, WrapPartition
  PROVE  PartInv'
<1>0. /\ PhaseInv(phase, Len(db), parts, wrappers, whole) /\ WrapInv(parts, wrappers, efi_part_id)
      /\ DbShape(db, wrappers, found, Wrapper(efi_part_id).disk_paths)
  BY DEF PartInv
<1>1. phase = "wrap" /\ Len(wrappers) < Len(parts) /\ UNCHANGED <<gpt, last, parts, found, whole>>
  BY DEF WrapPartition, Goto
<1>2. Len(db) = 3 + Len(wrappers) /\ Len(wrappers) \in Nat
  BY <1>0, <1>1 DEF PhaseInv, WrapInv
<1>3. CASE phase' \in {"bounds", "fault"} /\ UNCHANGED <<wrappers, efi_part_id, db>>
  <2>1. PhaseInv(phase', Len(db), parts', wrappers, whole')
    BY <1>2, <1>3 DEF PhaseInv
  <2>. QED BY <1>0, <1>1, <1>3, <2>1, QuietOK
<1>. DEFINE x == Wrapped(Len(wrappers) + 1, parts[Len(wrappers) + 1])
            efi == parts[Len(wrappers) + 1].efi
<1>4. \/ phase' \in {"bounds", "fault"} /\ UNCHANGED <<wrappers, efi_part_id, db>>
      \/ /\ phase' = "wrap" /\ Len(wrappers) + 1 < MaxParts
         /\ wrappers' = Append(wrappers, x)
         /\ efi_part_id' = IF efi THEN Len(wrappers) + 1 ELSE efi_part_id
         /\ db' = Publish(db, BlockIo, Len(wrappers) + 1, x.disk_paths)
  BY Zenon DEF WrapPartition, Goto, Wrapped
<1>5. ASSUME phase' = "wrap", Len(wrappers) + 1 < MaxParts, wrappers' = Append(wrappers, x),
             efi_part_id' = IF efi THEN Len(wrappers) + 1 ELSE efi_part_id,
             db' = Publish(db, BlockIo, Len(wrappers) + 1, x.disk_paths)
      PROVE  PartInv'
  <2>1. WrapInv(parts, wrappers', efi_part_id')
    BY <1>0, <1>1, <1>5, WrapGrows, Zenon
  <2>2. parts[Len(wrappers) + 1] \in PartEntry /\ wrappers \in Seq(BlockWrappers) /\ Len(wrappers) + 1 \in Nat
    BY <1>0, <1>1, <1>2 DEF WrapInv
  <2>3. x \in BlockWrappers
    BY <2>2, WrappedPath
  <2>. HIDE DEF x
  <2>4. Len(db) < MaxHandles /\ BlockIo # DevicePathGuid
    BY <1>2, <1>5, PartitionAssumption, HandleAssumption
  <2>5. IsDb(db)
    BY <1>0 DEF DbShape
  <2>6. OneMoreHandle(db, db', OnHandle(BlockIo, Len(wrappers) + 1, x.disk_paths))
    BY <1>5, <2>4, <2>5, PublishOK, Zenon
  <2>. DEFINE path == Wrapper(efi_part_id)'.disk_paths
              old == Wrapper(efi_part_id).disk_paths
  <2>. HIDE DEF path, old
  <2>8. DbShape(db, wrappers, found, old) /\ Len(db) = 3 + Len(wrappers)
    BY <1>0, <1>2 DEF old
  <2>9. DbShape(db', wrappers', found', path) /\ Len(db') = 3 + Len(wrappers')
    <3>1. wrappers' = Append(wrappers, x)
      BY <1>5
    <3>2. WrapperGrowth(db, db', wrappers, x, wrappers', found, old)
      BY <2>2, <2>3, <2>6, <2>8, <3>1, Zenon DEF WrapperGrowth
    <3>3. \A g, q : DbShape(db', wrappers', g, q) /\ Len(db') = 3 + Len(wrappers')
      BY <3>2, WrapperAdded, Zenon
    <3>. QED BY <3>3, Zenon
  <2>10. PhaseInv(phase', Len(db'), parts', wrappers', whole')
    <3>1. Len(wrappers') \in Nat
      BY <2>1 DEF WrapInv
    <3>. QED BY <1>5, <2>9, <3>1 DEF PhaseInv
  <2>. QED BY <1>1, <1>5, <2>1, <2>9, <2>10, GrowthOK DEF path
<1>. QED BY <1>3, <1>4, <1>5

LEMMA DiskStep ==
  ASSUME PartInv, WrapDisk
  PROVE  PartInv'
<1>0. /\ PhaseInv(phase, Len(db), parts, wrappers, whole) /\ WrapInv(parts, wrappers, efi_part_id)
      /\ DbShape(db, wrappers, found, Wrapper(efi_part_id).disk_paths)
  BY DEF PartInv
<1>1. /\ phase = "wrap" /\ Len(wrappers) = Len(parts)
      /\ UNCHANGED <<gpt, last, parts, wrappers, found, efi_part_id>>
  BY DEF WrapDisk, Goto
<1>2. Len(db) = 3 + Len(wrappers) /\ Len(wrappers) \in Nat
  BY <1>0, <1>1 DEF PhaseInv, WrapInv
<1>3. CASE phase' = "fault" /\ UNCHANGED <<whole, db>>
  <2>1. PhaseInv(phase', Len(db), parts', wrappers, whole')
    BY <1>2, <1>3 DEF PhaseInv
  <2>. QED BY <1>0, <1>1, <1>3, <2>1, QuietOK
<1>4. CASE phase' = "fs" /\ whole'.start_lba = 0 /\ db' = Publish(db, BlockIo, 0, PciPath)
  <2>1. WrapInv(parts', wrappers', efi_part_id') /\ wrappers \in Seq(BlockWrappers) /\ Len(wrappers) < MaxParts
    BY <1>0, <1>1 DEF WrapInv
  <2>4. Len(db) < MaxHandles /\ BlockIo # DevicePathGuid
    BY <1>2, <2>1, PartitionAssumption, HandleAssumption
  <2>5. IsDb(db)
    BY <1>0 DEF DbShape
  <2>6. OneMoreHandle(db, db', OnHandle(BlockIo, 0, PciPath))
    BY <1>4, <2>4, <2>5, PublishOK
  <2>. DEFINE path == Wrapper(efi_part_id)'.disk_paths
              old == Wrapper(efi_part_id).disk_paths
  <2>. HIDE DEF path, old
  <2>8. DbShape(db, wrappers, found, old)
    BY <1>0 DEF old
  <2>9. DbShape(db', wrappers, found', path) /\ Len(db') = 4 + Len(wrappers)
    BY <1>2, <2>1, <2>6, <2>8, DiskAdded
  <2>10. PhaseInv(phase', Len(db'), parts', wrappers', whole')
    BY <1>1, <1>2, <1>4, <2>9 DEF PhaseInv
  <2>. QED BY <1>1, <2>1, <2>9, <2>10, GrowthOK DEF path
<1>5. \/ phase' = "fault" /\ UNCHANGED <<whole, db>>
      \/ phase' = "fs" /\ whole'.start_lba = 0 /\ db' = Publish(db, BlockIo, 0, PciPath)
  BY DEF WrapDisk, Goto, BlockWrapper
<1>. QED BY <1>3, <1>4, <1>5


LEMMA FileSystemStep ==
  ASSUME PartInv, PublishFileSystem
  PROVE  PartInv'
<1>0. /\ PhaseInv(phase, Len(db), parts, wrappers, whole) /\ WrapInv(parts, wrappers, efi_part_id)
      /\ DbShape(db, wrappers, found, Wrapper(efi_part_id).disk_paths)
  BY DEF PartInv
<1>1. /\ phase = "fs"
      /\ UNCHANGED <<gpt, last, parts, wrappers, whole, found, efi_part_id>>
  BY DEF PublishFileSystem, Goto
<1>2. Len(db) = 4 + Len(wrappers) /\ Len(wrappers) \in Nat
  BY <1>0, <1>1 DEF PhaseInv, WrapInv
<1>3. CASE phase' = "unwrap" /\ db' = db
  <2>1. PhaseInv(phase', Len(db), parts', wrappers, whole')
    BY <1>2, <1>3 DEF PhaseInv
  <2>. QED BY <1>0, <1>1, <1>3, <2>1, QuietOK
<1>4. CASE phase' = "booted" /\ db' = Publish(db, FileSystem, found, Wrapper(efi_part_id).disk_paths)
  <2>. DEFINE path == Wrapper(efi_part_id).disk_paths
  <2>1. WrapInv(parts', wrappers', efi_part_id') /\ wrappers \in Seq(BlockWrappers) /\ Len(wrappers) < MaxParts
    BY <1>0, <1>1 DEF WrapInv
  <2>2. Wrapper(efi_part_id)'.disk_paths = path
    BY <1>1 DEF Wrapper
  <2>. HIDE DEF path
  <2>3. DbShape(db, wrappers, found, path) /\ db' = Publish(db, FileSystem, found, path)
    BY <1>0, <1>4 DEF path
  <2>4. Len(db) < MaxHandles /\ FileSystem # DevicePathGuid
    BY <1>2, <2>1, PartitionAssumption, HandleAssumption
  <2>5. IsDb(db)
    BY <1>0 DEF DbShape
  <2>6. OneMoreHandle(db, db', OnHandle(FileSystem, found, path))
    BY <2>3, <2>4, <2>5, PublishOK
  <2>9. DbShape(db', wrappers, found, path) /\ Len(db') = 5 + Len(wrappers)
    BY <1>2, <2>1, <2>3, <2>6, FileSystemAdded
  <2>10. PhaseInv(phase', Len(db'), parts', wrappers', whole')
    <3>1. whole'.start_lba = 0 /\ Len(wrappers') = Len(parts')
      BY <1>0, <1>1 DEF PhaseInv
    <3>. QED BY <1>1, <1>2, <1>4, <2>9, <3>1 DEF PhaseInv
  <2>. QED BY <1>1, <2>1, <2>2, <2>9, <2>10, GrowthOK
<1>5. \/ phase' = "unwrap" /\ db' = db
      \/ phase' = "booted" /\ db' = Publish(db, FileSystem, found, Wrapper(efi_part_id).disk_paths)
  BY DEF PublishFileSystem, Goto
<1>. QED BY <1>3, <1>4, <1>5

\* What is found on a handle with a protocol and a device path.
LEMMA OnHandleIs ==
  ASSUME NEW d, IsDb(d), NEW h \in DOMAIN d, NEW g, NEW x, NEW path, d[h] = OnHandle(g, x, path),
         g # DevicePathGuid
  PROVE  /\ get_protocol(d, h, g) = 1 /\ d[h][1].interface = x
         /\ get_protocol(d, h, DevicePathGuid) = 2 /\ d[h][2].interface = path
         /\ \A o : o \notin {g, DevicePathGuid} => get_protocol(d, h, o) = 0
<1>1. PICK E : d \in Seq(Seq(E))
  BY DEF IsDb
<1>. DEFINE a == Pair(g, x)
            c == Pair(DevicePathGuid, path)
<1>2. a.guid = g /\ c.guid = DevicePathGuid /\ a.interface = x /\ c.interface = path
  BY DEF Pair
<1>3. d[h] = <<a, c>>
  BY DEF OnHandle
<1>. HIDE DEF a, c
<1>4. Len(d[h]) = 2 /\ d[h][1] = a /\ d[h][2] = c /\ \A i \in 1 .. 2 : i = 1 \/ i = 2
  BY <1>3
<1>5. IsFirst(d[h], g, 1) /\ IsFirst(d[h], DevicePathGuid, 2)
  BY <1>2, <1>4 DEF IsFirst
<1>6. get_protocol(d, h, g) = 1 /\ get_protocol(d, h, DevicePathGuid) = 2
  BY <1>1, <1>5, FirstProtocol, Zenon
<1>7. ASSUME NEW o, o \notin {g, DevicePathGuid} PROVE get_protocol(d, h, o) = 0
  <2>1. ~ IsFirst(d[h], o, get_protocol(d, h, o))
    <3>1. \A k \in 1 .. Len(d[h]) : d[h][k].guid # o
      BY <1>2, <1>4, <1>7
    <3>. QED BY <3>1 DEF IsFirst
  <2>. QED BY <1>1, <2>1, GetProtocol, Zenon
<1>. QED BY <1>2, <1>4, <1>6, <1>7

\* The handle of the blocks of the i-th partition, and of the disk for 0.
BlocksHandle(d, h, w, i) ==
  /\ get_protocol(d, h, BlockIo) # 0
  /\ d[h][get_protocol(d, h, BlockIo)].interface = i
  /\ d[h][get_protocol(d, h, DevicePathGuid)].interface = IF i = 0 THEN PciPath ELSE w[i].disk_paths

LEMMA BlocksOnHandle ==
  ASSUME NEW d, NEW w \in Seq(BlockWrappers), NEW f, NEW p, DbShape(d, w, f, p), Len(d) = 5 + Len(w)
  PROVE  /\ \A h \in DOMAIN d :
              get_protocol(d, h, BlockIo) # 0 => \E i \in 0 .. Len(w) : BlocksHandle(d, h, w, i)
         /\ \A i \in 0 .. Len(w) : \E h \in DOMAIN d : BlocksHandle(d, h, w, i)
         /\ \A h \in DOMAIN d : get_protocol(d, h, FileSystem) # 0 =>
              /\ d[h][get_protocol(d, h, FileSystem)].interface = f
              /\ d[h][get_protocol(d, h, DevicePathGuid)].interface = p
<1>1. PICK E : d \in Seq(Seq(E))
  BY DEF DbShape, IsDb
<1>2. DOMAIN d = 1 .. 5 + Len(w) /\ Len(w) \in Nat
  BY <1>1
<1>3. BlockIo # FileSystem /\ BlockIo # DevicePathGuid /\ FileSystem # DevicePathGuid
  BY PartitionAssumption
<1>4. ASSUME NEW h \in DOMAIN d, h <= 3, NEW g \in {BlockIo, FileSystem} PROVE get_protocol(d, h, g) = 0
  <2>1. \A i \in 1 .. Len(d[h]) : d[h][i].guid \in {TextInput, TextInputEx, TextOutput}
    BY <1>4, Zenon DEF DbShape
  <2>2. \A i \in 1 .. Len(d[h]) : d[h][i].guid # g
    BY <2>1, PartitionAssumption
  <2>3. ~ IsFirst(d[h], g, get_protocol(d, h, g))
    BY <2>2, Zenon DEF IsFirst
  <2>. QED BY <1>1, <2>3, GetProtocol, Zenon
<1>5. ASSUME NEW i \in 1 .. Len(w)
      PROVE  3 + i \in DOMAIN d /\ BlocksHandle(d, 3 + i, w, i) /\ get_protocol(d, 3 + i, FileSystem) = 0
  <2>. DEFINE h == 3 + i
  <2>1. h \in DOMAIN d /\ i # 0
    BY <1>2
  <2>2. d[h] = OnHandle(BlockIo, i, w[i].disk_paths) /\ IsDb(d)
    BY <2>1, Zenon DEF DbShape
  <2>. HIDE DEF h
  <2>3. /\ get_protocol(d, h, BlockIo) = 1 /\ d[h][1].interface = i
        /\ get_protocol(d, h, DevicePathGuid) = 2 /\ d[h][2].interface = w[i].disk_paths
        /\ get_protocol(d, h, FileSystem) = 0
    BY <1>3, <2>1, <2>2, OnHandleIs
  <2>. QED BY <2>1, <2>3 DEF BlocksHandle, h
<1>6. /\ 4 + Len(w) \in DOMAIN d /\ BlocksHandle(d, 4 + Len(w), w, 0)
      /\ get_protocol(d, 4 + Len(w), FileSystem) = 0
  <2>. DEFINE h == 4 + Len(w)
  <2>1. h \in DOMAIN d
    BY <1>2
  <2>2. d[h] = OnHandle(BlockIo, 0, PciPath) /\ IsDb(d)
    BY <2>1, Zenon DEF DbShape
  <2>. HIDE DEF h
  <2>3. /\ get_protocol(d, h, BlockIo) = 1 /\ d[h][1].interface = 0
        /\ get_protocol(d, h, DevicePathGuid) = 2 /\ d[h][2].interface = PciPath
        /\ get_protocol(d, h, FileSystem) = 0
    BY <1>3, <2>1, <2>2, OnHandleIs
  <2>. QED BY <2>1, <2>3 DEF BlocksHandle, h
<1>7. /\ get_protocol(d, 5 + Len(w), BlockIo) = 0
      /\ d[5 + Len(w)][get_protocol(d, 5 + Len(w), FileSystem)].interface = f
      /\ d[5 + Len(w)][get_protocol(d, 5 + Len(w), DevicePathGuid)].interface = p
  <2>. DEFINE h == 5 + Len(w)
  <2>1. h \in DOMAIN d
    BY <1>2
  <2>2. d[h] = OnHandle(FileSystem, f, p) /\ IsDb(d)
    BY <2>1, Zenon DEF DbShape
  <2>. HIDE DEF h
  <2>3. /\ get_protocol(d, h, FileSystem) = 1 /\ d[h][1].interface = f
        /\ get_protocol(d, h, DevicePathGuid) = 2 /\ d[h][2].interface = p
        /\ get_protocol(d, h, BlockIo) = 0
    BY <1>3, <2>1, <2>2, OnHandleIs
  <2>. QED BY <2>3 DEF h
<1>8. ASSUME NEW h \in DOMAIN d
      PROVE  h <= 3 \/ (h - 3 \in 1 .. Len(w) /\ h = 3 + (h - 3)) \/ h = 4 + Len(w) \/ h = 5 + Len(w)
  BY <1>2
<1>9. 0 \in 0 .. Len(w) /\ \A i \in 1 .. Len(w) : i \in 0 .. Len(w)
  BY <1>2
<1>10. \A i \in 0 .. Len(w) : i = 0 \/ i \in 1 .. Len(w)
  BY <1>2
<1>11. ASSUME NEW h \in DOMAIN d, get_protocol(d, h, BlockIo) # 0
       PROVE  \E i \in 0 .. Len(w) : BlocksHandle(d, h, w, i)
  <2>1. CASE h - 3 \in 1 .. Len(w) /\ h = 3 + (h - 3)
    <3>1. BlocksHandle(d, h, w, h - 3)
      BY <1>5, <2>1
    <3>. QED BY <1>9, <2>1, <3>1
  <2>2. CASE h = 4 + Len(w)
    BY <1>6, <1>9, <2>2
  <2>. QED BY <1>4, <1>7, <1>8, <1>11, <2>1, <2>2
<1>12. ASSUME NEW h \in DOMAIN d, get_protocol(d, h, FileSystem) # 0 PROVE h = 5 + Len(w)
  <2>1. CASE h - 3 \in 1 .. Len(w) /\ h = 3 + (h - 3)
    BY <1>5, <1>12, <2>1
  <2>2. CASE h = 4 + Len(w)
    BY <1>6, <1>12, <2>2
  <2>. QED BY <1>4, <1>8, <1>12, <2>1, <2>2
<1>13. \A i \in 0 .. Len(w) : \E h \in DOMAIN d : BlocksHandle(d, h, w, i)
  BY <1>5, <1>6, <1>10, Zenon
<1>. QED BY <1>7, <1>11, <1>12, <1>13, Zenon


\* What a handle's blocks start from is what its device path says.
LEMMA StartIs ==
  ASSUME PartInv, phase = "booted", NEW h \in Handles, get_protocol(db, h, BlockIo) # 0,
         NEW k, k = db[h][get_protocol(db, h, BlockIo)].interface
  PROVE  (IF DevicePathOf(h) = PciPath THEN 0 ELSE HardDisk(h).start) = Wrapper(k).start_lba
<1>0. /\ PhaseInv(phase, Len(db), parts, wrappers, whole) /\ WrapInv(parts, wrappers, efi_part_id)
      /\ DbShape(db, wrappers, found, Wrapper(efi_part_id).disk_paths)
  BY DEF PartInv
<1>1. /\ Len(db) = 5 + Len(wrappers) /\ whole.start_lba = 0 /\ Len(wrappers) = Len(parts)
      /\ wrappers \in Seq(BlockWrappers) /\ parts \in Seq(PartEntry)
      /\ \A i \in 1 .. Len(wrappers) : wrappers[i] = Wrapped(i, parts[i])
  BY <1>0 DEF PhaseInv, WrapInv
<1>2. PICK i \in 0 .. Len(wrappers) : BlocksHandle(db, h, wrappers, i)
  BY <1>0, <1>1, BlocksOnHandle DEF Handles
<1>3. k = i /\ DevicePathOf(h) = IF i = 0 THEN PciPath ELSE wrappers[i].disk_paths
  BY <1>2 DEF BlocksHandle, DevicePathOf
<1>4. CASE i = 0
  BY <1>1, <1>3, <1>4 DEF Wrapper
<1>5. CASE i # 0
  <2>1. i \in 1 .. Len(wrappers) /\ i \in Nat /\ parts[i] \in PartEntry
    BY <1>1, <1>5
  <2>2. wrappers[i] = Wrapped(i, parts[i])
    BY <1>1, <2>1
  <2>3. wrappers[i].disk_paths # PciPath /\ wrappers[i].disk_paths[4].start = wrappers[i].start_lba
    BY <2>1, <2>2, WrappedPath
  <2>. QED BY <1>3, <1>5, <2>3 DEF Wrapper, HardDisk
<1>. QED BY <1>4, <1>5

LEMMA ReadStep ==
  ASSUME PartInv, NEW h \in Handles, NEW start, NEW n, read_blocks(h, start, n)
  PROVE  PartInv'
<1>. DEFINE k == db[h][get_protocol(db, h, BlockIo)].interface
            from == Wrapper(k).start_lba
<1>1. /\ phase = "booted" /\ get_protocol(db, h, BlockIo) # 0
      /\ UNCHANGED <<gpt, phase, lba, checked, found, parts, wrappers, whole, efi_part_id, db>>
  BY DEF read_blocks
<1>2. PICK done \in 0 .. n :
        last' = [op |-> "blocks", handle |-> h, start |-> start,
                 delivered |-> [i \in 1 .. done |-> Wrapper(k).start_lba + start + i - 1],
                 status |-> IF done = n THEN "SUCCESS" ELSE "DEVICE_ERROR"]
  BY Zenon DEF read_blocks
<1>3. last'.handle = h /\ last'.start = start /\ last'.delivered = [i \in 1 .. done |-> from + start + i - 1]
  BY <1>2
<1>4. (IF DevicePathOf(h) = PciPath THEN 0 ELSE HardDisk(h).start) = from
  BY <1>1, StartIs
<1>. HIDE DEF from
<1>5. DevicePathOf(last.handle)' = DevicePathOf(h) /\ HardDisk(last.handle)' = HardDisk(h)
  BY <1>1, <1>3 DEF DevicePathOf, HardDisk
<1>6. \A i \in DOMAIN last'.delivered : last'.delivered[i] = from + last'.start + i - 1
  BY <1>3
<1>7. ReadsPartition'
  BY <1>4, <1>5, <1>6 DEF ReadsPartition
<1>8. /\ gpt' \in Tables /\ WrapInv(parts', wrappers', efi_part_id')
      /\ PhaseInv(phase', Len(db'), parts', wrappers', whole')
      /\ DbShape(db', wrappers', found', Wrapper(efi_part_id)'.disk_paths)
  BY <1>1 DEF PartInv, Wrapper
<1>. QED BY <1>1, <1>7, <1>8 DEF PartInv

LEMMA PartInitOK ==
  ASSUME PartInit
  PROVE  PartInv
<1>1. /\ db = << >> /\ last.op = "none" /\ gpt \in Tables /\ phase = "console"
      /\ parts = << >> /\ wrappers = << >> /\ efi_part_id = 0
  BY DEF PartInit, Init
<1>2. /\ Len(<< >>) = 0 /\ 1 .. 0 = {} /\ 0 \in 0 .. 0 /\ << >> \in Seq(PartEntry) /\ << >> \in Seq(BlockWrappers)
      /\ DOMAIN << >> = {} /\ 0 <= 5 + 0 /\ 0 <= 4 + 0 /\ 0 <= 0
  OBVIOUS
<1>3. 0 < MaxParts
  BY PartitionAssumption
<1>4. WrapInv(parts, wrappers, efi_part_id)
  BY <1>1, <1>2, <1>3 DEF WrapInv
<1>5. PhaseInv(phase, Len(db), parts, wrappers, whole)
  BY <1>1, <1>2 DEF PhaseInv
<1>6. IsDb(db)
  BY <1>1 DEF IsDb
<1>7. DbShape(db, wrappers, found, Wrapper(efi_part_id).disk_paths)
  BY <1>1, <1>2, <1>6 DEF DbShape
<1>. QED BY <1>1, <1>4, <1>5, <1>7 DEF PartInv

LEMMA PartStep ==
  ASSUME PartInv, ScanPlace, [PartNext]_pvars
  PROVE  PartInv'
<1>1. CASE UNCHANGED pvars
  <2>1. /\ gpt' = gpt /\ phase' = phase /\ lba' = lba /\ checked' = checked /\ found' = found /\ parts' = parts
        /\ wrappers' = wrappers /\ whole' = whole /\ efi_part_id' = efi_part_id /\ db' = db /\ last' = last
    BY <1>1 DEF pvars
  <2>2. ReadsPartition' = ReadsPartition
    BY <2>1 DEF ReadsPartition, DevicePathOf, HardDisk
  <2>. QED BY <2>1, <2>2 DEF PartInv, Wrapper
<1>2. CASE Startup
  <2>1. ReadHeader("search", "find", "failed") => PartInv'
    BY HeaderStep DEF Early
  <2>2. ReadHeader("header", "scan", "unwrap") => PartInv'
    BY HeaderStep DEF Early
  <2>. QED BY <1>2, <2>1, <2>2, ConsoleStep, FindStep, GetStep, WrapStep, DiskStep, FileSystemStep, Zenon DEF Startup
<1>3. CASE \E handle \in Handles, start \in {0, 1}, n \in 0 .. 2 : read_blocks(handle, start, n)
  BY <1>3, ReadStep, Zenon
<1>. QED BY <1>1, <1>2, <1>3 DEF PartNext


(* The entries of the table, by sector and by number. *)
LEMMA SectorEntry ==
  ASSUME NEW g, NEW s \in Nat, NEW k \in 1 .. PerSector
  PROVE  EntryOf(g, s * PerSector + k) = g.entries[g.first_part_lba + s][k]
<1>1. PerSector \in Nat /\ PerSector # 0 /\ k - 1 \in 0 .. PerSector - 1 /\ s * PerSector \in Nat
  BY PartitionAssumption, Product
<1>2. (s * PerSector + (k - 1)) \div PerSector = s /\ (s * PerSector + (k - 1)) % PerSector = k - 1
  BY <1>1, Divided
<1>3. (s * PerSector + k) - 1 = s * PerSector + (k - 1) /\ (k - 1) + 1 = k
  BY <1>1
<1>. QED BY <1>2, <1>3 DEF EntryOf

LEMMA NextSector ==
  ASSUME NEW s \in Nat
  PROVE  /\ s * PerSector \in Nat /\ (s + 1) * PerSector = s * PerSector + PerSector
         /\ \A i \in 1 .. s * PerSector + PerSector :
              i \in 1 .. s * PerSector \/ \E k \in 1 .. PerSector : i = s * PerSector + k
<1>1. PerSector \in Nat /\ s * PerSector \in Nat /\ (s + 1) * PerSector = s * PerSector + PerSector
  BY PartitionAssumption
<1>. DEFINE c == s * PerSector
<1>2. c \in Nat
  BY <1>1
<1>. HIDE DEF c
<1>3. ASSUME NEW i \in 1 .. c + PerSector, i \notin 1 .. c PROVE \E k \in 1 .. PerSector : i = c + k
  <2>1. i - c \in 1 .. PerSector /\ i = c + (i - c)
    BY <1>1, <1>2, <1>3
  <2>. QED BY <2>1
<1>. QED BY <1>1, <1>3 DEF c

LEMMA InTable ==
  ASSUME NEW g \in Tables, NEW s \in Nat, g.first_part_lba + s < g.first_usable_lba
  PROVE  /\ \A k \in 1 .. PerSector : s * PerSector + k \in 1 .. Sized(g)
         /\ g.first_part_lba + s \in Nat /\ g.first_part_lba <= g.first_part_lba + s
<1>1. g.first_part_lba \in Nat /\ g.first_usable_lba \in Nat /\ PerSector \in Nat
  BY PartitionAssumption
<1>. DEFINE n == g.first_usable_lba - g.first_part_lba
<1>2. n \in Nat /\ s + 1 <= n
  BY <1>1
<1>. HIDE DEF n
<1>3. (s + 1) * PerSector <= n * PerSector /\ n * PerSector \in Nat
  BY <1>1, <1>2, Times, Product
<1>4. (s + 1) * PerSector = s * PerSector + PerSector /\ s * PerSector \in Nat
  BY NextSector
<1>5. Sized(g) = n * PerSector
  BY DEF Sized, n
<1>. DEFINE c == s * PerSector
            m == n * PerSector
<1>6. c \in Nat /\ m \in Nat /\ c + PerSector <= m
  BY <1>3, <1>4
<1>. HIDE DEF c, m
<1>7. \A k \in 1 .. PerSector : c + k \in 1 .. m
  BY <1>1, <1>6
<1>. QED BY <1>1, <1>5, <1>7 DEF c, m

LEMMA WholeTable ==
  ASSUME NEW g \in Tables, NEW s \in Nat, ~ (g.first_part_lba + s < g.first_usable_lba)
  PROVE  \A i \in 1 .. Sized(g) : i \in 1 .. s * PerSector
<1>1. g.first_part_lba \in Nat /\ g.first_usable_lba \in Nat /\ PerSector \in Nat
  BY PartitionAssumption
<1>. DEFINE n == g.first_usable_lba - g.first_part_lba
            c == s * PerSector
<1>2. n \in Int /\ n <= s /\ c \in Nat
  BY <1>1, Product
<1>3. Sized(g) = n * PerSector
  BY DEF Sized
<1>. HIDE DEF n
<1>4. CASE n \in Nat
  <2>1. n * PerSector <= s * PerSector /\ n * PerSector \in Nat
    BY <1>1, <1>2, <1>4, Times, Product
  <2>. QED BY <1>2, <1>3, <2>1
<1>5. CASE n < 0
  <2>1. (0 - n) \in Nat /\ (0 - n) * PerSector \in Nat
    BY <1>1, <1>2, <1>5, Product
  <2>2. n * PerSector = 0 - ((0 - n) * PerSector)
    BY <1>1, <1>2
  <2>. QED BY <1>3, <2>1, <2>2
<1>. QED BY <1>2, <1>4, <1>5

\* The scan found an EFI entry in the sector.
LEMMA FoundOK ==
  ASSUME NEW g \in Tables, NEW s \in Nat, g.first_part_lba + s < g.first_usable_lba,
         Passed(g, s * PerSector), NEW k \in 1 .. PerSector,
         NEW sector, sector = g.entries[g.first_part_lba + s], sector[k].efi,
         \A j \in 1 .. k - 1 : ~ sector[j].efi /\ s * PerSector + j # g.part_count
  PROVE  FoundOne(g, sector[k].first_lba)
<1>. DEFINE c == s * PerSector
            e == c + k
<1>1. EntryOf(g, e) = sector[k] /\ e \in 1 .. Sized(g)
  BY SectorEntry, InTable
<1>2. c \in Nat /\ g.part_count \in Nat
  BY NextSector, PartitionAssumption
<1>3. \A i \in 1 .. c : i # g.part_count
  BY DEF Passed
<1>. HIDE DEF c
<1>4. \A j \in 1 .. k - 1 : c + j # g.part_count
  BY DEF c
<1>5. ASSUME g.part_count > 0, ~ (e <= g.part_count) PROVE FALSE
  <2>1. g.part_count \notin 1 .. c
    BY <1>3
  <2>2. g.part_count - c \in 1 .. k - 1 /\ c + (g.part_count - c) = g.part_count
    BY <1>2, <1>5, <2>1
  <2>. QED BY <1>4, <2>2
<1>6. EntryOf(g, e).efi /\ sector[k].first_lba = EntryOf(g, e).first_lba /\ (g.part_count > 0 => e <= g.part_count)
  BY <1>1, <1>5
<1>. HIDE DEF e
<1>. QED BY <1>1, <1>6, Zenon DEF FoundOne

\* The scan passed the sector.
LEMMA PassedOK ==
  ASSUME NEW g \in Tables, NEW s \in Nat, g.first_part_lba + s < g.first_usable_lba,
         Passed(g, s * PerSector), NEW sector, sector = g.entries[g.first_part_lba + s],
         g.part_count \notin s * PerSector + 1 .. s * PerSector + PerSector,
         \A k \in 1 .. PerSector :
           sector[k].efi => \E j \in 1 .. k - 1 : sector[j].efi \/ s * PerSector + j = g.part_count
  PROVE  Passed(g, s * PerSector + PerSector)
<1>. DEFINE c == s * PerSector
            T == {k \in 1 .. PerSector : sector[k].efi}
<1>1. c \in Nat /\ PerSector \in Nat /\ g.part_count \in Nat
  BY NextSector, PartitionAssumption
<1>. HIDE DEF c
<1>2. \A k \in 1 .. PerSector : c + k # g.part_count
  BY <1>1 DEF c
<1>3. T = {}
  <2>. SUFFICES ASSUME T # {} PROVE FALSE
    OBVIOUS
  <2>1. T \in SUBSET Nat
    OBVIOUS
  <2>2. PICK k \in T : \A n \in T : k <= n
    BY <2>1, LeastNat
  <2>3. k \in 1 .. PerSector /\ sector[k].efi
    BY <2>2
  <2>4. PICK j \in 1 .. k - 1 : sector[j].efi \/ c + j = g.part_count
    BY <2>3, Zenon DEF c
  <2>5. j \in 1 .. PerSector /\ j < k
    BY <1>1, <2>3
  <2>6. sector[j].efi
    BY <1>2, <2>4, <2>5
  <2>. QED BY <2>2, <2>3, <2>5, <2>6
<1>4. ASSUME NEW i \in 1 .. c + PerSector PROVE i # g.part_count /\ ~ EntryOf(g, i).efi
  <2>1. CASE i \in 1 .. c
    BY <2>1 DEF Passed, c
  <2>2. ASSUME NEW k \in 1 .. PerSector, i = c + k PROVE i # g.part_count /\ ~ EntryOf(g, i).efi
    <3>1. EntryOf(g, i) = sector[k]
      BY <2>2, SectorEntry DEF c
    <3>. QED BY <1>2, <1>3, <2>2, <3>1
  <2>3. i \in 1 .. c \/ \E k \in 1 .. PerSector : i = c + k
    BY NextSector DEF c
  <2>. QED BY <2>1, <2>2, <2>3
<1>. QED BY <1>4 DEF Passed, c


\* get_partitions took a sector more.
LEMMA TakenOK ==
  ASSUME NEW g \in Tables, NEW s \in Nat, g.first_part_lba + s < g.first_usable_lba,
         NEW ps \in Seq(PartEntry), FromTable(g, ps), TookUpTo(g, s * PerSector, ps),
         NEW used, used = Used(g.entries[g.first_part_lba + s]), NEW qs, qs = ps \o used
  PROVE  FromTable(g, qs) /\ TookUpTo(g, s * PerSector + PerSector, qs)
<1>. DEFINE sector == g.entries[g.first_part_lba + s]
            c == s * PerSector
<1>1. /\ \A k \in 1 .. PerSector : c + k \in 1 .. Sized(g) /\ EntryOf(g, c + k) = sector[k]
      /\ g.first_part_lba + s \in Nat /\ g.first_part_lba <= g.first_part_lba + s
  BY InTable, SectorEntry
<1>2. sector \in Seq(PartEntry) /\ Len(sector) = PerSector
  BY <1>1, SectorKind
<1>3. Took(sector, PerSector, used)
  BY <1>2, UsedIs
<1>4. /\ used \in Seq(PartEntry)
      /\ \A j \in 1 .. Len(used) : \E k \in 1 .. PerSector : used[j] = sector[k]
      /\ \A k \in 1 .. PerSector : sector[k].guid # NoGuid => \E j \in 1 .. Len(used) : used[j] = sector[k]
  BY <1>3, Zenon DEF Took
<1>. HIDE DEF sector, c
<1>. HIDE DEF PartEntry
<1>5. /\ Len(qs) = Len(ps) + Len(used) /\ Len(ps) \in Nat /\ Len(used) \in Nat
      /\ \A j \in 1 .. Len(ps) : qs[j] = ps[j] /\ j \in 1 .. Len(qs)
      /\ \A j \in 1 .. Len(used) : qs[Len(ps) + j] = used[j] /\ Len(ps) + j \in 1 .. Len(qs)
  BY <1>4
<1>6. ASSUME NEW j \in 1 .. Len(qs) PROVE \E i \in 1 .. Sized(g) : qs[j] = EntryOf(g, i)
  <2>1. CASE j \in 1 .. Len(ps)
    BY <1>5, <2>1 DEF FromTable
  <2>2. CASE j - Len(ps) \in 1 .. Len(used) /\ j = Len(ps) + (j - Len(ps))
    <3>1. qs[j] = used[j - Len(ps)]
      BY <1>5, <2>2
    <3>2. PICK k \in 1 .. PerSector : used[j - Len(ps)] = sector[k]
      BY <1>4, <2>2
    <3>. QED BY <1>1, <3>1, <3>2
  <2>. QED BY <1>5, <2>1, <2>2
<1>7. ASSUME NEW i \in 1 .. c + PerSector PROVE IsTaken(g, i, qs)
  <2>1. CASE i \in 1 .. c
    <3>1. IsTaken(g, i, ps)
      BY <2>1 DEF TookUpTo, c
    <3>. QED BY <1>5, <3>1, Zenon DEF IsTaken
  <2>2. ASSUME NEW k \in 1 .. PerSector, i = c + k PROVE IsTaken(g, i, qs)
    <3>1. EntryOf(g, i) = sector[k]
      BY <1>1, <2>2
    <3>2. ASSUME sector[k].guid # NoGuid PROVE \E j \in 1 .. Len(qs) : qs[j] = sector[k]
      <4>1. PICK j \in 1 .. Len(used) : used[j] = sector[k]
        BY <1>4, <3>2
      <4>. QED BY <1>5, <4>1
    <3>. QED BY <3>1, <3>2, Zenon DEF IsTaken
  <2>3. i \in 1 .. c \/ \E k \in 1 .. PerSector : i = c + k
    BY NextSector DEF c
  <2>. QED BY <2>1, <2>2, <2>3
<1>. QED BY <1>6, <1>7 DEF FromTable, TookUpTo, c

\* The steps of the start, as far as the scans are concerned.
LEMMA ScanHeader ==
  ASSUME NEW now, NEW next \in {"find", "scan"}, NEW stop \in {"failed", "unwrap"}, PartInv, ScanInv,
         ReadHeader(now, next, stop), next = "scan" => now = "header"
  PROVE  ScanInv'
<1>1. phase = now /\ gpt' = gpt /\ found' = found /\ parts' = parts /\ FromTable(gpt, parts)
  BY DEF ReadHeader, Goto, ScanInv
<1>2. phase' = stop \/ (phase' = next /\ lba' = gpt.first_part_lba /\ checked' = 0)
  BY DEF ReadHeader, Goto
<1>3. CASE phase' = stop
  BY <1>1, <1>3 DEF ScanInv, ScanPlace
<1>4. CASE phase' = next /\ lba' = gpt.first_part_lba /\ checked' = 0
  <2>1. gpt.first_part_lba \in Nat /\ PerSector \in Nat
    BY PartitionAssumption DEF PartInv
  <2>2. 0 \in Nat /\ lba' = gpt.first_part_lba + 0 /\ checked' = 0 * PerSector
    BY <1>4, <2>1
  <2>3. ScanPlace'
    BY <1>1, <2>2 DEF ScanPlace
  <2>4. Passed(gpt, 0) /\ TookUpTo(gpt, 0, parts)
    BY DEF Passed, TookUpTo
  <2>5. next = "scan" => FoundOne(gpt, found)
    BY <1>1 DEF ScanInv
  <2>. QED BY <1>1, <1>4, <2>3, <2>4, <2>5 DEF ScanInv
<1>. QED BY <1>2, <1>3, <1>4

LEMMA ScanFind ==
  ASSUME PartInv, ScanInv, find_efi_partition
  PROVE  ScanInv'
<1>. DEFINE sector == gpt.entries[lba]
<1>1. phase = "find" /\ gpt' = gpt /\ parts' = parts /\ FromTable(gpt, parts) /\ Passed(gpt, checked) /\ gpt \in Tables
  BY DEF find_efi_partition, Goto, ScanInv, PartInv
<1>2. PICK s \in Nat : lba = gpt.first_part_lba + s /\ checked = s * PerSector
  BY <1>1 DEF ScanInv, ScanPlace
<1>3. \/ phase' = "failed"
      \/ /\ phase' = "header" /\ lba < gpt.first_usable_lba
         /\ \E k \in FoundIn(sector) : found' = sector[k].first_lba
      \/ /\ phase' = "find" /\ lba < gpt.first_usable_lba /\ FoundIn(sector) = {}
         /\ gpt.part_count \notin checked + 1 .. checked + PerSector
         /\ lba' = lba + 1 /\ checked' = checked + PerSector
  BY Zenon DEF find_efi_partition, Goto
<1>4. CASE phase' = "failed"
  BY <1>1, <1>4 DEF ScanInv, ScanPlace
<1>5. ASSUME lba < gpt.first_usable_lba PROVE sector = gpt.entries[gpt.first_part_lba + s] /\ DOMAIN sector = 1 .. PerSector
  <2>1. gpt.first_part_lba + s \in Nat /\ gpt.first_part_lba <= gpt.first_part_lba + s
    BY <1>1, <1>2, <1>5, InTable
  <2>2. sector \in [1 .. PerSector -> PartEntry]
    BY <1>1, <1>2, <1>5, <2>1, SectorKind
  <2>. QED BY <1>2, <2>2
<1>6. ASSUME phase' = "header", lba < gpt.first_usable_lba, NEW k \in FoundIn(sector), found' = sector[k].first_lba
      PROVE  ScanInv'
  <2>1. /\ k \in 1 .. PerSector /\ sector[k].efi
        /\ \A j \in 1 .. k - 1 : ~ sector[j].efi /\ s * PerSector + j # gpt.part_count
    BY <1>2, <1>5, <1>6 DEF FoundIn
  <2>. HIDE DEF sector
  <2>2. FoundOne(gpt, sector[k].first_lba)
    BY <1>1, <1>2, <1>5, <1>6, <2>1, FoundOK
  <2>. QED BY <1>1, <1>6, <2>2 DEF ScanInv, ScanPlace
<1>7. ASSUME phase' = "find", lba < gpt.first_usable_lba, FoundIn(sector) = {},
             gpt.part_count \notin checked + 1 .. checked + PerSector,
             lba' = lba + 1, checked' = checked + PerSector
      PROVE  ScanInv'
  <2>1. \A k \in 1 .. PerSector :
          sector[k].efi => \E j \in 1 .. k - 1 : sector[j].efi \/ s * PerSector + j = gpt.part_count
    BY <1>2, <1>5, <1>7 DEF FoundIn
  <2>. HIDE DEF sector
  <2>2. Passed(gpt, checked')
    BY <1>1, <1>2, <1>5, <1>7, <2>1, PassedOK
  <2>3. s + 1 \in Nat /\ lba' = gpt.first_part_lba + (s + 1) /\ checked' = (s + 1) * PerSector
    <3>1. gpt.first_part_lba \in Nat /\ PerSector \in Nat
      BY <1>1, PartitionAssumption
    <3>2. s + 1 \in Nat /\ lba' = gpt.first_part_lba + (s + 1)
      BY <1>2, <1>7, <3>1
    <3>3. checked' = s * PerSector + PerSector
      BY <1>2, <1>7, Zenon
    <3>4. s * PerSector \in Nat /\ (s + 1) * PerSector = s * PerSector + PerSector
      BY NextSector
    <3>. QED BY <3>1, <3>2, <3>3, <3>4
  <2>4. ScanPlace'
    BY <1>1, <2>3 DEF ScanPlace
  <2>. QED BY <1>1, <1>7, <2>2, <2>4 DEF ScanInv
<1>. QED BY <1>3, <1>4, <1>6, <1>7

LEMMA ScanGet ==
  ASSUME PartInv, ScanInv, get_partitions
  PROVE  ScanInv'
<1>. DEFINE used == Used(gpt.entries[lba])
<1>1. /\ phase = "scan" /\ gpt' = gpt /\ found' = found /\ FromTable(gpt, parts) /\ FoundOne(gpt, found)
      /\ TookUpTo(gpt, checked, parts) /\ gpt \in Tables /\ parts \in Seq(PartEntry)
  BY DEF get_partitions, Goto, ScanInv, PartInv, WrapInv
<1>2. PICK s \in Nat : lba = gpt.first_part_lba + s /\ checked = s * PerSector
  BY <1>1 DEF ScanInv, ScanPlace
<1>3. \/ phase' \in {"unwrap", "bounds"} /\ parts' = parts
      \/ phase' = "wrap" /\ parts' = parts /\ ~ (lba < gpt.first_usable_lba)
      \/ /\ lba < gpt.first_usable_lba /\ parts' = parts \o used
         /\ lba' = lba + 1 /\ checked' = checked + PerSector
         /\ phase' = IF checked' >= gpt.part_count THEN "wrap" ELSE "scan"
  BY Zenon DEF get_partitions, Goto
<1>4. CASE phase' \in {"unwrap", "bounds"} /\ parts' = parts
  BY <1>1, <1>4 DEF ScanInv, ScanPlace
<1>5. CASE phase' = "wrap" /\ parts' = parts /\ ~ (lba < gpt.first_usable_lba)
  <2>1. \A i \in 1 .. Sized(gpt) : i \in 1 .. checked
    BY <1>1, <1>2, <1>5, WholeTable
  <2>2. TookAll(gpt, parts)
    BY <1>1, <2>1, Zenon DEF TookAll, TookUpTo
  <2>. QED BY <1>1, <1>5, <2>2 DEF ScanInv, ScanPlace
<1>6. ASSUME lba < gpt.first_usable_lba, parts' = parts \o used, lba' = lba + 1, checked' = checked + PerSector,
             phase' = IF checked' >= gpt.part_count THEN "wrap" ELSE "scan"
      PROVE  ScanInv'
  <2>1. FromTable(gpt, parts') /\ TookUpTo(gpt, checked', parts')
    BY <1>1, <1>2, <1>6, TakenOK
  <2>2. s + 1 \in Nat /\ lba' = gpt.first_part_lba + (s + 1) /\ checked' = (s + 1) * PerSector /\ checked' \in Nat
    <3>1. gpt.first_part_lba \in Nat /\ PerSector \in Nat
      BY <1>1, PartitionAssumption
    <3>2. s + 1 \in Nat /\ lba' = gpt.first_part_lba + (s + 1)
      <4>1. lba' = (gpt.first_part_lba + s) + 1
        BY <1>2, <1>6, Zenon
      <4>. QED BY <3>1, <4>1
    <3>3. checked' = s * PerSector + PerSector
      BY <1>2, <1>6, Zenon
    <3>4. s * PerSector \in Nat /\ (s + 1) * PerSector = s * PerSector + PerSector
      BY NextSector
    <3>. QED BY <3>1, <3>2, <3>3, <3>4
  <2>3. ScanPlace'
    BY <1>1, <2>2 DEF ScanPlace
  <2>4. ASSUME checked' >= gpt.part_count PROVE TookAll(gpt, parts')
    <3>1. gpt.part_count \in Nat
      BY <1>1, PartitionAssumption
    <3>2. \A i \in 1 .. Sized(gpt) : i <= gpt.part_count => i \in 1 .. checked'
      BY <2>2, <2>4, <3>1
    <3>. QED BY <2>1, <3>2, Zenon DEF TookAll, TookUpTo
  <2>5. CASE checked' >= gpt.part_count
    <3>1. phase' = "wrap"
      BY <1>6, <2>5
    <3>. QED BY <1>1, <2>1, <2>3, <2>4, <2>5, <3>1 DEF ScanInv
  <2>6. CASE ~ (checked' >= gpt.part_count)
    <3>1. phase' = "scan"
      BY <1>6, <2>6
    <3>. QED BY <1>1, <2>1, <2>3, <3>1 DEF ScanInv
  <2>. QED BY <2>5, <2>6
<1>. QED BY <1>3, <1>4, <1>5, <1>6


\* The other steps leave the table, what was found and the partitions alone.
LEMMA ScanKept ==
  ASSUME ScanInv, gpt' = gpt, found' = found, parts' = parts,
         \/ phase' \in {"search", "unwrap", "bounds", "fault"}
         \/ phase \in {"wrap", "fs", "booted"} /\ phase' \in {"wrap", "fs", "booted"}
  PROVE  ScanInv'
BY DEF ScanInv, ScanPlace

LEMMA ScanStep ==
  ASSUME PartInv, ScanInv, [PartNext]_pvars
  PROVE  ScanInv'
<1>1. CASE UNCHANGED pvars
  <2>1. gpt' = gpt /\ phase' = phase /\ lba' = lba /\ checked' = checked /\ found' = found /\ parts' = parts
    BY <1>1 DEF pvars
  <2>. QED BY <2>1 DEF ScanInv, ScanPlace
<1>2. CASE initialize_console
  BY <1>2, ScanKept DEF initialize_console, Goto
<1>3. CASE ReadHeader("search", "find", "failed")
  BY <1>3, ScanHeader
<1>4. CASE ReadHeader("header", "scan", "unwrap")
  BY <1>4, ScanHeader
<1>5. CASE WrapPartition
  <2>1. phase = "wrap" /\ phase' \in {"bounds", "fault", "wrap"} /\ UNCHANGED <<gpt, found, parts>>
    BY <1>5 DEF WrapPartition, Goto
  <2>. QED BY <2>1, ScanKept
<1>6. CASE WrapDisk
  <2>1. phase = "wrap" /\ phase' \in {"fault", "fs"} /\ UNCHANGED <<gpt, found, parts>>
    BY <1>6 DEF WrapDisk, Goto
  <2>. QED BY <2>1, ScanKept
<1>7. CASE PublishFileSystem
  <2>1. phase = "fs" /\ phase' \in {"unwrap", "booted"} /\ UNCHANGED <<gpt, found, parts>>
    BY <1>7 DEF PublishFileSystem, Goto
  <2>. QED BY <2>1, ScanKept
<1>8. CASE \E handle \in Handles, start \in {0, 1}, n \in 0 .. 2 : read_blocks(handle, start, n)
  <2>1. phase = "booted" /\ phase' = "booted" /\ UNCHANGED <<gpt, found, parts>>
    BY <1>8 DEF read_blocks
  <2>. QED BY <2>1, ScanKept
<1>. QED BY <1>1, <1>2, <1>3, <1>4, <1>5, <1>6, <1>7, <1>8, ScanFind, ScanGet, Zenon DEF PartNext, Startup

\* A table the firmware can boot from by its own rules: the header counts at least one
\* entry, and an EFI partition has a GUID of its own.
Bootable(g) == g.part_count > 0 /\ \A i \in 1 .. Sized(g) : EntryOf(g, i).efi => EntryOf(g, i).guid # NoGuid

\* Without the last handle there is no file system.
LEMMA NotYetPublished ==
  ASSUME NEW d, NEW w \in Seq(BlockWrappers), NEW f, NEW p, DbShape(d, w, f, p), Len(d) <= 4 + Len(w),
         NEW h \in DOMAIN d
  PROVE  get_protocol(d, h, FileSystem) = 0
<1>1. PICK E : d \in Seq(Seq(E))
  BY DEF DbShape, IsDb
<1>2. DOMAIN d = 1 .. Len(d) /\ Len(d) \in Nat /\ Len(w) \in Nat /\ IsDb(d)
  BY <1>1 DEF DbShape
<1>3. FileSystem \notin {BlockIo, DevicePathGuid} /\ BlockIo # DevicePathGuid
  BY PartitionAssumption
<1>4. CASE h <= 3
  <2>1. \A i \in 1 .. Len(d[h]) : d[h][i].guid \in {TextInput, TextInputEx, TextOutput}
    BY <1>4, Zenon DEF DbShape
  <2>2. \A i \in 1 .. Len(d[h]) : d[h][i].guid # FileSystem
    BY <2>1, PartitionAssumption
  <2>3. ~ IsFirst(d[h], FileSystem, get_protocol(d, h, FileSystem))
    BY <2>2, Zenon DEF IsFirst
  <2>. QED BY <1>1, <2>3, GetProtocol, Zenon
<1>5. CASE h - 3 \in 1 .. Len(w) /\ h = 3 + (h - 3)
  <2>. DEFINE i == h - 3
  <2>1. d[3 + i] = OnHandle(BlockIo, i, w[i].disk_paths)
    BY <1>5, Zenon DEF DbShape
  <2>. HIDE DEF i
  <2>2. d[h] = OnHandle(BlockIo, i, w[i].disk_paths)
    BY <1>5, <2>1 DEF i
  <2>. QED BY <1>2, <1>3, <2>2, OnHandleIs
<1>6. CASE h = 4 + Len(w)
  <2>1. d[h] = OnHandle(BlockIo, 0, PciPath)
    BY <1>6, Zenon DEF DbShape
  <2>. QED BY <1>2, <1>3, <2>1, OnHandleIs
<1>. QED BY <1>2, <1>4, <1>5, <1>6

\* With one EFI entry in the table, the scans met the same.
LEMMA SamePartition ==
  ASSUME PartInv, ScanInv, phase = "booted", Bootable(gpt), OneEfi(Entries)
  PROVE  efi_part_id \in 1 .. Len(wrappers) /\ parts[efi_part_id] \in PartEntry /\ parts[efi_part_id].first_lba = found
<1>. DEFINE N == Sized(gpt)
            S == {i \in DOMAIN Entries : Entries[i].efi}
<1>1. /\ PhaseInv(phase, Len(db), parts, wrappers, whole) /\ WrapInv(parts, wrappers, efi_part_id)
      /\ gpt \in Tables /\ FoundOne(gpt, found) /\ FromTable(gpt, parts) /\ TookAll(gpt, parts)
  BY DEF PartInv, ScanInv
<1>2. N \in Int
  <2>1. gpt.first_part_lba \in Nat /\ gpt.first_usable_lba \in Nat /\ PerSector \in Nat
    BY <1>1, PartitionAssumption
  <2>. QED BY <2>1 DEF Sized
<1>3. DOMAIN Entries = 1 .. N /\ \A i \in 1 .. N : Entries[i] = EntryOf(gpt, i)
  BY Zenon DEF Entries, EntryOf, Sized
<1>. HIDE DEF N
<1>6. PICK x : S = {x}
  BY Zenon DEF OneEfi
<1>7. \A i \in 1 .. N : EntryOf(gpt, i).efi => i = x
  BY <1>3, <1>6
<1>. HIDE DEF S
<1>8. PICK e \in 1 .. N : EntryOf(gpt, e).efi /\ found = EntryOf(gpt, e).first_lba /\ e <= gpt.part_count
  BY <1>1 DEF FoundOne, Bootable, N
<1>9. PICK j \in 1 .. Len(parts) : parts[j] = EntryOf(gpt, e)
  BY <1>1, <1>8 DEF TookAll, IsTaken, Bootable, N
<1>10. /\ parts \in Seq(PartEntry) /\ Len(wrappers) = Len(parts) /\ efi_part_id \in 0 .. Len(wrappers)
       /\ efi_part_id = 0 => \A i \in 1 .. Len(wrappers) : ~ parts[i].efi
       /\ efi_part_id # 0 => parts[efi_part_id].efi
  BY <1>1 DEF PhaseInv, WrapInv
<1>11. efi_part_id # 0
  BY <1>8, <1>9, <1>10
<1>12. efi_part_id \in 1 .. Len(parts) /\ parts[efi_part_id] \in PartEntry /\ parts[efi_part_id].efi
  BY <1>10, <1>11
<1>13. PICK i \in 1 .. N : parts[efi_part_id] = EntryOf(gpt, i)
  BY <1>1, <1>12 DEF FromTable, N
<1>14. i = e
  BY <1>7, <1>8, <1>12, <1>13
<1>. QED BY <1>8, <1>10, <1>12, <1>13, <1>14

LEMMA FileSystemPathOK ==
  ASSUME PartInv, ScanInv, Bootable(gpt)
  PROVE  FileSystemPath
<1>. SUFFICES ASSUME OneEfi(Entries), NEW h \in Publishing(FileSystem)
              PROVE  /\ HardDisk(h).start = db[h][get_protocol(db, h, FileSystem)].interface
                     /\ \E k \in Publishing(BlockIo) : DevicePathOf(k) = DevicePathOf(h)
  BY DEF FileSystemPath
<1>1. h \in DOMAIN db /\ get_protocol(db, h, FileSystem) # 0
  BY DEF Publishing, Handles
<1>. DEFINE path == Wrapper(efi_part_id).disk_paths
<1>2. /\ PhaseInv(phase, Len(db), parts, wrappers, whole) /\ WrapInv(parts, wrappers, efi_part_id)
      /\ DbShape(db, wrappers, found, path)
  BY DEF PartInv
<1>. HIDE DEF path
<1>3. /\ wrappers \in Seq(BlockWrappers) /\ \A i \in 1 .. Len(wrappers) : wrappers[i] = Wrapped(i, parts[i])
      /\ phase # "booted" => Len(db) <= 4 + Len(wrappers)
      /\ phase = "booted" => Len(db) = 5 + Len(wrappers)
  BY <1>2 DEF PhaseInv, WrapInv
<1>4. phase = "booted"
  BY <1>1, <1>2, <1>3, NotYetPublished
<1>5. /\ efi_part_id \in 1 .. Len(wrappers) /\ efi_part_id \in Nat /\ efi_part_id # 0 /\ efi_part_id \in 0 .. Len(wrappers)
      /\ parts[efi_part_id] \in PartEntry /\ parts[efi_part_id].first_lba = found
  <2>1. Len(wrappers) \in Nat
    BY <1>3
  <2>. QED BY <1>4, <2>1, SamePartition
<1>6. wrappers[efi_part_id] = Wrapped(efi_part_id, parts[efi_part_id])
  BY <1>3, <1>5
<1>7. wrappers[efi_part_id].disk_paths[4].start = found
  BY <1>5, <1>6, WrappedPath
<1>8. path = wrappers[efi_part_id].disk_paths
  BY <1>5 DEF path, Wrapper
<1>9. /\ db[h][get_protocol(db, h, FileSystem)].interface = found /\ DevicePathOf(h) = path
      /\ \E k \in DOMAIN db : BlocksHandle(db, k, wrappers, efi_part_id)
  <2>1. Len(db) = 5 + Len(wrappers)
    BY <1>3, <1>4
  <2>2. /\ \A i \in 0 .. Len(wrappers) : \E k \in DOMAIN db : BlocksHandle(db, k, wrappers, i)
        /\ db[h][get_protocol(db, h, FileSystem)].interface = found
        /\ db[h][get_protocol(db, h, DevicePathGuid)].interface = path
    BY <1>1, <1>2, <1>3, <2>1, BlocksOnHandle
  <2>. QED BY <1>5, <2>2, Zenon DEF DevicePathOf
<1>10. PICK k \in DOMAIN db : BlocksHandle(db, k, wrappers, efi_part_id)
  BY <1>9
<1>11. k \in Publishing(BlockIo) /\ DevicePathOf(k) = path
  BY <1>5, <1>8, <1>10 DEF BlocksHandle, Publishing, Handles, DevicePathOf
<1>. QED BY <1>7, <1>8, <1>9, <1>11 DEF HardDisk

\* What start-up keeps, from the console to the running image.
LEMMA StartupSafe == PartSpec => [](PartInv /\ ScanInv)
<1>1. PartInit => PartInv /\ ScanInv
  <2>. SUFFICES ASSUME PartInit PROVE PartInv /\ ScanInv
    OBVIOUS
  <2>1. phase = "console" /\ parts = << >>
    BY DEF PartInit
  <2>2. FromTable(gpt, parts)
    BY <2>1 DEF FromTable
  <2>. QED BY <2>1, <2>2, PartInitOK DEF ScanInv, ScanPlace
<1>2. PartInv /\ ScanInv /\ [PartNext]_pvars => (PartInv /\ ScanInv)'
  BY PartStep, ScanStep DEF ScanInv
<1>. QED BY <1>1, <1>2, PTL DEF PartSpec

\* For any table, any limits and any sector that cannot be read: an image that reads blocks
\* through a handle gets those of the partition the handle's device path describes.
THEOREM PartitionReads == PartSpec => []ReadsPartition
<1>1. PartInv => ReadsPartition
  BY DEF PartInv, ReadsPartition
<1>. QED BY <1>1, StartupSafe, PTL

\* For any table that is bootable by the rules of part.rs, with one EFI partition in it: the
\* device path next to the file system is that of the partition find_efi_partition chose.
THEOREM FileSystemFound == Bootable(gpt) /\ PartSpec => []FileSystemPath
<1>1. Bootable(gpt) /\ [PartNext]_pvars => Bootable(gpt)'
  <2>. SUFFICES ASSUME Bootable(gpt), [PartNext]_pvars PROVE Bootable(gpt)'
    OBVIOUS
  <2>1. gpt' = gpt
    BY DEF PartNext, Startup, initialize_console, ReadHeader, find_efi_partition, get_partitions, WrapPartition,
           WrapDisk, PublishFileSystem, read_blocks, Goto, pvars
  <2>. QED BY <2>1
<1>2. PartInv /\ ScanInv /\ Bootable(gpt) => FileSystemPath
  BY FileSystemPathOK
<1>. QED BY <1>1, <1>2, StartupSafe, PTL DEF PartSpec

=============================================================================
