---------------------------- MODULE HandleProofs ----------------------------
(***************************************************************************)
(* Proofs about the handle database, for any limits and protocols.         *)
(*                                                                         *)
(* The database is a sequence of sequences of protocols of any kind E.     *)
(* Installing adds pairs behind the protocols a handle has, or adds a      *)
(* handle with them; the first protocol with a GUID stays where it is.     *)
(***************************************************************************)
EXTENDS HandleDatabase, NatLemmas

\* Every leaf is tried with Zenon, with the SMT solver, and with Zenon for longer.
USE ZenonT(2), SMTT(30), ZenonT(30)

-----------------------------------------------------------------------------
(* Looking up and installing protocols *)

\* Sequences with the same elements are the same.
LEMMA SameSeq ==
  ASSUME NEW S, NEW s \in Seq(S), NEW t \in Seq(S), Len(s) = Len(t), \A i \in 1 .. Len(s) : s[i] = t[i]
  PROVE  s = t
OBVIOUS

\* Position k holds the first protocol with the GUID.
IsFirst(s, g, k) ==
  k \in 1 .. Len(s) /\ s[k].guid = g /\ \A i \in 1 .. Len(s) : s[i].guid = g => k <= i

LEMMA GetProtocol ==
  ASSUME NEW E, NEW d \in Seq(Seq(E)), NEW h \in DOMAIN d, NEW g
  PROVE  \/ IsFirst(d[h], g, get_protocol(d, h, g)) /\ get_protocol(d, h, g) # 0
         \/ get_protocol(d, h, g) = 0 /\ \A i \in 1 .. Len(d[h]) : d[h][i].guid # g
<1>. DEFINE held == {i \in DOMAIN d[h] : d[h][i].guid = g}
<1>1. d[h] \in Seq(E) /\ DOMAIN d[h] = 1 .. Len(d[h]) /\ Len(d[h]) \in Nat
  OBVIOUS
<1>2. CASE held = {}
  BY <1>1, <1>2 DEF get_protocol
<1>3. CASE held # {}
  <2>1. held \in SUBSET Nat
    BY <1>1
  <2>2. Min(held) \in held /\ \A n \in held : Min(held) <= n
    BY <1>3, <2>1, MinIsLeast
  <2>3. get_protocol(d, h, g) = Min(held)
    BY <1>3 DEF get_protocol
  <2>. QED BY <1>1, <2>2, <2>3 DEF IsFirst
<1>. QED BY <1>2, <1>3

LEMMA FirstProtocol ==
  ASSUME NEW E, NEW d \in Seq(Seq(E)), NEW h \in DOMAIN d, NEW g, NEW k, IsFirst(d[h], g, k)
  PROVE  get_protocol(d, h, g) = k
<1>1. Len(d[h]) \in Nat /\ k \in 1 .. Len(d[h]) /\ d[h][k].guid = g
  BY DEF IsFirst
<1>2. IsFirst(d[h], g, get_protocol(d, h, g))
  BY <1>1, GetProtocol
<1>. QED BY <1>1, <1>2 DEF IsFirst

Duplicates(s, pairs) == \E i \in 1 .. Len(s), j \in 1 .. Len(pairs) : s[i].guid = pairs[j].guid

\* The pairs are installed on the handle, or on a new one for the null handle.
Installed(d, handle, pairs, r) ==
  /\ r.status = "SUCCESS"
  /\ \/ /\ handle \in DOMAIN d /\ r.handle = handle
        /\ r.db = [d EXCEPT ![handle] = @ \o pairs]
        /\ ~ Duplicates(d[handle], pairs)
     \/ /\ handle = NullHandle /\ Len(d) < MaxHandles
        /\ r.handle = Len(d) + 1 /\ r.db = Append(d, pairs)

\* Or nothing changes, and for a reason.
Refused(d, handle, pairs, r) ==
  /\ r.status \in {"INVALID_PARAMETER", "OUT_OF_RESOURCES"} /\ r.handle = NullHandle /\ r.db = d
  /\ handle = NullHandle => Len(d) >= MaxHandles
  /\ handle \in DOMAIN d => Duplicates(d[handle], pairs) \/ Len(d[handle]) + Len(pairs) > MaxProtocols

LEMMA DuplicateIs ==
  ASSUME NEW E, NEW d \in Seq(Seq(E)), NEW h \in DOMAIN d, NEW pairs \in Seq(E)
  PROVE  Duplicate(d, h, pairs) <=> Duplicates(d[h], pairs)
<1>1. \A j \in 1 .. Len(pairs) :
        get_protocol(d, h, pairs[j].guid) # 0 <=> \E i \in 1 .. Len(d[h]) : d[h][i].guid = pairs[j].guid
  <2>. SUFFICES ASSUME NEW j \in 1 .. Len(pairs)
                PROVE  get_protocol(d, h, pairs[j].guid) # 0
                         <=> \E i \in 1 .. Len(d[h]) : d[h][i].guid = pairs[j].guid
    OBVIOUS
  <2>. QED BY GetProtocol DEF IsFirst
<1>2. DOMAIN pairs = 1 .. Len(pairs)
  OBVIOUS
<1>. QED BY <1>1, <1>2, Zenon DEF Duplicate, Duplicates

LEMMA Replaced ==
  ASSUME NEW T, NEW s \in Seq(T), NEW i \in 1 .. Len(s), NEW e \in T, NEW r, r = [s EXCEPT ![i] = e]
  PROVE  r \in Seq(T) /\ Len(r) = Len(s) /\ r[i] = e /\ \A j \in 1 .. Len(s) : j # i => r[j] = s[j]
BY SMT

LEMMA ReplaceLast ==
  ASSUME NEW T, NEW d \in Seq(T), NEW e \in T, NEW v \in T
  PROVE  [Append(d, e) EXCEPT ![Len(d) + 1] = v] = Append(d, v)
<1>. DEFINE b == Append(d, e)
            c == Append(d, v)
<1>1. /\ b \in Seq(T) /\ Len(b) = Len(d) + 1 /\ Len(d) + 1 \in 1 .. Len(b)
      /\ c \in Seq(T) /\ Len(c) = Len(d) + 1 /\ c[Len(d) + 1] = v
  OBVIOUS
<1>2. \A i \in 1 .. Len(d) + 1 : i # Len(d) + 1 => b[i] = c[i]
  OBVIOUS
<1>. HIDE DEF b, c
<1>. DEFINE a == [b EXCEPT ![Len(d) + 1] = v]
<1>3. /\ a \in Seq(T) /\ Len(a) = Len(b) /\ a[Len(d) + 1] = v
      /\ \A j \in 1 .. Len(b) : j # Len(d) + 1 => a[j] = b[j]
  BY <1>1, Replaced
<1>. HIDE DEF a
<1>4. \A j \in 1 .. Len(a) : a[j] = c[j]
  BY <1>1, <1>2, <1>3
<1>5. a = c
  BY <1>1, <1>3, <1>4, SameSeq, Zenon
<1>. QED BY <1>5 DEF a, b, c

LEMMA AddToNew ==
  ASSUME NEW E, NEW d \in Seq(Seq(E)), NEW pairs \in Seq(E)
  PROVE  /\ Append(d, << >>) \in Seq(Seq(E)) /\ Len(d) + 1 \in DOMAIN Append(d, << >>)
         /\ Append(d, << >>)[Len(d) + 1] = << >>
         /\ Add(Append(d, << >>), Len(d) + 1, pairs) = Append(d, pairs)
<1>1. << >> \in Seq(E) /\ << >> \o pairs = pairs
  OBVIOUS
<1>. DEFINE T == Seq(E)
<1>. HIDE DEF T
<1>2. d \in Seq(T) /\ << >> \in T /\ pairs \in T
  BY <1>1 DEF T
<1>3. /\ Append(d, << >>) \in Seq(T) /\ Len(d) + 1 \in DOMAIN Append(d, << >>)
      /\ Append(d, << >>)[Len(d) + 1] = << >>
  BY <1>2
<1>4. [Append(d, << >>) EXCEPT ![Len(d) + 1] = pairs] = Append(d, pairs)
  BY <1>2, ReplaceLast
<1>. QED BY <1>1, <1>3, <1>4 DEF Add, T

\* new is d with the pairs behind the protocols of handle h, or on a handle h of their own.
Grown(d, h, pairs, new) ==
  /\ h \in DOMAIN new /\ Len(new) \in Nat /\ DOMAIN new = 1 .. Len(new)
  /\ \A k \in DOMAIN d : k \in DOMAIN new /\ (k # h => new[k] = d[k])
  /\ \/ h \in DOMAIN d /\ Len(new) = Len(d) /\ new[h] = d[h] \o pairs
     \/ h = Len(d) + 1 /\ Len(new) = Len(d) + 1 /\ Len(d) < MaxHandles /\ new[h] = pairs

LEMMA OneMore ==
  ASSUME NEW n \in Nat, NEW m, m = n \/ m = n + 1, NEW h \in 1 .. m
  PROVE  h \in 1 .. n \/ (m = n + 1 /\ h = n + 1)
OBVIOUS

\* Installed databases stay of their kind.
LEMMA InstalledKind ==
  ASSUME NEW E, NEW d \in Seq(Seq(E)), NEW handle, NEW pairs \in Seq(E), NEW r,
         Installed(d, handle, pairs, r)
  PROVE  /\ r.db \in Seq(Seq(E)) /\ r.handle \in DOMAIN r.db
         /\ handle \in DOMAIN d \/ handle = NullHandle
         /\ r.handle = IF handle \in DOMAIN d THEN handle ELSE Len(d) + 1
         /\ Grown(d, r.handle, pairs, r.db)
<1>. DEFINE T == Seq(E)
<1>1. d \in Seq(T) /\ pairs \in T /\ \A h \in DOMAIN d : d[h] \o pairs \in T
  OBVIOUS
<1>. HIDE DEF T
<1>2. Len(d) \in Nat /\ DOMAIN d = 1 .. Len(d)
  BY <1>1
<1>3. CASE handle \in DOMAIN d
  <2>1. r.handle = handle /\ r.db = [d EXCEPT ![handle] = d[handle] \o pairs]
    BY <1>2, <1>3 DEF Installed, NullHandle
  <2>2. /\ r.db \in Seq(T) /\ Len(r.db) = Len(d) /\ r.db[handle] = d[handle] \o pairs
        /\ \A j \in 1 .. Len(d) : j # handle => r.db[j] = d[j]
    BY <1>1, <1>2, <1>3, <2>1, Replaced
  <2>3. DOMAIN r.db = 1 .. Len(d)
    BY <2>2
  <2>. QED BY <1>2, <1>3, <2>1, <2>2, <2>3, Zenon DEF T, Grown
<1>4. CASE handle \notin DOMAIN d
  <2>1. handle = NullHandle /\ r.handle = Len(d) + 1 /\ r.db = Append(d, pairs) /\ Len(d) < MaxHandles
    BY <1>4 DEF Installed
  <2>2. /\ r.db \in Seq(T) /\ Len(r.db) = Len(d) + 1 /\ r.db[Len(d) + 1] = pairs
        /\ \A j \in 1 .. Len(d) : r.db[j] = d[j]
    BY <1>1, <2>1
  <2>3. DOMAIN r.db = 1 .. Len(d) + 1
    BY <1>2, <2>2
  <2>4. Len(d) + 1 \in Nat /\ Len(d) + 1 \in 1 .. Len(d) + 1 /\ \A h \in 1 .. Len(d) : h \in 1 .. Len(d) + 1
    BY <1>2
  <2>. QED BY <1>2, <1>4, <2>1, <2>2, <2>3, <2>4, Zenon DEF T, Grown
<1>. QED BY <1>3, <1>4

\* InstallProtocol, for a handle of the database, the null handle or a foreign one.
LEMMA InstallOne ==
  ASSUME NEW E, NEW d \in Seq(Seq(E)), NEW pair \in E,
         NEW handle \in DOMAIN d \cup {NullHandle, Foreign},
         NEW r, r = InstallProtocol(d, handle, pair)
  PROVE  Installed(d, handle, <<pair>>, r) \/ Refused(d, handle, <<pair>>, r)
<1>. DEFINE pairs == <<pair>>
            new == Acquire(d, handle)
<1>1. /\ pairs \in Seq(E) /\ Len(pairs) = 1 /\ DOMAIN d = 1 .. Len(d) /\ Len(d) \in Nat
      /\ 0 \notin DOMAIN d /\ -1 \notin DOMAIN d /\ MaxProtocols \in Nat /\ MaxProtocols >= 1
  BY HandleAssumption
<1>2. CASE handle = Foreign
  <2>1. new = Failed("INVALID_PARAMETER", d)
    BY <1>2 DEF Acquire
  <2>2. r = new
    BY <2>1 DEF InstallProtocol, Failed, Result
  <2>. QED BY <1>1, <1>2, <2>1, <2>2 DEF Refused, Failed, Result, Foreign, NullHandle
<1>3. CASE handle \in DOMAIN d
  <2>1. new = Result("SUCCESS", handle, d)
    BY <1>1, <1>3 DEF Acquire, Foreign
  <2>2. Duplicate(d, handle, pairs) <=> Duplicates(d[handle], pairs)
    BY <1>1, <1>3, DuplicateIs
  <2>3. CASE Duplicate(d, handle, pairs)
    <3>1. r = Failed("INVALID_PARAMETER", d)
      BY <2>1, <2>3 DEF InstallProtocol, Result
    <3>. QED BY <1>1, <1>3, <2>2, <2>3, <3>1 DEF Refused, Failed, Result, NullHandle
  <2>4. CASE ~ Duplicate(d, handle, pairs) /\ Len(d[handle]) >= MaxProtocols
    <3>1. r = Failed("OUT_OF_RESOURCES", d)
      BY <2>1, <2>4 DEF InstallProtocol, Result
    <3>2. Len(d[handle]) + Len(pairs) > MaxProtocols
      BY <1>1, <1>3, <2>4
    <3>. QED BY <1>1, <1>3, <3>1, <3>2 DEF Refused, Failed, Result, NullHandle
  <2>5. CASE ~ Duplicate(d, handle, pairs) /\ ~ Len(d[handle]) >= MaxProtocols
    <3>1. r = [new EXCEPT !.db = Add(d, handle, pairs)]
      BY <2>1, <2>5 DEF InstallProtocol, Result
    <3>2. r.status = "SUCCESS" /\ r.handle = handle /\ r.db = Add(d, handle, pairs)
      BY <2>1, <3>1 DEF Result
    <3>. QED BY <1>3, <2>2, <2>5, <3>2 DEF Installed, Add
  <2>. QED BY <2>3, <2>4, <2>5
<1>4. CASE handle = NullHandle /\ Len(d) >= MaxHandles
  <2>1. new = Failed("OUT_OF_RESOURCES", d)
    BY <1>1, <1>4 DEF Acquire, Foreign, NullHandle
  <2>2. r = new
    BY <2>1 DEF InstallProtocol, Failed, Result
  <2>. QED BY <1>1, <1>4, <2>1, <2>2 DEF Refused, Failed, Result, NullHandle
<1>5. CASE handle = NullHandle /\ ~ Len(d) >= MaxHandles
  <2>. DEFINE e == Append(d, << >>)
              n == Len(d) + 1
  <2>1. new = Result("SUCCESS", n, e)
    BY <1>1, <1>5 DEF Acquire, Foreign, NullHandle
  <2>2. e \in Seq(Seq(E)) /\ n \in DOMAIN e /\ e[n] = << >> /\ Add(e, n, pairs) = Append(d, pairs)
    BY <1>1, AddToNew
  <2>. HIDE DEF e, n
  <2>3. ~ Duplicate(e, n, pairs)
    <3>1. ~ Duplicates(e[n], pairs)
      BY <2>2 DEF Duplicates
    <3>. QED BY <1>1, <2>2, <3>1, DuplicateIs
  <2>4. ~ Len(e[n]) >= MaxProtocols
    BY <1>1, <2>2
  <2>5. r = [new EXCEPT !.db = Add(e, n, pairs)]
    BY <2>1, <2>3, <2>4 DEF InstallProtocol, Result
  <2>. HIDE DEF new, pairs
  <2>6. r = [Result("SUCCESS", n, e) EXCEPT !.db = Append(d, pairs)]
    BY <2>1, <2>2, <2>5, Zenon
  <2>7. r.status = "SUCCESS" /\ r.handle = n /\ r.db = Append(d, pairs)
    BY <2>6, SMT DEF Result
  <2>8. Len(d) < MaxHandles
    BY <1>1, <1>5, HandleAssumption
  <2>. QED BY <1>5, <2>7, <2>8 DEF Installed, n, pairs
<1>. QED BY <1>2, <1>3, <1>4, <1>5

\* InstallMultipleProtocol, for no more pairs than a handle can take: its assert holds.
LEMMA InstallMany ==
  ASSUME NEW E, db \in Seq(Seq(E)), NEW pairs \in Seq(E), Len(pairs) <= MaxProtocols,
         NEW handle \in DOMAIN db \cup {NullHandle, Foreign},
         NEW r, r = InstallMultipleProtocol(handle, pairs)
  PROVE  Installed(db, handle, pairs, r) \/ Refused(db, handle, pairs, r)
<1>. DEFINE new == Acquire(db, handle)
<1>1. /\ Len(pairs) \in Nat /\ DOMAIN db = 1 .. Len(db) /\ Len(db) \in Nat
      /\ 0 \notin DOMAIN db /\ -1 \notin DOMAIN db /\ MaxProtocols \in Nat
  BY HandleAssumption
<1>2. CASE handle = Foreign
  <2>1. new = Failed("INVALID_PARAMETER", db)
    BY <1>2 DEF Acquire
  <2>2. r = new
    BY <2>1 DEF InstallMultipleProtocol, Failed, Result
  <2>. QED BY <1>1, <1>2, <2>1, <2>2 DEF Refused, Failed, Result, Foreign, NullHandle
<1>3. CASE handle \in DOMAIN db
  <2>1. new = Result("SUCCESS", handle, db) /\ handle \in Handles
    BY <1>1, <1>3 DEF Acquire, Foreign, Handles
  <2>2. Duplicate(db, handle, pairs) <=> Duplicates(db[handle], pairs)
    BY <1>3, DuplicateIs
  <2>3. Len(db[handle]) \in Nat
    BY <1>3
  <2>4. CASE Len(db[handle]) > MaxProtocols - Len(pairs)
    <3>1. r = Failed("OUT_OF_RESOURCES", db)
      BY <2>1, <2>4 DEF InstallMultipleProtocol, Result
    <3>2. Len(db[handle]) + Len(pairs) > MaxProtocols
      BY <1>1, <2>3, <2>4
    <3>. QED BY <1>1, <1>3, <3>1, <3>2 DEF Refused, Failed, Result, NullHandle
  <2>5. CASE ~ Len(db[handle]) > MaxProtocols - Len(pairs) /\ Duplicate(db, handle, pairs)
    <3>1. r = Failed("INVALID_PARAMETER", db)
      BY <2>1, <2>5 DEF InstallMultipleProtocol, Result
    <3>. QED BY <1>1, <1>3, <2>2, <2>5, <3>1 DEF Refused, Failed, Result, NullHandle
  <2>6. CASE ~ Len(db[handle]) > MaxProtocols - Len(pairs) /\ ~ Duplicate(db, handle, pairs)
    <3>1. ~ Len(db[handle]) + Len(pairs) > MaxProtocols
      BY <1>1, <2>3, <2>6
    <3>2. r = [Result("SUCCESS", handle, db) EXCEPT !.db = Add(db, handle, pairs)]
      BY <2>1, <2>6, <3>1 DEF InstallMultipleProtocol, Result
    <3>3. r.status = "SUCCESS" /\ r.handle = handle /\ r.db = Add(db, handle, pairs)
      BY <3>2, SMT DEF Result
    <3>. QED BY <1>3, <2>2, <2>6, <3>3 DEF Installed, Add
  <2>. QED BY <2>4, <2>5, <2>6
<1>4. CASE handle = NullHandle /\ Len(db) >= MaxHandles
  <2>1. new = Failed("OUT_OF_RESOURCES", db)
    BY <1>1, <1>4 DEF Acquire, Foreign, NullHandle
  <2>2. r = new
    BY <2>1 DEF InstallMultipleProtocol, Failed, Result
  <2>. QED BY <1>1, <1>4, <2>1, <2>2 DEF Refused, Failed, Result, NullHandle
<1>5. CASE handle = NullHandle /\ ~ Len(db) >= MaxHandles
  <2>. DEFINE e == Append(db, << >>)
              n == Len(db) + 1
  <2>1. new = Result("SUCCESS", n, e)
    BY <1>1, <1>5 DEF Acquire, Foreign, NullHandle
  <2>2. e \in Seq(Seq(E)) /\ n \in DOMAIN e /\ e[n] = << >> /\ Add(e, n, pairs) = Append(db, pairs)
    BY <1>1, AddToNew
  <2>. HIDE DEF e, n
  <2>3. handle \notin Handles /\ ~ Len(e[n]) + Len(pairs) > MaxProtocols
    BY <1>1, <1>5, <2>2 DEF Handles, NullHandle
  <2>4. r = [new EXCEPT !.db = Add(e, n, pairs)]
    BY <2>1, <2>3 DEF InstallMultipleProtocol, Result
  <2>. HIDE DEF new
  <2>5. r = [Result("SUCCESS", n, e) EXCEPT !.db = Append(db, pairs)]
    BY <2>1, <2>2, <2>4, Zenon
  <2>6. r.status = "SUCCESS" /\ r.handle = n /\ r.db = Append(db, pairs)
    BY <2>5, SMT DEF Result
  <2>7. Len(db) < MaxHandles
    BY <1>1, <1>5, HandleAssumption
  <2>. QED BY <1>5, <2>6, <2>7 DEF Installed, n
<1>. QED BY <1>2, <1>3, <1>4, <1>5

-----------------------------------------------------------------------------
(* What an installation does to the first protocol with a GUID *)

HasProtocol(d, h, g) == h \in DOMAIN d /\ get_protocol(d, h, g) # 0

\* The first protocol of h with the GUID is the same in both databases.
SameFirst(d, e, h, g) ==
  /\ get_protocol(e, h, g) = get_protocol(d, h, g)
  /\ e[h][get_protocol(d, h, g)] = d[h][get_protocol(d, h, g)]

\* The first protocol with a GUID stays the first.
LEMMA InstalledKeeps ==
  ASSUME NEW E, NEW d \in Seq(Seq(E)), NEW handle, NEW pairs \in Seq(E), NEW r,
         Installed(d, handle, pairs, r),
         NEW h, NEW g, HasProtocol(d, h, g)
  PROVE  HasProtocol(r.db, h, g) /\ SameFirst(d, r.db, h, g)
<1>. DEFINE k == get_protocol(d, h, g)
<1>0. h \in DOMAIN d /\ k # 0
  BY DEF HasProtocol
<1>1. /\ r.db \in Seq(Seq(E)) /\ h \in DOMAIN r.db
      /\ r.db[h] = d[h] \/ r.db[h] = d[h] \o pairs
  <2>1. r.db \in Seq(Seq(E)) /\ Grown(d, r.handle, pairs, r.db)
    BY InstalledKind
  <2>2. Len(d) \in Nat /\ h \in 1 .. Len(d) /\ h # Len(d) + 1
    BY <1>0
  <2>. QED BY <1>0, <2>1, <2>2, Zenon DEF Grown
<1>2. IsFirst(d[h], g, k)
  BY <1>0, GetProtocol
<1>. HIDE DEF k
<1>. DEFINE old == d[h]
            new == r.db[h]
<1>3. old \in Seq(E) /\ Len(old) \in Nat /\ Len(pairs) \in Nat
  BY <1>0
<1>4. k \in 1 .. Len(old) /\ old[k].guid = g /\ \A i \in 1 .. Len(old) : old[i].guid = g => k <= i
  BY <1>2 DEF IsFirst
<1>5. new = old \/ new = old \o pairs
  BY <1>1
<1>. HIDE DEF old, new
<1>6. /\ Len(new) \in Nat /\ Len(new) >= Len(old) /\ \A i \in 1 .. Len(old) : new[i] = old[i]
  BY <1>3, <1>5
<1>7. IsFirst(new, g, k)
  <2>1. k \in 1 .. Len(new) /\ new[k].guid = g
    BY <1>3, <1>4, <1>6
  <2>2. ASSUME NEW i \in 1 .. Len(new), new[i].guid = g PROVE k <= i
    <3>1. CASE i \in 1 .. Len(old)
      BY <1>4, <1>6, <2>2, <3>1
    <3>2. CASE i \notin 1 .. Len(old)
      BY <1>3, <1>4, <1>6, <3>2
    <3>. QED BY <3>1, <3>2
  <2>. QED BY <2>1, <2>2 DEF IsFirst
<1>8. get_protocol(r.db, h, g) = k
  BY <1>1, <1>7, FirstProtocol DEF new
<1>. QED BY <1>0, <1>1, <1>4, <1>6, <1>8 DEF k, old, new, HasProtocol, SameFirst

\* Each pair is found by its GUID, unless an earlier pair has the same.
LEMMA InstalledFirst ==
  ASSUME NEW E, NEW d \in Seq(Seq(E)), NEW handle, NEW pairs \in Seq(E), NEW r,
         Installed(d, handle, pairs, r),
         NEW i \in 1 .. Len(pairs), \A j \in 1 .. i - 1 : pairs[j].guid # pairs[i].guid
  PROVE  LET k == get_protocol(r.db, r.handle, pairs[i].guid)
         IN  k # 0 /\ r.db[r.handle][k] = pairs[i]
<1>. DEFINE g == pairs[i].guid
            new == r.db[r.handle]
<1>1. r.db \in Seq(Seq(E)) /\ r.handle \in DOMAIN r.db /\ Grown(d, r.handle, pairs, r.db)
  BY InstalledKind
<1>2. Len(pairs) \in Nat /\ Len(d) \in Nat /\ DOMAIN d = 1 .. Len(d)
  OBVIOUS
<1>3. PICK old \in Seq(E) : new = old \o pairs /\ \A m \in 1 .. Len(old) : old[m].guid # g
  <2>1. CASE handle \in DOMAIN d
    <3>0. r.handle = handle
      BY <2>1, InstalledKind
    <3>1. r.handle = handle /\ new = d[handle] \o pairs
      BY <1>1, <1>2, <2>1, <3>0 DEF Grown
    <3>2. ~ Duplicates(d[handle], pairs)
      BY <1>2, <2>1 DEF Installed, NullHandle
    <3>3. \A m \in 1 .. Len(d[handle]) : d[handle][m].guid # g
      BY <3>2 DEF Duplicates
    <3>4. d[handle] \in Seq(E)
      BY <2>1
    <3>. QED BY <3>1, <3>3, <3>4
  <2>2. CASE handle \notin DOMAIN d
    <3>0. r.handle = Len(d) + 1
      BY <2>2, InstalledKind
    <3>1. new = pairs
      BY <1>1, <1>2, <3>0 DEF Grown
    <3>2. << >> \in Seq(E) /\ << >> \o pairs = pairs /\ Len(<< >>) = 0
      OBVIOUS
    <3>3. \A m \in 1 .. 0 : <<>>[m].guid # g
      OBVIOUS
    <3>. QED BY <3>1, <3>2, <3>3
  <2>. QED BY <2>1, <2>2
<1>. DEFINE k == Len(old) + i
<1>. HIDE DEF new
<1>4. /\ Len(old) \in Nat /\ Len(new) = Len(old) + Len(pairs)
      /\ \A m \in 1 .. Len(old) : new[m] = old[m]
      /\ \A m \in 1 .. Len(pairs) : new[Len(old) + m] = pairs[m]
  BY <1>2, <1>3
<1>5. k \in 1 .. Len(new) /\ k # 0 /\ new[k] = pairs[i]
  BY <1>2, <1>4
<1>6. ASSUME NEW m \in 1 .. Len(new), m < k PROVE new[m].guid # g
  <2>1. CASE m <= Len(old)
    BY <1>3, <1>4, <2>1
  <2>2. CASE m > Len(old)
    <3>1. m - Len(old) \in 1 .. i - 1 /\ m - Len(old) \in 1 .. Len(pairs) /\ m = Len(old) + (m - Len(old))
      BY <1>2, <1>4, <1>6, <2>2
    <3>2. new[m] = pairs[m - Len(old)]
      BY <1>4, <3>1
    <3>. QED BY <3>1, <3>2
  <2>. QED BY <1>4, <2>1, <2>2
<1>7. IsFirst(new, g, k)
  <2>1. \A m \in 1 .. Len(new) : new[m].guid = g => k <= m
    BY <1>2, <1>4, <1>6
  <2>. QED BY <1>5, <2>1 DEF IsFirst
<1>8. get_protocol(r.db, r.handle, g) = k
  BY <1>1, <1>7, FirstProtocol DEF new
<1>. QED BY <1>5, <1>8 DEF new

\* No protocol gets a GUID that no pair has.
LEMMA InstalledOthers ==
  ASSUME NEW E, NEW d \in Seq(Seq(E)), NEW handle, NEW pairs \in Seq(E), NEW r,
         Installed(d, handle, pairs, r),
         NEW h \in DOMAIN r.db, NEW g, ~ HasProtocol(d, h, g),
         h = r.handle => \A j \in 1 .. Len(pairs) : pairs[j].guid # g
  PROVE  ~ HasProtocol(r.db, h, g)
<1>. DEFINE new == r.db[h]
<1>1. r.db \in Seq(Seq(E)) /\ r.handle \in DOMAIN r.db /\ Grown(d, r.handle, pairs, r.db)
  BY InstalledKind
<1>2. Len(d) \in Nat /\ DOMAIN d = 1 .. Len(d) /\ Len(pairs) \in Nat /\ DOMAIN r.db = 1 .. Len(r.db)
  BY <1>1
<1>3. \A i \in 1 .. Len(new) : new[i].guid # g
  <2>1. CASE h \in DOMAIN d
    <3>1. \A i \in 1 .. Len(d[h]) : d[h][i].guid # g
      BY <2>1, GetProtocol DEF HasProtocol
    <3>2. CASE h # r.handle
      BY <1>1, <2>1, <3>1, <3>2 DEF Grown
    <3>3. CASE h = r.handle
      <4>1. new = d[h] \o pairs
        <5>1. h # Len(d) + 1
          BY <1>2, <2>1
        <5>. QED BY <1>1, <3>3, <5>1, Zenon DEF Grown
      <4>. DEFINE old == d[h]
      <4>2. old \in Seq(E) /\ Len(old) \in Nat
        BY <2>1
      <4>. HIDE DEF old, new
      <4>3. new = old \o pairs /\ \A i \in 1 .. Len(old) : old[i].guid # g
        BY <3>1, <4>1 DEF old
      <4>4. \A j \in 1 .. Len(pairs) : pairs[j].guid # g
        BY <3>3
      <4>5. Len(new) = Len(old) + Len(pairs)
        BY <4>2, <4>3
      <4>. SUFFICES ASSUME NEW i \in 1 .. Len(new) PROVE new[i].guid # g
        OBVIOUS
      <4>6. CASE i <= Len(old)
        <5>1. i \in 1 .. Len(old) /\ new[i] = old[i]
          BY <1>2, <4>2, <4>3, <4>5, <4>6
        <5>. QED BY <4>3, <5>1
      <4>7. CASE i > Len(old)
        <5>1. i - Len(old) \in 1 .. Len(pairs) /\ new[i] = pairs[i - Len(old)]
          BY <1>2, <4>2, <4>3, <4>5, <4>7
        <5>. QED BY <4>4, <5>1
      <4>. QED BY <4>2, <4>5, <4>6, <4>7, <1>2
    <3>. QED BY <3>2, <3>3
  <2>2. CASE h \notin DOMAIN d
    <3>1. Len(r.db) = Len(d) + 1 /\ r.handle = Len(d) + 1 /\ r.db[r.handle] = pairs
      BY <1>1, <1>2, <2>2 DEF Grown
    <3>2. h = r.handle
      BY <1>2, <2>2, <3>1
    <3>. QED BY <3>1, <3>2
  <2>. QED BY <2>1, <2>2
<1>. QED BY <1>1, <1>3, GetProtocol DEF IsFirst, HasProtocol

-----------------------------------------------------------------------------
(* The services of the handle database *)

\* What the services put into the database.
Protocol ==
  [guid : Guids \cup {DevicePathGuid, Stray}, interface : Interfaces \cup Paths \cup {Null, Stray}]

\* A service installed pairs, those given first, or changed nothing.
Served(op, given, handle, pairs, r) ==
  /\ db' = r.db
  /\ last' = [op |-> op, given |-> given, status |-> r.status, handle |-> r.handle]
  /\ \/ /\ Installed(db, handle, pairs, r)
        /\ 1 <= Len(pairs) /\ Len(given) <= Len(pairs) /\ \A i \in 1 .. Len(given) : pairs[i] = given[i]
     \/ r.status \in {"INVALID_PARAMETER", "OUT_OF_RESOURCES", "UNSUPPORTED"} /\ r.db = db

LEMMA ServedOne ==
  ASSUME NEW E, db \in Seq(Seq(E)), NEW pair \in E,
         NEW handle \in Handles \cup {NullHandle, Foreign},
         install_protocol_interface(handle, pair)
  PROVE  \E r : Served("install", <<pair>>, handle, <<pair>>, r)
<1>. DEFINE r == InstallProtocol(db, handle, pair)
<1>1. Installed(db, handle, <<pair>>, r) \/ Refused(db, handle, <<pair>>, r)
  BY InstallOne DEF Handles
<1>2. /\ db' = r.db
      /\ last' = [op |-> "install", given |-> <<pair>>, status |-> r.status, handle |-> r.handle]
  BY DEF install_protocol_interface, Install
<1>3. 1 <= Len(<<pair>>) /\ Len(<<pair>>) <= Len(<<pair>>)
  OBVIOUS
<1>. HIDE DEF r
<1>4. Served("install", <<pair>>, handle, <<pair>>, r)
  BY <1>1, <1>2, <1>3 DEF Served, Refused
<1>. QED BY <1>4

LEMMA ServedMany ==
  ASSUME db \in Seq(Seq(Protocol)), NEW handle \in Handles \cup {NullHandle, Foreign},
         NEW n \in 0 .. MaxPairs, NEW given \in [1 .. n -> Pairs], NEW stack \in Stacks,
         install_multiple_protocol_interfaces(handle, given, stack)
  PROVE  \E pairs \in Seq(Protocol) : \E r : Served("multiple", given, handle, pairs, r)
<1>. DEFINE guid(i) == IF i = n + 1 THEN Null ELSE stack[i]
            S == {n} \cup {i \in n + 1 .. MaxPairs : guid(i) # Null}
            count == Max(S)
            strays == [i \in 1 .. count - n |-> [guid |-> Stray, interface |-> guid(n + i)]]
            pairs == given \o strays
            r == IF n = 0 THEN Failed("INVALID_PARAMETER", db)
                 ELSE IF guid(MaxPairs + 1) # Null THEN Failed("UNSUPPORTED", db)
                 ELSE InstallMultipleProtocol(handle, pairs)
<1>1. MaxPairs \in Nat /\ MaxProtocols \in Nat /\ MaxPairs <= MaxProtocols /\ n \in Nat
  BY HandleAssumption
<1>2. given \in Seq(Protocol) /\ Len(given) = n
  <2>1. Pairs \subseteq Protocol
    BY DEF Pairs, Protocol
  <2>2. given \in [1 .. n -> Protocol]
    BY <2>1
  <2>. QED BY <1>1, <2>2
<1>3. /\ db' = r.db
      /\ last' = [op |-> "multiple", given |-> given, status |-> r.status, handle |-> r.handle]
  BY <1>2 DEF install_multiple_protocol_interfaces, Install
<1>4. count \in n .. MaxPairs
  <2>1. S \in SUBSET (0 .. MaxPairs) /\ S # {} /\ n \in S
    BY <1>1
  <2>. HIDE DEF S
  <2>2. count \in S /\ n <= count
    BY <1>1, <2>1, MaxIsGreatest
  <2>. HIDE DEF count
  <2>3. count \in 0 .. MaxPairs
    BY <2>1, <2>2, Zenon
  <2>. QED BY <1>1, <2>2, <2>3
<1>5. \A i \in 1 .. count - n : guid(n + i) \in {Null, Stray}
  <2>. SUFFICES ASSUME NEW i \in 1 .. count - n, n + i # n + 1 PROVE stack[n + i] \in {Null, Stray}
    OBVIOUS
  <2>. HIDE DEF count
  <2>1. n + i \in 2 .. MaxPairs + 1
    BY <1>1, <1>4
  <2>2. stack \in [2 .. MaxPairs + 1 -> {Null, Stray}]
    BY HandleAssumption
  <2>. QED BY <2>1, <2>2
<1>. HIDE DEF count, guid
<1>6. strays \in Seq(Protocol) /\ Len(strays) = count - n
  <2>1. count - n \in Nat
    BY <1>1, <1>4
  <2>2. strays \in [1 .. count - n -> Protocol]
    BY <1>5 DEF Protocol
  <2>. HIDE DEF strays
  <2>. QED BY <2>1, <2>2
<1>. HIDE DEF strays
<1>7. /\ pairs \in Seq(Protocol) /\ Len(pairs) = count
      /\ \A i \in 1 .. n : pairs[i] = given[i]
  BY <1>1, <1>2, <1>4, <1>6
<1>. HIDE DEF pairs
<1>8. Len(pairs) <= MaxProtocols
  BY <1>1, <1>4, <1>7
<1>9. Served("multiple", given, handle, pairs, r)
  <2>1. CASE n = 0
    BY <1>3, <2>1 DEF Served, Failed, Result
  <2>2. CASE n # 0 /\ guid(MaxPairs + 1) # Null
    BY <1>3, <2>2 DEF Served, Failed, Result
  <2>3. CASE n # 0 /\ ~ guid(MaxPairs + 1) # Null
    <3>1. r = InstallMultipleProtocol(handle, pairs)
      BY <2>3
    <3>. HIDE DEF r
    <3>2. Installed(db, handle, pairs, r) \/ Refused(db, handle, pairs, r)
      BY <1>7, <1>8, <3>1, InstallMany DEF Handles
    <3>3. 1 <= Len(pairs) /\ Len(given) <= Len(pairs)
      BY <1>1, <1>2, <1>4, <1>7, <2>3
    <3>. QED BY <1>2, <1>3, <1>7, <3>2, <3>3 DEF Served, Refused
  <2>. QED BY <2>1, <2>2, <2>3
<1>. QED BY <1>7, <1>9

\* A service preserves what the two properties say.
LEMMA ServedOK ==
  ASSUME NEW E, db \in Seq(Seq(E)), NoHalfInstall,
         NEW op \in {"install", "multiple"}, NEW given, Len(given) \in Nat, DOMAIN given = 1 .. Len(given),
         NEW handle, NEW pairs \in Seq(E), NEW r, Served(op, given, handle, pairs, r)
  PROVE  db' \in Seq(Seq(E)) /\ NoHalfInstall' /\ InstallVisible'
<1>1. /\ db' = r.db /\ last'.op = op /\ last'.given = given
      /\ last'.status = r.status /\ last'.handle = r.handle
  BY DEF Served
<1>2. CASE Installed(db, handle, pairs, r)
  <2>1. /\ db' \in Seq(Seq(E)) /\ r.handle \in DOMAIN db' /\ Grown(db, r.handle, pairs, db')
        /\ r.status = "SUCCESS"
    <3>1. r.db \in Seq(Seq(E)) /\ r.handle \in DOMAIN r.db /\ Grown(db, r.handle, pairs, r.db)
      BY <1>2, InstalledKind
    <3>2. r.status = "SUCCESS"
      BY <1>2 DEF Installed
    <3>. QED BY <1>1, <3>1, <3>2
  <2>2. CASE 1 <= Len(pairs) /\ Len(given) <= Len(pairs) /\ \A i \in 1 .. Len(given) : pairs[i] = given[i]
    <3>1. ASSUME NEW h \in DOMAIN db' PROVE db'[h] # << >>
      <4>1. pairs # << >> /\ \A s \in Seq(E) : s \o pairs # << >>
        <5>1. ASSUME NEW s \in Seq(E) PROVE s \o pairs # << >>
          <6>1. Len(s \o pairs) = Len(s) + Len(pairs) /\ Len(s) \in Nat /\ Len(pairs) \in Nat
            OBVIOUS
          <6>. QED BY <2>2, <6>1
        <5>. QED BY <2>2, <5>1
      <4>2. \A k \in DOMAIN db : db[k] \in Seq(E) /\ db[k] # << >>
        BY DEF NoHalfInstall, Handles
      <4>3. h = r.handle \/ h \in DOMAIN db
        <5>1. DOMAIN db = 1 .. Len(db) /\ Len(db) \in Nat
          OBVIOUS
        <5>2. /\ DOMAIN db' = 1 .. Len(db')
              /\ Len(db') = Len(db) \/ (Len(db') = Len(db) + 1 /\ r.handle = Len(db) + 1)
          BY <2>1, Zenon DEF Grown
        <5>. QED BY <5>1, <5>2, OneMore, Zenon
      <4>. QED BY <2>1, <4>1, <4>2, <4>3, Zenon DEF Grown
    <3>2. NoHalfInstall'
      BY <1>1, <2>1, <3>1 DEF NoHalfInstall, Handles
    <3>3. ASSUME NEW i \in 1 .. Len(given), \A j \in 1 .. i - 1 : given[j].guid # given[i].guid
          PROVE  LET k == get_protocol(r.db, r.handle, given[i].guid)
                 IN  k # 0 /\ r.db[r.handle][k] = given[i]
      <4>1. i \in 1 .. Len(pairs) /\ pairs[i] = given[i] /\ \A j \in 1 .. i - 1 : j \in 1 .. Len(given)
        BY <2>2
      <4>2. \A j \in 1 .. i - 1 : pairs[j].guid # pairs[i].guid
        BY <2>2, <3>3, <4>1
      <4>3. LET k == get_protocol(r.db, r.handle, pairs[i].guid)
            IN  k # 0 /\ r.db[r.handle][k] = pairs[i]
        BY <1>2, <4>1, <4>2, InstalledFirst
      <4>. QED BY <4>1, <4>3
    <3>4. InstallVisible'
      BY <1>1, <3>3 DEF InstallVisible
    <3>. QED BY <2>1, <3>2, <3>4
  <2>. QED BY <1>2, <2>1, <2>2 DEF Served
<1>3. CASE r.status \in {"INVALID_PARAMETER", "OUT_OF_RESOURCES", "UNSUPPORTED"} /\ r.db = db
  <2>1. NoHalfInstall'
    BY <1>1, <1>3 DEF NoHalfInstall, Handles
  <2>2. InstallVisible'
    BY <1>1, <1>3 DEF InstallVisible
  <2>. QED BY <1>1, <1>3, <2>1, <2>2
<1>. QED BY <1>2, <1>3 DEF Served

LEMMA AnswerOK ==
  ASSUME NEW E, db \in Seq(Seq(E)), NoHalfInstall, NEW op, op \notin {"none", "install", "multiple"},
         NEW result, result.status # "PANIC", Answer(op, result)
  PROVE  db' \in Seq(Seq(E)) /\ NoHalfInstall' /\ InstallVisible'
<1>1. db' = db /\ last'.op = op /\ last'.status = result.status
  BY DEF Answer
<1>2. NoHalfInstall'
  BY <1>1 DEF NoHalfInstall, Handles
<1>3. InstallVisible'
  BY <1>1 DEF InstallVisible
<1>. QED BY <1>1, <1>2, <1>3

HandleInv == db \in Seq(Seq(Protocol)) /\ NoHalfInstall /\ InstallVisible

\* What the services keep, in whatever order they are called.
LEMMA HandleSafe == Spec => [](NoHalfInstall /\ InstallVisible)
<1>1. Init => HandleInv
  <2>. SUFFICES ASSUME Init PROVE HandleInv
    OBVIOUS
  <2>1. db = << >> /\ last.op = "none"
    BY DEF Init
  <2>2. DOMAIN db = {} /\ db \in Seq(Seq(Protocol))
    BY <2>1
  <2>3. NoHalfInstall
    BY <2>1, <2>2 DEF NoHalfInstall, Handles
  <2>4. InstallVisible
    BY <2>1 DEF InstallVisible
  <2>. QED BY <2>2, <2>3, <2>4 DEF HandleInv
<1>2. HandleInv /\ [Next]_hvars => HandleInv'
  <2>. SUFFICES ASSUME HandleInv, [Next]_hvars PROVE HandleInv'
    OBVIOUS
  <2>. DEFINE AllGuids == Guids \cup {DevicePathGuid}
  <2>0. db \in Seq(Seq(Protocol)) /\ NoHalfInstall /\ InstallVisible
    BY DEF HandleInv
  <2>1. CASE UNCHANGED hvars
    BY <2>0, <2>1 DEF HandleInv, hvars, NoHalfInstall, InstallVisible, Handles
  <2>2. ASSUME NEW handle \in Handles \cup {NullHandle, Foreign}, NEW pair \in Pairs,
               install_protocol_interface(handle, pair)
        PROVE  HandleInv'
    <3>1. pair \in Protocol
      BY DEF Pairs, Protocol
    <3>2. PICK r : Served("install", <<pair>>, handle, <<pair>>, r)
      BY <2>0, <2>2, <3>1, ServedOne
    <3>3. <<pair>> \in Seq(Protocol) /\ Len(<<pair>>) \in Nat /\ DOMAIN <<pair>> = 1 .. Len(<<pair>>)
      BY <3>1
    <3>4. db' \in Seq(Seq(Protocol)) /\ NoHalfInstall' /\ InstallVisible'
      BY <2>0, <3>2, <3>3, ServedOK
    <3>. QED BY <3>4 DEF HandleInv
  <2>3. ASSUME NEW handle \in Handles \cup {NullHandle, Foreign},
               NEW n \in 0 .. MaxPairs, NEW given \in [1 .. n -> Pairs], NEW stack \in Stacks,
               install_multiple_protocol_interfaces(handle, given, stack)
        PROVE  HandleInv'
    <3>0. PICK pairs \in Seq(Protocol) : \E r : Served("multiple", given, handle, pairs, r)
      BY <2>0, <2>3, ServedMany
    <3>1. PICK r : Served("multiple", given, handle, pairs, r)
      BY <3>0
    <3>2. Len(given) \in Nat /\ DOMAIN given = 1 .. Len(given)
      OBVIOUS
    <3>3. db' \in Seq(Seq(Protocol)) /\ NoHalfInstall' /\ InstallVisible'
      BY <2>0, <3>1, <3>2, ServedOK
    <3>. QED BY <3>3 DEF HandleInv
  <2>4. ASSUME NEW op \in {"uninstall", "handle", "protocol", "locate", "buffer", "path"}, NEW result,
               result.status # "PANIC", Answer(op, result)
        PROVE  HandleInv'
    <3>1. op \notin {"none", "install", "multiple"}
      OBVIOUS
    <3>2. db' \in Seq(Seq(Protocol)) /\ NoHalfInstall' /\ InstallVisible'
      BY <2>0, <2>4, <3>1, AnswerOK
    <3>. QED BY <3>2 DEF HandleInv
  <2>5. CASE uninstall_protocol_interface
    BY <2>4, <2>5 DEF uninstall_protocol_interface
  <2>6. \A handle, guid : InterfaceOf(handle, guid).status # "PANIC"
    BY DEF InterfaceOf
  <2>7. ASSUME NEW guid, NEW handle, handle_protocol(handle, guid) PROVE HandleInv'
    BY <2>4, <2>6, <2>7 DEF handle_protocol
  <2>8. ASSUME NEW guid, locate_protocol(guid) PROVE HandleInv'
    <3>1. FirstInterface(guid).status # "PANIC"
      BY <2>6 DEF FirstInterface
    <3>. QED BY <2>4, <2>8, <3>1 DEF locate_protocol
  <2>9. ASSUME NEW guid, NEW size, locate_handle(guid, size) PROVE HandleInv'
    <3>1. HandlesInto(guid, size).status # "PANIC"
      BY DEF HandlesInto, LocateStatus
    <3>. QED BY <2>4, <2>9, <3>1 DEF locate_handle
  <2>10. ASSUME NEW guid, NEW pool, locate_handle_buffer(guid, pool) PROVE HandleInv'
    <3>1. HandlesIntoPool(guid, pool).status # "PANIC"
      BY DEF HandlesIntoPool
    <3>. QED BY <2>4, <2>10, <3>1 DEF locate_handle_buffer
  <2>11. ASSUME NEW guid, NEW path, NEW pool, locate_device_path(guid, path, pool) PROVE HandleInv'
    <3>. DEFINE h == BestMatch(guid, path)
                result == IF ~ pool \/ PathMatches(guid, path) = {} THEN [status |-> "NOT_FOUND"]
                          ELSE [status |-> "SUCCESS", handle |-> h,
                                rest |-> SubSeq(path, get_device_path_size(DevicePathOf(h)), Len(path))]
    <3>1. Answer("path", result)
      BY <2>11 DEF locate_device_path
    <3>2. result.status # "PANIC"
      OBVIOUS
    <3>. HIDE DEF result
    <3>. QED BY <2>4, <3>1, <3>2
  <2>12. ASSUME Next PROVE HandleInv'
    <3>1. CASE \E handle \in Handles \cup {NullHandle, Foreign} :
                 \/ \E pair \in Pairs : install_protocol_interface(handle, pair)
                 \/ \E given \in UNION {[1 .. n -> Pairs] : n \in 0 .. MaxPairs}, stack \in Stacks :
                      install_multiple_protocol_interfaces(handle, given, stack)
      BY <2>2, <2>3, <3>1, Zenon
    <3>2. CASE \E guid \in AllGuids :
                 \/ \E handle \in Handles \cup {Foreign} : handle_protocol(handle, guid)
                 \/ locate_protocol(guid)
                 \/ \E size \in BufferSizes : locate_handle(guid, size)
                 \/ \E pool \in BOOLEAN :
                      \/ locate_handle_buffer(guid, pool)
                      \/ \E path \in Asked : locate_device_path(guid, path, pool)
      BY <2>7, <2>8, <2>9, <2>10, <2>11, <3>2, Zenon
    <3>. QED BY <2>5, <2>12, <3>1, <3>2, Zenon DEF Next
  <2>. QED BY <2>1, <2>12
<1>3. HandleInv => NoHalfInstall /\ InstallVisible
  BY DEF HandleInv
<1>. QED BY <1>1, <1>2, <1>3, PTL DEF Spec

\* Whatever services are called in whatever order, for any limits of the database with room
\* on a handle for the pairs of one call: no handle is ever without protocols, and the assert
\* of install_multiple_protocol holds.
THEOREM HandlesComplete == Spec => []NoHalfInstall
BY HandleSafe, PTL

\* An installation that succeeded is visible to handle_protocol, what the variadic service
\* reads past its arguments included.
THEOREM InstallationsVisible == Spec => []InstallVisible
BY HandleSafe, PTL

-----------------------------------------------------------------------------
(* A new handle *)

\* A database with one handle more.
OneAdded(d, pairs, r) ==
  /\ r.status = "SUCCESS" /\ r.handle = Len(d) + 1 /\ Len(r.db) = Len(d) + 1 /\ Len(d) < MaxHandles
  /\ DOMAIN r.db = 1 .. Len(r.db) /\ r.db[Len(d) + 1] = pairs
  /\ \A h \in DOMAIN d : h \in DOMAIN r.db /\ r.db[h] = d[h]

LEMMA NewHandle ==
  ASSUME NEW E, NEW d \in Seq(Seq(E)), NEW pair \in E, NEW r, r = InstallProtocol(d, NullHandle, pair)
  PROVE  \/ r.db \in Seq(Seq(E)) /\ OneAdded(d, <<pair>>, r)
         \/ /\ r.status # "SUCCESS" /\ r.handle = NullHandle /\ r.db = d
            /\ Len(d) >= MaxHandles
<1>1. Installed(d, NullHandle, <<pair>>, r) \/ Refused(d, NullHandle, <<pair>>, r)
  BY InstallOne
<1>2. CASE Refused(d, NullHandle, <<pair>>, r)
  BY <1>2 DEF Refused
<1>3. CASE Installed(d, NullHandle, <<pair>>, r)
  <2>. DEFINE pairs == <<pair>>
  <2>1. pairs \in Seq(E) /\ Installed(d, NullHandle, pairs, r)
    BY <1>3
  <2>. HIDE DEF pairs
  <2>2. 0 \notin DOMAIN d /\ \A h \in DOMAIN d : h # Len(d) + 1
    OBVIOUS
  <2>3. r.db \in Seq(Seq(E)) /\ r.handle = Len(d) + 1 /\ Grown(d, r.handle, pairs, r.db)
    BY <2>1, <2>2, InstalledKind DEF NullHandle
  <2>4. r.status = "SUCCESS"
    BY <2>1 DEF Installed
  <2>5. OneAdded(d, pairs, r)
    BY <2>2, <2>3, <2>4, Zenon DEF OneAdded, Grown
  <2>. QED BY <2>3, <2>5 DEF pairs
<1>. QED BY <1>1, <1>2, <1>3

LEMMA TwoPairs ==
  ASSUME NEW a, NEW c
  PROVE  <<a>> \o <<c>> = <<a, c>>
<1>. DEFINE S == {a, c}
<1>1. <<a>> \in Seq(S) /\ <<c>> \in Seq(S) /\ <<a, c>> \in Seq(S) /\ Len(<<a, c>>) = 2
  OBVIOUS
<1>2. /\ <<a>> \o <<c>> \in Seq(S) /\ Len(<<a>> \o <<c>>) = 2
      /\ (<<a>> \o <<c>>)[1] = a /\ (<<a>> \o <<c>>)[2] = c
  BY <1>1, SMT
<1>. DEFINE s == <<a>> \o <<c>>
            t == <<a, c>>
<1>3. s \in Seq(S) /\ t \in Seq(S) /\ Len(s) = Len(t) /\ \A i \in 1 .. Len(s) : s[i] = t[i]
  <2>1. \A i \in 1 .. 2 : i = 1 \/ i = 2
    OBVIOUS
  <2>2. t[1] = a /\ t[2] = c
    OBVIOUS
  <2>. HIDE DEF t
  <2>. QED BY <1>1, <1>2, <2>1, <2>2 DEF t
<1>. HIDE DEF s, t
<1>4. s = t
  BY <1>3, SameSeq, Zenon
<1>. QED BY <1>4 DEF s, t

=============================================================================
