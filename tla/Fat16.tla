------------------------------- MODULE Fat16 --------------------------------
(***************************************************************************)
(* The FAT16 file system, kernel/fat16.c, on the sectors the disk layer    *)
(* offers.  One FAT sector is cached and written back late; creating or    *)
(* replacing a file frees the old chain, allocates and writes the new one, *)
(* flushes the FAT and only then stores the directory entry.  Each of      *)
(* these is a step here, so that every state is one in which the power may *)
(* go.  The RAM disk holds only the first Window sectors of the partition, *)
(* while the free-cluster search covers the whole of it.                   *)
(***************************************************************************)
EXTENDS Integers, Sequences, FiniteSets

CONSTANTS
  FatStart,    \* bpb.reserved_sectors
  FatSize,     \* bpb.fat_size_16
  RootSectors, \* root_dir_sectors
  SPC,         \* bpb.sectors_per_cluster
  TotalSecs,   \* sectors of the partition
  Window,      \* sectors the disk layer gives access to
  EPS,         \* FAT entries in a sector (256)
  DPS,         \* directory entries in a sector (16)
  FileNames, DirNames, \* names programs give to files and to directories
  Sizes,       \* bound: sizes of the files written, in sectors
  MaxOps,      \* bound: writes and mkdirs in a behaviour
  Images       \* the volumes the host tools may have left on the disk

NumFats == 2

RootStart == FatStart + NumFats * FatSize

DataStart == RootStart + RootSectors

MostClusters == 65524 \* of a FAT16 volume, by its definition

ASSUME GeometryAssumption ==
  /\ {FatStart, FatSize, RootSectors, SPC, EPS, DPS} \subseteq Nat \ {0}
  /\ {Window, TotalSecs} \subseteq Nat
  /\ DataStart < Window /\ Window <= TotalSecs
  /\ (TotalSecs - DataStart) \div SPC + 2 <= FatSize * EPS
  /\ (TotalSecs - DataStart) \div SPC \in 1 .. MostClusters

ASSUME BoundsAssumption == Sizes \subseteq Nat /\ MaxOps \in Nat

VARIABLES
  vol,     \* the volume: sectors, and the cached FAT sector of the driver
  pc,      \* the phase of the running call
  op,      \* its local variables
  ops,     \* calls made so far
  result,  \* what the last call returned
  expect,  \* history: the version each path should read as
  failed   \* history: a call has returned -1

vars == <<vol, pc, op, ops, result, expect, failed>>

-----------------------------------------------------------------------------
(* Sectors: rd and wr reach the window only.                               *)
Lbas == 0 .. TotalSecs - 1

Wr(s, lba, v) == IF lba < Window THEN [s EXCEPT !.disk[lba] = v] ELSE s

MaxC == ((TotalSecs - DataStart) \div SPC + 2) % 65536

Clusters == 2 .. MaxC - 1

clus_lba(c) == DataStart + (c - 2) * SPC

ClusterLbas(c) == clus_lba(c) .. clus_lba(c) + SPC - 1

EOC == 65535
IsEnd(v) == v >= 65528

NoSec == -1

(***************************************************************************)
(* The FAT cache.  Making the sector of cluster c current first evicts a   *)
(* dirty one, to the first copy of the FAT only.                           *)
(***************************************************************************)
FatSec(c) == c \div EPS

(* Definitions marked "Faulty" are wrong on purpose: a run that uses one in *)
(* place of the definition after it must fail, or the property is idle.    *)
FaultyCached(s, c) ==
  IF FatSec(c) = s.sec THEN s
  ELSE [s EXCEPT !.sec = FatSec(c), !.dirty = FALSE,
                 !.buf = s.disk[FatStart + FatSec(c)]]

Cached(s, c) ==
  IF FatSec(c) = s.sec THEN s
  ELSE LET e == IF s.dirty THEN Wr(s, FatStart + s.sec, s.buf) ELSE s
       IN  [e EXCEPT !.sec = FatSec(c), !.dirty = FALSE,
                     !.buf = e.disk[FatStart + FatSec(c)]]

fat_get(s, c) == Cached(s, c).buf[c % EPS]

FaultyFatSet(s, c, v) == [Cached(s, c) EXCEPT !.buf[c % EPS] = v]

fat_set(s, c, v) ==
  [Cached(s, c) EXCEPT !.buf[c % EPS] = v, !.dirty = TRUE]

(* First fit from cluster 2; the scan leaves in the cache the sector where *)
(* it stopped.  Cluster 0 stands for "none".                               *)
FreeClusters(s) == {c \in Clusters : fat_get(s, c) = 0}

FirstFree(s) ==
  IF FreeClusters(s) = {} THEN 0
  ELSE CHOOSE c \in FreeClusters(s) : \A e \in FreeClusters(s) : c <= e

FaultyFatAlloc(s) == Cached(s, 2)

fat_alloc(s) ==
  LET c == FirstFree(s)
  IN  IF c = 0 THEN Cached(Cached(s, 2), MaxC - 1)
      ELSE fat_set(Cached(s, 2), c, EOC)

-----------------------------------------------------------------------------
(***************************************************************************)
(* Following a chain through a table fat[c], for at most as many links as  *)
(* there are clusters.  A chain is sound when it ends and every link is a  *)
(* data cluster.                                                           *)
(***************************************************************************)
Walk(fat, c) ==
  LET w[n \in 0 .. MaxC] ==
        IF n = 0 THEN c
        ELSE IF w[n - 1] \in Clusters THEN fat[w[n - 1]] ELSE w[n - 1]
  IN  w

ChainLen(fat, c) == Cardinality({n \in 0 .. MaxC : Walk(fat, c)[n] \in Clusters})

Chain(fat, c) == [n \in 1 .. ChainLen(fat, c) |-> Walk(fat, c)[n - 1]]

ChainSound(fat, c) == IsEnd(Walk(fat, c)[MaxC])

(* The table as the driver sees it, and as it is in the first copy.        *)
DriverFat(s) == [c \in 0 .. MaxC - 1 |-> fat_get(s, c)]

DiskFat(s) ==
  [c \in 0 .. MaxC - 1 |-> s.disk[FatStart + FatSec(c)][c % EPS]]

-----------------------------------------------------------------------------
(* A directory sector is [entries |-> a function from 0 .. DPS - 1].       *)
FREE    == [name |-> "00", dir |-> FALSE, clus |-> 0, size |-> 0]
DELETED == [name |-> "E5", dir |-> FALSE, clus |-> 0, size |-> 0]
Empty   == {FREE, DELETED}
Zeroed  == [entries |-> [i \in 0 .. DPS - 1 |-> FREE]]

File(name, c, n) == [name |-> name, dir |-> FALSE, clus |-> c, size |-> n]
Dir(name, c)     == [name |-> name, dir |-> TRUE, clus |-> c, size |-> 0]

(* The slots <<lba, index>> of a directory in scan order; the root is a    *)
(* run of sectors, a subdirectory the sectors of its chain.                *)
SlotsOf(lbas) ==
  [n \in 1 .. Len(lbas) * DPS |->
     <<lbas[(n - 1) \div DPS + 1], (n - 1) % DPS>>]

RootSlots == SlotsOf([n \in 1 .. RootSectors |-> RootStart + n - 1])

SubdirSlots(fat, c) ==
  LET ch == Chain(fat, c)
  IN  SlotsOf([n \in 1 .. Len(ch) * SPC |->
                 clus_lba(ch[(n - 1) \div SPC + 1]) + ((n - 1) % SPC)])

(* File data read as a directory: entries of no name that is asked for.    *)
Junk == [name |-> "junk", dir |-> FALSE, clus |-> 0, size |-> 0]

Entries(s, lba) ==
  IF "entries" \in DOMAIN s.disk[lba] THEN s.disk[lba].entries
  ELSE [i \in 0 .. DPS - 1 |-> Junk]

Entry(s, slot) == Entries(s, slot[1])[slot[2]]

(* The first slot of a scan that satisfies a condition, 0 if none does.    *)
First(slots, Is(_)) ==
  LET hits == {n \in DOMAIN slots : Is(slots[n])}
  IN  IF hits = {} THEN 0 ELSE CHOOSE n \in hits : \A m \in hits : n <= m

(***************************************************************************)
(* A lookup stops at the first FREE slot; one that meets a sector outside  *)
(* the window before fails.  It returns the entry, or FREE for "none".     *)
(***************************************************************************)
Lookup(s, slots, Wanted(_)) ==
  LET Stops(sl) == sl[1] >= Window \/ Entry(s, sl) = FREE
                                   \/ Wanted(Entry(s, sl))
      n == First(slots, Stops)
  IN  IF n = 0 THEN FREE
      ELSE IF slots[n][1] >= Window THEN FREE ELSE Entry(s, slots[n])

FindDir(s, d) ==
  LET Wanted(e) == e.dir /\ e.name = d IN Lookup(s, RootSlots, Wanted)

(* A path is <<name>> or <<directory, name>>.                              *)
Paths == {<<f>> : f \in FileNames} \union (DirNames \X FileNames)

NameOf(p) == p[Len(p)]

(* The slots of the directory a path is in; none when it does not exist.   *)
SlotsFor(s, fat, p) ==
  IF Len(p) = 1 THEN RootSlots
  ELSE LET d == FindDir(s, p[1])
       IN  IF d = FREE THEN <<>> ELSE SubdirSlots(fat, d.clus)

fat16_find_file(s, fat, p) ==
  LET Wanted(e) == e \notin Empty /\ e.name = NameOf(p)
  IN  Lookup(s, SlotsFor(s, fat, p), Wanted)

(* fat16_read_file: the sectors of the file.                               *)
Missing == <<[error |-> -1]>>

fat16_read_file(s, fat, p) ==
  LET e  == fat16_find_file(s, fat, p)
      ch == Chain(fat, e.clus)
      n  == IF e.size < Len(ch) * SPC THEN e.size ELSE Len(ch) * SPC
      At(k) == clus_lba(ch[(k - 1) \div SPC + 1]) + ((k - 1) % SPC)
  IN  IF e = FREE \/ \E k \in 1 .. n : At(k) >= Window THEN Missing
      ELSE [k \in 1 .. n |-> s.disk[At(k)]]

(* What a path should read as: absent, unknown after a failed write, or    *)
(* the n sectors of version v.                                             *)
Absent  == <<0, -1>>
Unknown == <<0, -2>>

Data(p, v, k) == [path |-> p, version |-> v, sector |-> k]

Contents(p, x) ==
  IF x = Absent THEN Missing
  ELSE [k \in 1 .. x[2] |-> Data(p, x[1], k - 1)]

-----------------------------------------------------------------------------
NoOp == [path |-> <<>>, size |-> 0, mkdir |-> FALSE, slot |-> <<0, 0>>,
         clus |-> 0, first |-> 0, prev |-> 0, done |-> 0, ok |-> TRUE]

Mounted(i) == [disk |-> i.disk, sec |-> NoSec, buf |-> <<>>, dirty |-> FALSE]

Init ==
  /\ \E i \in Images : vol = Mounted(i) /\ expect = i.expect
  /\ pc = "idle" /\ op = NoOp /\ ops = 0 /\ result = 0 /\ failed = FALSE

Return(r) ==
  /\ pc' = "idle" /\ op' = NoOp /\ result' = r
  /\ failed' = (failed \/ r < 0)

(* The cache after a walk over the links of a directory.                   *)
AfterWalk(s, ch) == IF ch = <<>> THEN s ELSE Cached(s, ch[Len(ch)])

DirChain(p) ==
  IF Len(p) = 1 \/ FindDir(vol, p[1]) = FREE THEN <<>>
  ELSE Chain(DriverFat(vol), FindDir(vol, p[1]).clus)

(* fat16_write_file up to the slot: the first empty slot or the first of   *)
(* the name, whichever comes first.  It gives up when the directory is     *)
(* missing, unreadable or full.                                            *)
Suits(p, e) == e \in Empty \/ e.name = NameOf(p)

WriteStop(p) ==
  LET Ends(sl) == sl[1] >= Window \/ Suits(p, Entry(vol, sl))
  IN  First(SlotsFor(vol, DriverFat(vol), p), Ends)

WriteSlot(p) ==
  LET slots == SlotsFor(vol, DriverFat(vol), p)
      n == WriteStop(p)
  IN  IF n = 0 THEN <<>> ELSE IF slots[n][1] >= Window THEN <<>> ELSE slots[n]

(* The links it has followed by then: also that of the slot's own cluster, *)
(* unless the sector there could not be read.                              *)
WriteLinks(p) ==
  LET ch == DirChain(p)
      at == (WriteStop(p) - 1) \div (DPS * SPC)
  IN  IF ch = <<>> \/ WriteStop(p) = 0 THEN ch
      ELSE SubSeq(ch, 1, IF WriteSlot(p) = <<>> THEN at ELSE at + 1)

(* The chain the write will free: that of the entry it replaces.           *)
FaultyOldChain(slot) == 0

OldChain(slot) == Entry(vol, slot).clus

WriteBegin(p, n) ==
  /\ pc = "idle" /\ ops < MaxOps /\ ops' = ops + 1
  /\ vol' = AfterWalk(vol, WriteLinks(p))
  /\ LET slot == WriteSlot(p)
     IN  IF slot = <<>>
         THEN Return(-1) /\ UNCHANGED expect
         ELSE LET old == OldChain(slot)
              IN  /\ op' = [NoOp EXCEPT !.path = p, !.size = n, !.slot = slot,
                                        !.clus = old]
                  /\ pc' = IF old = 0 THEN "alloc" ELSE "free"
                  /\ expect' = [expect EXCEPT ![p] = Unknown]
                  /\ UNCHANGED <<result, failed>>

(* One turn of the loop that frees the old chain.                          *)
FaultyNextLink(c) == fat_get(fat_set(vol, c, 0), c)

NextLink(c) == fat_get(vol, c)

FreeOld ==
  /\ pc = "free"
  /\ LET next == NextLink(op.clus)
     IN  /\ vol' = fat_set(vol, op.clus, 0)
         /\ op' = [op EXCEPT !.clus = IF IsEnd(next) THEN 0 ELSE next]
         /\ pc' = IF IsEnd(next) THEN "alloc" ELSE "free"
  /\ UNCHANGED <<ops, result, expect, failed>>

(* The next cluster of the new chain; a full disk ends the call, after the *)
(* FAT has been flushed.                                                   *)
Alloc ==
  /\ pc = "alloc"
  /\ vol' = fat_alloc(vol)
  /\ LET c == FirstFree(vol)
     IN  /\ pc' = IF c # 0 THEN "link" ELSE "flush1"
         /\ op' = [op EXCEPT !.clus = c, !.ok = (c # 0)]
  /\ UNCHANGED <<ops, result, expect, failed>>

(* fat_set(prev_c, c), or the start of the chain; then fat_set(c, 0xFFFF). *)
Link ==
  /\ pc = "link"
  /\ vol' = IF op.prev # 0 THEN fat_set(vol, op.prev, op.clus) ELSE vol
  /\ op' = [op EXCEPT !.first = IF op.prev # 0 THEN @ ELSE op.clus]
  /\ pc' = "data"
  /\ UNCHANGED <<ops, result, expect, failed>>

ClustersNeeded(n) == IF n = 0 THEN 1 ELSE (n + SPC - 1) \div SPC

(* The sectors of the new cluster, up to the first that cannot be written. *)
ClusterWritten(s, c, Sector(_)) ==
  [s EXCEPT !.disk = [l \in Lbas |->
     IF l \in ClusterLbas(c) /\ l < Window THEN Sector(l - clus_lba(c))
     ELSE s.disk[l]]]

WriteData ==
  /\ pc = "data"
  /\ LET s  == fat_set(vol, op.clus, EOC)
         ok == \A l \in ClusterLbas(op.clus) : l < Window
         Sector(k) == IF op.done * SPC + k < op.size
                      THEN Data(op.path, ops, op.done * SPC + k) ELSE Zeroed
     IN  /\ vol' = ClusterWritten(s, op.clus, Sector)
         /\ op' = [op EXCEPT !.prev = op.clus, !.done = @ + 1, !.ok = ok]
         /\ pc' = IF ok /\ op.done + 1 < ClustersNeeded(op.size)
                  THEN "alloc" ELSE "flush1"
  /\ UNCHANGED <<ops, result, expect, failed>>

(* fat_flush: the cached sector goes to both copies, one after the other.  *)
FlushFirst ==
  /\ pc = "flush1"
  /\ vol' = IF vol.dirty THEN Wr(vol, FatStart + vol.sec, vol.buf) ELSE vol
  /\ pc' = "flush2"
  /\ UNCHANGED <<op, ops, result, expect, failed>>

FlushSecond ==
  /\ pc = "flush2"
  /\ vol' = IF vol.dirty
            THEN [Wr(vol, FatStart + FatSize + vol.sec, vol.buf)
                    EXCEPT !.dirty = FALSE]
            ELSE vol
  /\ IF op.ok
     THEN pc' = "entry" /\ UNCHANGED <<op, result, failed>>
     ELSE Return(-1)
  /\ UNCHANGED <<ops, expect>>

WithEntry(s, slot, e) ==
  [s EXCEPT !.disk[slot[1]] =
     [entries |-> [Entries(s, slot[1]) EXCEPT ![slot[2]] = e]]]

(* The directory entry is stored last, and the call returns the size.      *)
WriteEntry ==
  /\ pc = "entry" /\ ~op.mkdir
  /\ vol' = WithEntry(vol, op.slot, File(NameOf(op.path), op.first, op.size))
  /\ expect' = [expect EXCEPT ![op.path] = <<ops, op.size>>]
  /\ Return(op.size)
  /\ UNCHANGED ops

-----------------------------------------------------------------------------
(* fat16_mkdir: nothing to do when the directory exists; the name of a     *)
(* deleted entry has lost its first byte and matches none.                 *)
MkdirBegin(d) ==
  /\ pc = "idle" /\ ops < MaxOps /\ ops' = ops + 1
  /\ IF FindDir(vol, d) # FREE
     THEN Return(0) /\ UNCHANGED vol
     ELSE LET c == FirstFree(vol)
          IN  /\ vol' = fat_alloc(vol)
              /\ IF c = 0 THEN Return(-1)
                 ELSE /\ op' = [NoOp EXCEPT !.path = <<d>>, !.mkdir = TRUE,
                                            !.clus = c]
                      /\ pc' = "zero"
                      /\ UNCHANGED <<result, failed>>
  /\ UNCHANGED expect

(* The new cluster is cleared; a sector that cannot be written is ignored. *)
MkdirZero ==
  /\ pc = "zero"
  /\ LET Sector(k) == Zeroed IN vol' = ClusterWritten(vol, op.clus, Sector)
  /\ pc' = "flush1"
  /\ UNCHANGED <<op, ops, result, expect, failed>>

MkdirEntry ==
  /\ pc = "entry" /\ op.mkdir
  /\ LET Unused(sl) == Entry(vol, sl) \in Empty
         n == First(RootSlots, Unused)
     IN  IF n = 0 THEN Return(-1) /\ UNCHANGED vol
         ELSE /\ vol' = WithEntry(vol, RootSlots[n], Dir(op.path[1], op.clus))
              /\ Return(0)
  /\ UNCHANGED <<ops, expect>>

(* Lookups and reads store nothing; they leave the FAT sector of the last  *)
(* link they followed in the cache.                                        *)
ReadFile(p) ==
  /\ pc = "idle"
  /\ LET e  == fat16_find_file(vol, DriverFat(vol), p)
         ch == Chain(DriverFat(vol), e.clus)
     IN  \E n \in 0 .. Len(ch) :
           vol' = AfterWalk(AfterWalk(vol, DirChain(p)), SubSeq(ch, 1, n))
  /\ UNCHANGED <<pc, op, ops, result, expect, failed>>

Step ==
  \/ FreeOld \/ Alloc \/ Link \/ WriteData
  \/ FlushFirst \/ FlushSecond \/ WriteEntry
  \/ MkdirZero \/ MkdirEntry

Next ==
  \/ \E p \in Paths, n \in Sizes : WriteBegin(p, n)
  \/ \E d \in DirNames : MkdirBegin(d)
  \/ \E p \in Paths : ReadFile(p)
  \/ Step

Spec == Init /\ [][Next]_vars

(* A call runs to its end: the kernel does not leave it half way.          *)
FairSpec == Spec /\ WF_vars(Step)

-----------------------------------------------------------------------------
TypeOK ==
  /\ pc \in {"idle", "free", "alloc", "link", "data", "flush1", "flush2",
             "entry", "zero"}
  /\ DOMAIN vol.disk = Lbas
  /\ vol.sec \in {NoSec} \union 0 .. FatSize - 1
  /\ vol.dirty \in BOOLEAN
  /\ op.clus \in {0} \union Clusters
  /\ op.first \in {0} \union Clusters
  /\ op.prev \in {0} \union Clusters
  /\ ops \in 0 .. MaxOps
  /\ result \in {-1, 0} \union Sizes
  /\ \A p \in Paths : expect[p] \in {Absent, Unknown} \union (0 .. MaxOps) \X Sizes

(***************************************************************************)
(* Whenever the power goes, in any phase of any call, every file but the   *)
(* one being written, and but those a failed write has left undefined,     *)
(* reads from the sectors as they are - without the cached FAT sector - as *)
(* it was last written, and a path never written reads as missing.         *)
(***************************************************************************)
ReadsAs(s, x) ==
  \A p \in Paths : x[p] # Unknown =>
    fat16_read_file(s, DiskFat(s), p) = Contents(p, x[p])

OthersSurvive == ReadsAs(vol, expect)

(* The entries of the volume, by their slots.                              *)
SlotsIn(slots) == {slots[n] : n \in DOMAIN slots}

RootEntries(s) == {sl \in SlotsIn(RootSlots) : Entry(s, sl) \notin Empty}

DirEntries(s) == {r \in RootEntries(s) : Entry(s, r).dir}

SlotsUnder(s, r) ==
  {sl \in SlotsIn(SubdirSlots(DriverFat(s), Entry(s, r).clus)) : sl[1] < Window}

AllSlots(s) ==
  SlotsIn(RootSlots) \union UNION {SlotsUnder(s, r) : r \in DirEntries(s)}

AllEntries(s) == {sl \in AllSlots(s) : Entry(s, sl) \notin Empty}

ClustersOf(s, slot) ==
  LET ch == Chain(DriverFat(s), Entry(s, slot).clus)
  IN  {ch[n] : n \in DOMAIN ch}

Held(s, slots) == UNION {ClustersOf(s, a) : a \in slots}

ChainsApart(s, slots) ==
  \A a \in slots :
    /\ Entry(s, a).clus \in Clusters
    /\ ChainSound(DriverFat(s), Entry(s, a).clus)
    /\ \A b \in slots \ {a} : ClustersOf(s, a) \intersect ClustersOf(s, b) = {}

(***************************************************************************)
(* Between calls every entry, also one whose last write failed, starts a   *)
(* chain of data clusters that ends, and no two entries share a cluster.   *)
(* The cluster in hand is always one of the volume.                        *)
(***************************************************************************)
ChainsSound == TypeOK /\ (pc = "idle" => ChainsApart(vol, AllEntries(vol)))

(* Until a call fails, a cluster is marked used exactly when an entry's    *)
(* chain holds it: replacing files leaks nothing.                          *)
NothingLost(s) ==
  Held(s, AllEntries(s)) = {c \in Clusters : DriverFat(s)[c] # 0}

NoLeak == (pc = "idle" /\ ~failed) => NothingLost(vol)

(* Between calls the cache holds nothing the disk layer does not have, and *)
(* outside the eviction of a dirty sector it always agrees with it.        *)
CacheCoherent ==
  /\ pc = "idle" => ~vol.dirty
  /\ vol.sec # NoSec /\ ~vol.dirty => vol.buf = vol.disk[FatStart + vol.sec]

(* Every call returns.                                                     *)
CallsReturn == (pc # "idle") ~> (pc = "idle")

-----------------------------------------------------------------------------
(***************************************************************************)
(* What the theorems ask of the volumes that the host's tools leave: they  *)
(* are sound themselves and read as expected, no directory has a name that *)
(* a program gives to a file (fat16_write_file does not look at the        *)
(* attribute of an entry of that name), a file starts within the window,   *)
(* and no entry follows a FREE one, which ends a directory.                *)
(***************************************************************************)
InWindow(c) == clus_lba(c) + SPC <= Window

WholeSector(s, l) ==
  /\ "entries" \in DOMAIN s.disk[l]
  /\ s.disk[l].entries = [i \in 0 .. DPS - 1 |-> s.disk[l].entries[i]]

DirsWhole(s) ==
  /\ \A sl \in AllSlots(s) : WholeSector(s, sl[1])
  /\ \A a \in AllEntries(s) :
       /\ Entry(s, a).size \in Nat
       /\ IF Entry(s, a).dir THEN Entry(s, a).name \notin FileNames
          ELSE InWindow(Entry(s, a).clus)

Ended(s, slots) ==
  \A n, m \in DOMAIN slots :
    /\ n < m /\ slots[n][1] < Window /\ slots[m][1] < Window
    /\ Entry(s, slots[n]) = FREE
    => Entry(s, slots[m]) = FREE

DirsEnded(s) ==
  /\ Ended(s, RootSlots)
  /\ \A q \in DirEntries(s) :
       Ended(s, SubdirSlots(DriverFat(s), Entry(s, q).clus))

SoundImage(i) ==
  LET s == Mounted(i)
  IN  /\ i.expect \in [Paths -> {Absent, Unknown} \union (0 .. MaxOps) \X Sizes]
      /\ i.disk = [l \in Lbas |-> i.disk[l]]
      /\ \A l \in FatStart .. FatStart + FatSize - 1 :
           i.disk[l] \in [0 .. EPS - 1 -> Nat]
      /\ DirsWhole(s) /\ ChainsApart(s, AllEntries(s)) /\ NothingLost(s)
      /\ DirsEnded(s) /\ ReadsAs(s, i.expect)

ASSUME ImagesAssumption == \A i \in Images : SoundImage(i)

ASSUME NamesAssumption == FileNames \intersect DirNames = {}
=============================================================================
