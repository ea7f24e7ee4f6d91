------------------------------ MODULE BlockDev ------------------------------
(***************************************************************************)
(* The disk layer, kernel/bios_disk.c, with the boot loader step that      *)
(* fills it (boot/stage2.asm, load_fat_to_ram).                            *)
(*                                                                         *)
(* Stage 2 copies the first FatSectors sectors of the FAT partition to RAM *)
(* and leaves their number in DISK_BUF_FLAG.  From then on reads and       *)
(* writes touch the copy only, a bitmap remembers the written sectors, and *)
(* ata_flush walks the bitmap and writes each dirty sector, by ATA PIO or, *)
(* without a controller, by INT 13h.  When the copy could not be loaded,   *)
(* reads and writes go to the controller.  Everything runs in the one      *)
(* kernel thread; what may happen between two steps is a loss of power, or *)
(* a write to the part of the copy that lies under the kernel's stacks.    *)
(***************************************************************************)
EXTENDS Integers, FiniteSets

CONSTANTS
  PartStart,   \* FAT_PART_START: first sector of the partition
  DiskSectors, \* the medium has sectors 0 .. DiskSectors - 1
  FatSectors,  \* FAT_SECTORS: sectors stage 2 loads into RAM
  MaxDirty,    \* MAX_DIRTY: sectors the bitmap can track
  Values,      \* the contents a sector may have
  Shared,      \* sectors of the copy in memory that has other uses
  LateFaults   \* may the drive fail a write after it has taken the data?

Lbas == 0 .. DiskSectors - 1

(* The loaded window fits the medium and the bitmap (1024 = 1024 in code). *)
ASSUME WindowAssumption ==
  /\ PartStart \in Nat /\ DiskSectors \in Nat
  /\ FatSectors \in Nat \ {0} /\ MaxDirty \in Nat
  /\ PartStart + FatSectors <= DiskSectors
  /\ FatSectors <= MaxDirty
  /\ LateFaults \in BOOLEAN
  /\ Values # {}
  /\ Shared \subseteq 0 .. FatSectors - 1

VARIABLES
  pc,         \* "off", "idle", or "flush" inside ata_flush
  bufSectors, \* buf_sectors
  hwOk,       \* ata_hw_ok
  ram,        \* the sectors at DISK_BUF_BASE
  dirty,      \* dirty_bitmap, as the set of its one bits
  media,      \* the medium
  fi,         \* the loop index i of ata_flush
  errors,     \* its error count
  out,        \* the buffer the last successful ata_read_sector filled
  call, ret   \* the last call and what it returned

vars == <<pc, bufSectors, hwOk, ram, dirty, media, fi, errors, out, call, ret>>

-----------------------------------------------------------------------------
bufValid == bufSectors > 0

(* The range checks ata_read_sector and ata_write_sector share.            *)
InBuffer(lba) == lba >= PartStart /\ lba - PartStart < bufSectors

(* Definitions marked "Faulty" are wrong on purpose: a run that uses one in *)
(* place of the definition after them must fail, or the property is idle.  *)
FaultyDirtySet(i) == IF i < MaxDirty - 1 THEN dirty \union {i} ELSE dirty

(* The dirty bits; a sector the bitmap has no bit for stays clean.         *)
DirtySet(i) == IF i < MaxDirty THEN dirty \union {i} ELSE dirty
DirtyClr(i) == dirty \ {i}

FaultyLimit == bufSectors - 1
Limit == IF bufSectors < MaxDirty THEN bufSectors ELSE MaxDirty

(***************************************************************************)
(* How sending a sector to the medium may end, by hw_write (PIO) or by     *)
(* pm_to_rm_write (the INT 13h trampoline).  PIO fails before it sends     *)
(* data; a failed BIOS call may have written.  hw_write discards the       *)
(* status that follows its cache-flush command, so under LateFaults it may *)
(* return 0 for a sector that never arrived.                               *)
(***************************************************************************)
WriteOutcomes(pio) ==
  {"written", "failed"}
    \union (IF pio THEN {} ELSE {"failedYetWritten"})
    \union (IF pio /\ LateFaults THEN {"lost"} ELSE {})

FaultyReturned(o) == 0
Returned(o) == IF o \in {"written", "lost"} THEN 0 ELSE -1

Arrived(o) == o \in {"written", "failedYetWritten"}

FaultyMediaAfter(lba, v, o) ==
  IF Arrived(o) THEN [media EXCEPT ![lba - PartStart] = v] ELSE media
MediaAfter(lba, v, o) ==
  IF Arrived(o) THEN [media EXCEPT ![lba] = v] ELSE media

Init ==
  /\ media \in [Lbas -> Values]
  /\ pc = "off" /\ bufSectors = 0 /\ hwOk = FALSE
  /\ ram = [i \in 0 .. FatSectors - 1 |-> media[PartStart + i]]
  /\ dirty = {} /\ fi = 0 /\ errors = 0 /\ call = "none" /\ ret = 0
  /\ out \in Values

(***************************************************************************)
(* load_fat_to_ram, then ata_init: the load succeeds for every sector or   *)
(* the flag is 0, and the controller answers or not.                       *)
(***************************************************************************)
Boot ==
  /\ pc = "off"
  /\ pc' = "idle"
  /\ bufSectors' \in {0, FatSectors}
  /\ ram' = [i \in 0 .. FatSectors - 1 |-> media[PartStart + i]]
  /\ dirty' = {}
  /\ hwOk' \in BOOLEAN
  /\ fi' = 0 /\ errors' = 0 /\ call' = "none" /\ ret' = 0
  /\ UNCHANGED <<media, out>>

(* What ata_read_sector can find: the copy, or the medium by hw_read,      *)
(* which may fail.                                                         *)
Readable(lba) == IF bufValid THEN InBuffer(lba) ELSE hwOk /\ lba \in Lbas

FaultySectorAt(lba) == media[lba]
SectorAt(lba) == IF bufValid THEN ram[lba - PartStart] ELSE media[lba]

ReadSector(lba) ==
  /\ pc = "idle"
  /\ call' = "read"
  /\ \/ Readable(lba) /\ ret' = 0 /\ out' = SectorAt(lba)
     \/ ~(bufValid /\ Readable(lba)) /\ ret' = -1 /\ UNCHANGED out
  /\ UNCHANGED <<pc, bufSectors, hwOk, ram, dirty, media, fi, errors>>

(* ata_write_sector into the copy.                                         *)
WriteBuffered(lba, v) ==
  /\ pc = "idle" /\ bufValid
  /\ call' = "write"
  /\ IF InBuffer(lba)
     THEN /\ ram' = [ram EXCEPT ![lba - PartStart] = v]
          /\ dirty' = DirtySet(lba - PartStart)
          /\ ret' = 0
     ELSE ret' = -1 /\ UNCHANGED <<ram, dirty>>
  /\ UNCHANGED <<pc, bufSectors, hwOk, media, fi, errors, out>>

(* ata_write_sector with no copy: straight to the controller.              *)
WriteThrough(lba, v) ==
  /\ pc = "idle" /\ ~bufValid
  /\ call' = "write"
  /\ IF hwOk /\ lba \in Lbas
     THEN \E o \in WriteOutcomes(TRUE) :
            ret' = Returned(o) /\ media' = MediaAfter(lba, v, o)
     ELSE ret' = -1 /\ UNCHANGED media
  /\ UNCHANGED <<pc, bufSectors, hwOk, ram, dirty, fi, errors, out>>

(* ata_flush returns at once when there is no copy.                        *)
FlushStart ==
  /\ pc = "idle"
  /\ IF bufValid
     THEN /\ pc' = "flush" /\ fi' = 0 /\ errors' = 0
          /\ call' = "none" /\ UNCHANGED ret
     ELSE /\ call' = "flush" /\ ret' = 0
          /\ UNCHANGED <<pc, fi, errors>>
  /\ UNCHANGED <<bufSectors, hwOk, ram, dirty, media, out>>

(* The next dirty sector of the loop.  The path is fixed by ata_hw_ok: a   *)
(* failed PIO write is not retried through the BIOS.                       *)
FlushSector(i) ==
  /\ pc = "flush"
  /\ i \in dirty /\ fi <= i /\ i < Limit
  /\ \A j \in dirty : j < fi \/ i <= j
  /\ fi' = i + 1
  /\ \E o \in WriteOutcomes(hwOk) :
       /\ media' = MediaAfter(PartStart + i, ram[i], o)
       /\ IF Returned(o) = 0
          THEN dirty' = DirtyClr(i) /\ UNCHANGED errors
          ELSE errors' = errors + 1 /\ UNCHANGED dirty
  /\ UNCHANGED <<pc, bufSectors, hwOk, ram, out, call, ret>>

FlushEnd ==
  /\ pc = "flush"
  /\ \A j \in dirty : j < fi \/ Limit <= j
  /\ pc' = "idle" /\ call' = "flush" /\ ret' = -errors
  /\ fi' = 0 /\ errors' = 0
  /\ UNCHANGED <<bufSectors, hwOk, ram, dirty, media, out>>

(***************************************************************************)
(* The copy of FAT_SECTORS = 1024 sectors at 0x50000 reaches 0xD0000.  The *)
(* kernel stack grows down from 0x90000 and the system call stack from     *)
(* 0x9D000, and display memory begins at 0xA0000: what runs there changes  *)
(* the sectors that share the memory.                                      *)
(***************************************************************************)
StackUse(i, v) ==
  /\ pc # "off" /\ bufValid /\ i \in Shared
  /\ ram' = [ram EXCEPT ![i] = v]
  /\ UNCHANGED <<pc, bufSectors, hwOk, dirty, media, fi, errors, out, call, ret>>

(* Power is lost, or the machine is reset: all but the medium is gone.     *)
PowerLoss ==
  /\ pc # "off"
  /\ pc' = "off" /\ bufSectors' = 0 /\ dirty' = {} /\ hwOk' = FALSE
  /\ fi' = 0 /\ errors' = 0 /\ call' = "none" /\ ret' = 0
  /\ UNCHANGED <<ram, media, out>>

(* One sector below the window and one past the medium are asked for too.  *)
Write(lba, v) == WriteBuffered(lba, v) \/ WriteThrough(lba, v)

Flush == FlushStart \/ (\E i \in 0 .. FatSectors - 1 : FlushSector(i)) \/ FlushEnd

Next ==
  \/ Boot
  \/ \E lba \in 0 .. DiskSectors : ReadSector(lba)
  \/ \E lba \in 0 .. DiskSectors, v \in Values : Write(lba, v)
  \/ Flush
  \/ \E i \in 0 .. FatSectors - 1, v \in Values : StackUse(i, v)
  \/ PowerLoss

Spec == Init /\ [][Next]_vars

-----------------------------------------------------------------------------
TypeOK ==
  /\ pc \in {"off", "idle", "flush"}
  /\ bufSectors \in {0, FatSectors}
  /\ hwOk \in BOOLEAN
  /\ ram \in [0 .. FatSectors - 1 -> Values]
  /\ media \in [Lbas -> Values]
  /\ dirty \in SUBSET (0 .. FatSectors - 1)
  /\ fi \in 0 .. FatSectors
  /\ errors \in Nat
  /\ call \in {"none", "read", "write", "flush"}
  /\ ret \in Int
  /\ out \in Values

(* A sector of the copy that is not marked dirty is on the medium as it is *)
(* in RAM, at every moment, a flush interrupted anywhere included: losing  *)
(* power can only lose sectors the bitmap knows of.  It is so of every     *)
(* sector whose memory the copy has for itself, whatever becomes of others.*)
CleanIsDurable ==
  bufValid => \A i \in 0 .. FatSectors - 1 :
                i \in dirty \union Shared \/ ram[i] = media[PartStart + i]

(* ata.h:15, the count: when ata_flush returns -N, N is the number of      *)
(* sectors that are still dirty and that the next flush will try again.    *)
FlushCountsFailures ==
  [][(pc = "flush" /\ pc' = "idle") => ret' = -Cardinality(dirty')]_vars

(* ata.h:15, success: when ata_flush returns 0, every sector of the copy   *)
(* that has its memory for itself is on the medium.                        *)
FlushSuccessMeansWritten ==
  [][(pc = "flush" /\ pc' = "idle" /\ ret' = 0) =>
       \A i \in (0 .. FatSectors - 1) \ Shared :
         ram'[i] = media'[PartStart + i]]_vars

(* The memory map of the SDK documentation, lines 100-101: the RAM disk    *)
(* has memory of its own below the kernel stack.  So nothing but loading   *)
(* and ata_write_sector changes it.                                        *)
RamDiskIsPrivate ==
  [][ram' # ram => pc = "off" \/ call' = "write"]_vars

(* The medium outside the loaded window is never written while the copy is *)
(* in use, so neither is the boot area that holds the loader and kernel.   *)
OutsideWindowUntouched ==
  [][bufValid => \A s \in Lbas : ~InBuffer(s) => media'[s] = media[s]]_vars

-----------------------------------------------------------------------------
(* The disk layer implements the durable store.                            *)
View ==
  [s \in Lbas |-> IF InBuffer(s) THEN ram[s - PartStart] ELSE media[s]]

Store == INSTANCE DurableStore WITH
           Sectors <- Lbas, view <- View, durable <- media,
           Unstable <- {PartStart + i : i \in Shared},
           synced <- (pc = "idle" /\ call = "flush" /\ ret = 0)

ImplementsStore == Store!Spec
=============================================================================
