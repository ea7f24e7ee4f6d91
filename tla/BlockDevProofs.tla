--------------------------- MODULE BlockDevProofs ---------------------------
(***************************************************************************)
(* Proofs about the disk layer for every disk, window, bitmap and set of   *)
(* sector contents.  IInv is the inductive invariant: besides the checked  *)
(* invariants it says that ata_flush only loops over a loaded copy, which  *)
(* makes the loop's limit the whole window at FlushEnd, and that a machine *)
(* without power has none.                                                 *)
(***************************************************************************)
EXTENDS BlockDev, FiniteSetTheorems, TLAPS

Window == 0 .. FatSectors - 1

FlushHasBuffer == (pc = "flush" => bufValid) /\ (pc = "off" => ~bufValid)

(* Inside ata_flush the error count is the number of sectors behind the    *)
(* loop index that are still dirty.                                        *)
ErrorsAreDirty ==
  pc = "flush" => errors = Cardinality({i \in dirty : i < fi})

IInv == TypeOK /\ CleanIsDurable /\ ErrorsAreDirty /\ FlushHasBuffer

(* Every set of dirty sectors is finite.                                   *)
LEMMA DirtyFinite ==
  ASSUME NEW S \in SUBSET (0 .. FatSectors - 1)
  PROVE  IsFiniteSet(S)
<1>1. 0 \in Int /\ FatSectors - 1 \in Int
  BY WindowAssumption DEF WindowAssumption
<1>2. IsFiniteSet(0 .. FatSectors - 1)
  BY <1>1, FS_Interval
<1>3. QED
  BY <1>2, FS_Subset

(* The bitmap has a bit for every sector of the window.                    *)
LEMMA BitmapCoversWindow ==
  ASSUME TypeOK, NEW i \in 0 .. FatSectors - 1
  PROVE  DirtySet(i) = dirty \union {i}
BY WindowAssumption DEF WindowAssumption, DirtySet, TypeOK

LEMMA LimitIsWindow ==
  ASSUME TypeOK, bufValid
  PROVE  Limit = FatSectors
BY WindowAssumption DEF WindowAssumption, TypeOK, bufValid, Limit

(***************************************************************************)
(* A step of ata_flush past sector i counts it exactly when it stays       *)
(* dirty.                                                                  *)
(***************************************************************************)
LEMMA FlushSectorCounts ==
  ASSUME IInv, NEW i \in 0 .. FatSectors - 1, FlushSector(i)
  PROVE  ErrorsAreDirty'
<1> DEFINE Behind(S, k) == {j \in S : j < k}
<1>1. /\ pc = "flush" /\ pc' = "flush"
      /\ errors = Cardinality(Behind(dirty, fi))
      /\ i \in dirty /\ fi' = i + 1
      /\ fi \in 0 .. FatSectors /\ dirty \in SUBSET (0 .. FatSectors - 1)
  BY DEF IInv, TypeOK, ErrorsAreDirty, FlushSector
<1>2. Behind(dirty \ {i}, i + 1) = Behind(dirty, fi)
  <2>1. \A j \in dirty : j \in Int /\ (j < fi \/ i <= j)
    BY <1>1 DEF FlushSector
  <2>2. fi <= i /\ fi \in Int /\ i \in Int
    BY <1>1 DEF FlushSector
  <2>3. QED
    BY <2>1, <2>2
<1>3. CASE dirty' = dirty \ {i} /\ errors' = errors
  BY <1>1, <1>2, <1>3 DEF ErrorsAreDirty
<1>4. CASE dirty' = dirty /\ errors' = errors + 1
  <2>1. /\ Behind(dirty, i + 1) = Behind(dirty, fi) \union {i}
        /\ i \notin Behind(dirty, fi)
    <3>1. \A j \in dirty : j \in Int /\ (j < fi \/ i <= j)
      BY <1>1 DEF FlushSector
    <3>2. fi <= i /\ fi \in Int /\ i \in Int /\ i \in dirty
      BY <1>1 DEF FlushSector
    <3>3. \A j \in dirty : j < i + 1 <=> (j < fi \/ j = i)
      BY <3>1, <3>2
    <3>4. ~(i < fi)
      BY <3>2
    <3>5. QED
      BY <3>2, <3>3, <3>4
  <2>2. IsFiniteSet(Behind(dirty, fi))
    <3>1. Behind(dirty, fi) \in SUBSET (0 .. FatSectors - 1)
      BY <1>1
    <3>2. QED
      BY <3>1, DirtyFinite
  <2>3. Cardinality(Behind(dirty, fi) \union {i})
          = Cardinality(Behind(dirty, fi)) + 1
    BY <2>1, <2>2, FS_AddElement
  <2>4. QED
    BY <1>1, <1>4, <2>1, <2>3 DEF ErrorsAreDirty
<1>5. QED
  BY <1>3, <1>4 DEF FlushSector, DirtyClr

(***************************************************************************)
(* No step makes a clean sector differ from the medium, provided the drive *)
(* tells of every sector it did not take.                                  *)
(***************************************************************************)
LEMMA FlushSectorKeepsClean ==
  ASSUME IInv, ~LateFaults, NEW i \in 0 .. FatSectors - 1, FlushSector(i)
  PROVE  CleanIsDurable'
<1>1. /\ ram' = ram /\ bufSectors' = bufSectors
      /\ i \in dirty /\ dirty' \in {dirty, dirty \ {i}}
  BY DEF FlushSector, DirtyClr
<1>2. PICK o \in WriteOutcomes(hwOk) :
        /\ media' = MediaAfter(PartStart + i, ram[i], o)
        /\ Returned(o) = 0 => dirty' = dirty \ {i}
        /\ Returned(o) # 0 => dirty' = dirty
  BY DEF FlushSector, DirtyClr
<1>3. Returned(o) = 0 => Arrived(o)
  BY <1>2 DEF WriteOutcomes, Returned, Arrived
<1>4. PartStart + i \in Lbas
  BY WindowAssumption DEF WindowAssumption, Lbas
<1>5. \A j \in 0 .. FatSectors - 1 :
        /\ PartStart + j \in Lbas
        /\ j # i => media'[PartStart + j] = media[PartStart + j]
  BY <1>2, WindowAssumption DEF WindowAssumption, MediaAfter, Lbas, IInv, TypeOK
<1>6. Arrived(o) => media'[PartStart + i] = ram[i]
  BY <1>2, <1>4 DEF MediaAfter, IInv, TypeOK
<1>7. SUFFICES ASSUME bufValid, NEW j \in 0 .. FatSectors - 1,
                      j \notin dirty', j \notin Shared
               PROVE  ram[j] = media'[PartStart + j]
  BY <1>1 DEF CleanIsDurable, bufValid
<1>8. CASE j = i
  BY <1>1, <1>2, <1>3, <1>6, <1>7, <1>8
<1>9. CASE j # i
  BY <1>1, <1>5, <1>7, <1>9 DEF IInv, CleanIsDurable
<1>10. QED
  BY <1>8, <1>9

LEMMA MediaStaysTyped ==
  ASSUME TypeOK, NEW lba \in Lbas, NEW v \in Values, NEW o
  PROVE  MediaAfter(lba, v, o) \in [Lbas -> Values]
BY DEF TypeOK, MediaAfter

LEMMA InitIInv == Init => IInv
<1> SUFFICES ASSUME Init PROVE IInv
  OBVIOUS
<1>1. bufSectors = 0 /\ pc = "off" /\ dirty = {} /\ fi = 0 /\ errors = 0
  BY DEF Init
<1>2. ~bufValid
  BY <1>1 DEF bufValid
<1>3. \A i \in 0 .. FatSectors - 1 : PartStart + i \in Lbas
  BY WindowAssumption DEF WindowAssumption, Lbas
<1>4. TypeOK
  <2>1. media \in [Lbas -> Values]
    BY DEF Init
  <2>2. ram \in [0 .. FatSectors - 1 -> Values]
    BY <1>3, <2>1 DEF Init
  <2>3. fi \in 0 .. FatSectors
    BY <1>1, WindowAssumption DEF WindowAssumption
  <2>4. hwOk \in BOOLEAN
    BY DEF Init
  <2>5. QED
    BY <1>1, <2>1, <2>2, <2>3, <2>4 DEF Init, TypeOK
<1>5. CleanIsDurable /\ ErrorsAreDirty /\ FlushHasBuffer
  BY <1>1, <1>2 DEF CleanIsDurable, ErrorsAreDirty, FlushHasBuffer
<1>6. QED
  BY <1>4, <1>5 DEF IInv
(***************************************************************************)
(* Every step keeps the invariant.  Only ata_flush can disturb the error   *)
(* count, and only a write or a flush the agreement of RAM and medium.     *)
(***************************************************************************)
LEMMA NextIInv ==
  ASSUME IInv, [Next]_vars, ~LateFaults
  PROVE  IInv'
<1> USE DEF IInv
<1>1. CASE Boot
  <2>1. \A i \in 0 .. FatSectors - 1 : PartStart + i \in Lbas
    BY WindowAssumption DEF WindowAssumption, Lbas
  <2>2. /\ ram' \in [0 .. FatSectors - 1 -> Values]
        /\ \A i \in 0 .. FatSectors - 1 : ram'[i] = media'[PartStart + i]
    BY <1>1, <2>1 DEF Boot, TypeOK
  <2>3. fi' \in 0 .. FatSectors
    BY <1>1, WindowAssumption DEF WindowAssumption, Boot
  <2>4. pc' = "idle" /\ hwOk' \in BOOLEAN
    BY <1>1 DEF Boot
  <2>5. TypeOK'
    BY <1>1, <2>2, <2>3, <2>4 DEF Boot, TypeOK
  <2>6. QED
    BY <2>2, <2>4, <2>5 DEF CleanIsDurable, ErrorsAreDirty, FlushHasBuffer
<1>2. ASSUME NEW lba \in 0 .. DiskSectors, ReadSector(lba)
      PROVE  IInv'
  <2>1. out' \in Values /\ ret' \in Int /\ call' = "read"
    <3>1. CASE Readable(lba) /\ ret' = 0 /\ out' = SectorAt(lba)
      <4>1. SectorAt(lba) \in Values
        BY <3>1, WindowAssumption
           DEF WindowAssumption, Readable, SectorAt, InBuffer, bufValid,
               TypeOK, Lbas
      <4>2. QED
        BY <1>2, <3>1, <4>1 DEF ReadSector
    <3>2. QED
      BY <1>2, <3>1 DEF ReadSector, TypeOK
  <2>2. UNCHANGED <<pc, bufSectors, hwOk, ram, dirty, media, fi, errors>>
    BY <1>2 DEF ReadSector
  <2>3. QED
    BY <2>1, <2>2
       DEF TypeOK, CleanIsDurable, ErrorsAreDirty, FlushHasBuffer, bufValid
<1>3. ASSUME NEW lba \in 0 .. DiskSectors, NEW v \in Values,
             WriteBuffered(lba, v)
      PROVE  IInv'
  <2>1. /\ pc = "idle" /\ call' = "write" /\ ret' \in Int
        /\ UNCHANGED <<pc, bufSectors, hwOk, media, fi, errors, out>>
    BY <1>3 DEF WriteBuffered
  <2>2. CASE ~InBuffer(lba)
    BY <1>3, <2>1, <2>2
       DEF WriteBuffered, TypeOK, CleanIsDurable, ErrorsAreDirty,
           FlushHasBuffer, bufValid
  <2>3. CASE InBuffer(lba)
    <3>1. lba - PartStart \in 0 .. FatSectors - 1
      BY <2>3, WindowAssumption DEF WindowAssumption, InBuffer, TypeOK
    <3>2. /\ ram' = [ram EXCEPT ![lba - PartStart] = v]
          /\ dirty' = dirty \union {lba - PartStart}
      BY <1>3, <2>3, <3>1, BitmapCoversWindow DEF WriteBuffered
    <3>3. TypeOK'
      BY <2>1, <3>1, <3>2 DEF TypeOK
    <3>4. CleanIsDurable'
      BY <2>1, <3>1, <3>2 DEF TypeOK, CleanIsDurable, bufValid
    <3>5. QED
      BY <2>1, <3>3, <3>4 DEF ErrorsAreDirty, FlushHasBuffer
  <2>4. QED
    BY <2>2, <2>3
<1>4. ASSUME NEW lba \in 0 .. DiskSectors, NEW v \in Values,
             WriteThrough(lba, v)
      PROVE  IInv'
  <2>1. /\ pc = "idle" /\ ~bufValid /\ call' = "write"
        /\ UNCHANGED <<pc, bufSectors, hwOk, ram, dirty, fi, errors, out>>
    BY <1>4 DEF WriteThrough
  <2>2. media' \in [Lbas -> Values] /\ ret' \in Int
    <3>1. CASE hwOk /\ lba \in Lbas
      <4>1. PICK o : ret' = Returned(o) /\ media' = MediaAfter(lba, v, o)
        BY <1>4, <3>1 DEF WriteThrough
      <4>2. MediaAfter(lba, v, o) \in [Lbas -> Values]
        BY <3>1, MediaStaysTyped
      <4>3. QED
        BY <4>1, <4>2 DEF Returned
    <3>2. CASE ~(hwOk /\ lba \in Lbas)
      <4>1. ret' = -1 /\ media' = media
        BY <1>4, <3>2 DEF WriteThrough
      <4>2. QED
        BY <4>1 DEF TypeOK
    <3>3. QED
      BY <3>1, <3>2
  <2>3. QED
    BY <2>1, <2>2
       DEF TypeOK, CleanIsDurable, ErrorsAreDirty, FlushHasBuffer, bufValid
<1>5. CASE FlushStart
  <2>1. UNCHANGED <<bufSectors, hwOk, ram, dirty, media, out>>
    BY <1>5 DEF FlushStart
  <2>2. TypeOK'
    BY <1>5, <2>1, WindowAssumption DEF WindowAssumption, FlushStart, TypeOK
  <2>3. CleanIsDurable' /\ FlushHasBuffer'
    BY <1>5, <2>1 DEF FlushStart, CleanIsDurable, FlushHasBuffer, bufValid
  <2>4. ErrorsAreDirty'
    <3>1. CASE bufValid
      <4>1. {i \in dirty : i < 0} = {}
        <5>1. \A i \in dirty : i \in 0 .. FatSectors - 1
          BY DEF TypeOK
        <5>2. \A i \in dirty : ~(i < 0)
          BY <5>1
        <5>3. QED
          BY <5>2
      <4>2. QED
        BY <1>5, <3>1, <4>1, FS_EmptySet DEF FlushStart, ErrorsAreDirty
    <3>2. CASE ~bufValid
      BY <1>5, <3>2 DEF FlushStart, ErrorsAreDirty
    <3>3. QED
      BY <3>1, <3>2
  <2>5. QED
    BY <2>2, <2>3, <2>4
<1>6. ASSUME NEW i \in 0 .. FatSectors - 1, FlushSector(i)
      PROVE  IInv'
  <2>1. TypeOK'
    <3>1. PartStart + i \in Lbas /\ fi' \in 0 .. FatSectors
      BY <1>6, WindowAssumption DEF WindowAssumption, Lbas, FlushSector
    <3>2. media' \in [Lbas -> Values]
      BY <1>6, <3>1, MediaStaysTyped DEF FlushSector, TypeOK
    <3>3. /\ dirty' \in SUBSET (0 .. FatSectors - 1)
          /\ errors' \in Nat
      <4>1. dirty \in SUBSET (0 .. FatSectors - 1) /\ errors \in Nat
        BY DEF TypeOK
      <4>2. dirty' \in {dirty, dirty \ {i}} /\ errors' \in {errors, errors + 1}
        BY <1>6 DEF FlushSector, DirtyClr
      <4>3. QED
        BY <4>1, <4>2
    <3>4. UNCHANGED <<pc, bufSectors, hwOk, ram, out, call, ret>>
      BY <1>6 DEF FlushSector
    <3>5. QED
      BY <3>1, <3>2, <3>3, <3>4 DEF TypeOK
  <2>2. FlushHasBuffer'
    BY <1>6 DEF FlushSector, FlushHasBuffer, bufValid
  <2>3. QED
    BY <1>6, <2>1, <2>2, FlushSectorCounts, FlushSectorKeepsClean
<1>7. CASE FlushEnd
  BY <1>7, WindowAssumption
     DEF WindowAssumption, FlushEnd, TypeOK, CleanIsDurable, ErrorsAreDirty,
         FlushHasBuffer, bufValid
<1>8. CASE PowerLoss
  <2>1. /\ hwOk' \in BOOLEAN /\ ~bufValid' /\ pc' = "off" /\ dirty' = {}
    <3>1. hwOk' \in BOOLEAN
      BY <1>8 DEF PowerLoss
    <3>2. ~bufValid' /\ pc' = "off" /\ dirty' = {}
      BY <1>8 DEF PowerLoss, bufValid
    <3>3. QED
      BY <3>1, <3>2
  <2>2. fi' \in 0 .. FatSectors
    BY <1>8, WindowAssumption DEF WindowAssumption, PowerLoss
  <2>3. TypeOK'
    BY <1>8, <2>1, <2>2 DEF PowerLoss, TypeOK
  <2>4. QED
    BY <2>1, <2>3 DEF CleanIsDurable, ErrorsAreDirty, FlushHasBuffer
<1>9. ASSUME NEW i \in 0 .. FatSectors - 1, NEW v \in Values, StackUse(i, v)
      PROVE  IInv'
  <2>1. /\ i \in Shared /\ ram' = [ram EXCEPT ![i] = v]
        /\ UNCHANGED <<pc, bufSectors, hwOk, dirty, media, fi, errors, out,
                       call, ret>>
    BY <1>9 DEF StackUse
  <2>2. TypeOK' /\ ErrorsAreDirty' /\ FlushHasBuffer'
    BY <2>1 DEF TypeOK, ErrorsAreDirty, FlushHasBuffer, bufValid
  <2>3. CleanIsDurable'
    BY <2>1 DEF TypeOK, CleanIsDurable, bufValid
  <2>4. QED
    BY <2>2, <2>3
<1>10. CASE UNCHANGED vars
  BY <1>10
     DEF vars, TypeOK, CleanIsDurable, ErrorsAreDirty, FlushHasBuffer, bufValid
<1>11. QED
  BY <1>1, <1>2, <1>3, <1>4, <1>5, <1>6, <1>7, <1>8, <1>9, <1>10
     DEF Next, Write, Flush

(* The invariant holds of the disk layer as long as the drive reports every *)
(* sector it did not take.                                                 *)
THEOREM BlockDevInvariant ==
  ASSUME ~LateFaults
  PROVE  Spec => []IInv
<1>1. IInv /\ [Next]_vars => IInv'
  BY NextIInv
<1>2. QED
  BY InitIInv, <1>1, PTL DEF Spec

(* A power loss at any moment can cost only the sectors the bitmap marks,  *)
(* and every type is kept: the two invariants of the run, for any disk.    *)
THEOREM CleanSectorsAreDurable ==
  ASSUME ~LateFaults
  PROVE  Spec => [](TypeOK /\ CleanIsDurable /\ ErrorsAreDirty)
<1>1. IInv => TypeOK /\ CleanIsDurable /\ ErrorsAreDirty
  BY DEF IInv
<1>2. QED
  BY BlockDevInvariant, <1>1, PTL

(***************************************************************************)
(* At FlushEnd no dirty sector is ahead of the loop, and the loop covers   *)
(* the whole window: the sectors behind it are all the dirty ones.         *)
(***************************************************************************)
LEMMA FlushReturn ==
  ASSUME IInv, [Next]_vars, pc = "flush", pc' = "idle"
  PROVE  /\ FlushEnd
         /\ ret' = -Cardinality(dirty')
         /\ ret' = 0 => dirty' = {}
<1>1. FlushEnd
  <2>1. ~Boot /\ ~PowerLoss /\ ~FlushStart /\ ~UNCHANGED vars
    BY DEF Boot, PowerLoss, FlushStart, vars
  <2>2. \A lba \in 0 .. DiskSectors :
           ~ReadSector(lba) /\ \A v \in Values : ~Write(lba, v)
    BY DEF ReadSector, Write, WriteBuffered, WriteThrough
  <2>3. \A i \in 0 .. FatSectors - 1 :
           ~FlushSector(i) /\ \A v \in Values : ~StackUse(i, v)
    BY DEF FlushSector, StackUse
  <2>4. QED
    BY <2>1, <2>2, <2>3 DEF Next, Flush
<1>2. Limit = FatSectors
  BY LimitIsWindow DEF IInv, FlushHasBuffer
<1>3. \A i \in dirty : i < fi
  <2>1. /\ \A j \in dirty : j < fi \/ Limit <= j
        /\ \A j \in dirty : j \in Int /\ j < FatSectors
    BY <1>1, WindowAssumption
       DEF WindowAssumption, FlushEnd, IInv, TypeOK
  <2>2. FatSectors \in Int
    BY WindowAssumption DEF WindowAssumption
  <2>3. QED
    BY <2>1, <2>2, <1>2
<1>4. {i \in dirty : i < fi} = dirty
  BY <1>3
<1>5. errors = Cardinality(dirty) /\ errors \in Nat
  BY <1>4 DEF IInv, TypeOK, ErrorsAreDirty
<1>6. dirty' = dirty /\ ret' = -errors
  BY <1>1 DEF FlushEnd
<1>7. IsFiniteSet(dirty)
  BY DirtyFinite DEF IInv, TypeOK
<1>8. errors = 0 => dirty = {}
  BY <1>5, <1>7, FS_EmptySet
<1>9. QED
  BY <1>1, <1>5, <1>6, <1>8

(* ata_flush tells the truth: -N counts the sectors that still wait, and 0 *)
(* is returned only when the medium holds the whole copy.                  *)
THEOREM FlushTellsTheTruth ==
  ASSUME ~LateFaults
  PROVE  Spec => FlushCountsFailures /\ FlushSuccessMeansWritten
<1>1. ASSUME IInv, [Next]_vars
      PROVE  (pc = "flush" /\ pc' = "idle") => ret' = -Cardinality(dirty')
  BY <1>1, FlushReturn
<1>2. ASSUME IInv, [Next]_vars, IInv'
      PROVE  (pc = "flush" /\ pc' = "idle" /\ ret' = 0) =>
               \A i \in (0 .. FatSectors - 1) \ Shared :
                 ram'[i] = media'[PartStart + i]
  <2>1. SUFFICES ASSUME pc = "flush", pc' = "idle", ret' = 0
                 PROVE  \A i \in (0 .. FatSectors - 1) \ Shared :
                          ram'[i] = media'[PartStart + i]
    OBVIOUS
  <2>2. dirty' = {} /\ bufSectors' = bufSectors
    BY <1>2, <2>1, FlushReturn DEF FlushEnd
  <2>3. bufValid'
    BY <1>2, <2>1, <2>2 DEF IInv, FlushHasBuffer, bufValid
  <2>4. QED
    BY <1>2, <2>2, <2>3 DEF IInv, CleanIsDurable
<1>3. QED
  BY <1>1, <1>2, BlockDevInvariant, PTL
     DEF Spec, FlushCountsFailures, FlushSuccessMeansWritten

(* While the copy is in use nothing outside its window is ever written to  *)
(* the medium: ata_flush is the only writer and stays inside it.           *)
THEOREM BootAreaIsSafe ==
  ASSUME ~LateFaults
  PROVE  Spec => OutsideWindowUntouched
<1>1. ASSUME IInv, [Next]_vars
      PROVE  bufValid => \A s \in Lbas : ~InBuffer(s) => media'[s] = media[s]
  <2>1. SUFFICES ASSUME bufValid, NEW s \in Lbas, ~InBuffer(s),
                        media' # media
                 PROVE  media'[s] = media[s]
    OBVIOUS
  <2>2. PICK i \in 0 .. FatSectors - 1 : FlushSector(i)
    BY <1>1, <2>1
       DEF Next, vars, Flush, Boot, ReadSector, Write, WriteBuffered,
           WriteThrough, FlushStart, FlushEnd, StackUse, PowerLoss
  <2>3. s # PartStart + i
    BY <1>1, <2>1, WindowAssumption
       DEF WindowAssumption, IInv, TypeOK, bufValid, InBuffer, Lbas
  <2>4. QED
    BY <1>1, <2>2, <2>3 DEF FlushSector, MediaAfter, IInv, TypeOK
<1>2. QED
  BY <1>1, BlockDevInvariant, PTL DEF Spec, OutsideWindowUntouched

-----------------------------------------------------------------------------
(* What readers see, written out for the three situations of the copy.     *)
Unstable == {PartStart + i : i \in Shared}

LEMMA ViewWithoutBuffer ==
  ASSUME TypeOK, ~bufValid
  PROVE  View = media
<1>1. \A s \in Lbas : ~InBuffer(s)
  BY WindowAssumption DEF WindowAssumption, TypeOK, bufValid, InBuffer, Lbas
<1>2. QED
  BY <1>1 DEF View, TypeOK

LEMMA ViewOfCleanBuffer ==
  ASSUME TypeOK, CleanIsDurable, bufValid, dirty = {}
  PROVE  \A s \in Lbas \ Unstable : View[s] = media[s]
<1>1. ASSUME NEW s \in Lbas \ Unstable, InBuffer(s)
      PROVE  ram[s - PartStart] = media[s]
  <2>1. /\ s - PartStart \in 0 .. FatSectors - 1
        /\ PartStart + (s - PartStart) = s
    BY <1>1, WindowAssumption DEF WindowAssumption, TypeOK, InBuffer, Lbas
  <2>2. s - PartStart \notin Shared
    BY <2>1 DEF Unstable
  <2>3. QED
    BY <2>1, <2>2 DEF CleanIsDurable
<1>2. QED
  BY <1>1 DEF View, TypeOK

(* The same of the state a step leads to.                                  *)
LEMMA NextViewWithoutBuffer ==
  ASSUME TypeOK', ~bufValid'
  PROVE  View' = media'
<1>1. \A s \in Lbas : ~InBuffer(s)'
  BY WindowAssumption DEF WindowAssumption, TypeOK, bufValid, InBuffer, Lbas
<1>2. QED
  BY <1>1 DEF View, TypeOK

(* The steps of the store that each step of the disk layer performs.       *)
LEMMA StoreStep ==
  ASSUME IInv, IInv', [Next]_vars
  PROVE  [Store!Next]_Store!vars
<1> DEFINE Synced == pc = "idle" /\ call = "flush" /\ ret = 0
<1> USE DEF IInv
<1>1. CASE Boot
  <2>1. View = media
    BY <1>1, ViewWithoutBuffer DEF Boot, FlushHasBuffer
  <2>2. media' = media /\ out' = out /\ ~Synced'
    BY <1>1 DEF Boot
  <2>3. View' = media'
    <3>1. \A i \in 0 .. FatSectors - 1 : ram'[i] = media'[PartStart + i]
      BY <1>1, <2>2 DEF Boot
    <3>2. ASSUME NEW s \in Lbas, InBuffer(s)'
          PROVE  ram'[s - PartStart] = media'[s]
      <4>1. /\ s - PartStart \in 0 .. FatSectors - 1
            /\ PartStart + (s - PartStart) = s
        BY <3>2, WindowAssumption DEF WindowAssumption, TypeOK, InBuffer, Lbas
      <4>2. QED
        BY <3>1, <4>1
    <3>3. QED
      BY <3>2 DEF View, TypeOK
  <2>4. QED
    BY <2>1, <2>2, <2>3 DEF Store!Next, Store!Other
<1>2. ASSUME NEW lba \in 0 .. DiskSectors, ReadSector(lba)
      PROVE  Store!Next
  <2>1. View' = View /\ media' = media /\ ~Synced'
    BY <1>2 DEF ReadSector, View, InBuffer
  <2>2. CASE Readable(lba) /\ out' = SectorAt(lba)
    <3>1. lba \in Lbas
      BY <2>2, WindowAssumption
         DEF WindowAssumption, Readable, InBuffer, TypeOK, bufValid, Lbas
    <3>2. SectorAt(lba) = View[lba]
      <4>1. CASE bufValid
        BY <2>2, <3>1, <4>1 DEF Readable, SectorAt, View
      <4>2. CASE ~bufValid
        BY <4>2, ViewWithoutBuffer DEF SectorAt
      <4>3. QED
        BY <4>1, <4>2
    <3>3. QED
      BY <2>1, <2>2, <3>1, <3>2 DEF Store!Next, Store!Get
  <2>3. CASE out' = out
    BY <2>1, <2>3 DEF Store!Next, Store!Other
  <2>4. QED
    BY <1>2, <2>2, <2>3 DEF ReadSector
<1>3. ASSUME NEW lba \in 0 .. DiskSectors, NEW v \in Values,
             WriteBuffered(lba, v)
      PROVE  Store!Next
  <2>1. /\ bufValid /\ ~Synced'
        /\ media' = media /\ out' = out /\ bufSectors' = bufSectors
    BY <1>3 DEF WriteBuffered
  <2>2. CASE ~InBuffer(lba)
    <3>1. View' = View
      BY <1>3, <2>2 DEF WriteBuffered, View, InBuffer
    <3>2. QED
      BY <2>1, <3>1 DEF Store!Next, Store!Other
  <2>3. CASE InBuffer(lba)
    <3>1. lba \in Lbas /\ lba - PartStart \in 0 .. FatSectors - 1
      BY <2>3, WindowAssumption DEF WindowAssumption, InBuffer, TypeOK, Lbas
    <3>2. ram' = [ram EXCEPT ![lba - PartStart] = v]
      BY <1>3, <2>3 DEF WriteBuffered
    <3>3. \A s \in Lbas : s # lba => s - PartStart # lba - PartStart
      BY <3>1, WindowAssumption DEF WindowAssumption, Lbas
    <3>4. \A s \in Lbas : InBuffer(s) => s - PartStart \in 0 .. FatSectors - 1
      BY WindowAssumption DEF WindowAssumption, InBuffer, TypeOK, Lbas
    <3>5. \A s \in Lbas : InBuffer(s)' = InBuffer(s)
      BY <2>1 DEF InBuffer
    <3>6. View' = [View EXCEPT ![lba] = v]
      BY <2>1, <2>3, <3>1, <3>2, <3>3, <3>4, <3>5 DEF View, TypeOK
    <3>7. QED
      BY <2>1, <3>1, <3>6 DEF Store!Next, Store!Put
  <2>4. QED
    BY <2>2, <2>3
<1>4. ASSUME NEW lba \in 0 .. DiskSectors, NEW v \in Values,
             WriteThrough(lba, v)
      PROVE  Store!Next
  <2>1. View = media /\ View' = media' /\ out' = out /\ ~Synced'
    <3>1. ~bufValid /\ ~bufValid' /\ out' = out /\ ~Synced'
      BY <1>4 DEF WriteThrough, bufValid
    <3>2. QED
      BY <3>1, ViewWithoutBuffer, NextViewWithoutBuffer
  <2>2. CASE media' = media
    BY <2>1, <2>2 DEF Store!Next, Store!Other
  <2>3. CASE lba \in Lbas /\ media' = [media EXCEPT ![lba] = v]
    BY <2>1, <2>3 DEF Store!Next, Store!Put
  <2>4. QED
    BY <1>4, <2>2, <2>3 DEF WriteThrough, MediaAfter
<1>5. CASE FlushStart
  <2>1. View' = View /\ media' = media /\ out' = out
    BY <1>5 DEF FlushStart, View, InBuffer
  <2>2. CASE bufValid
    <3>1. ~Synced'
      BY <1>5, <2>2 DEF FlushStart
    <3>2. QED
      BY <2>1, <3>1 DEF Store!Next, Store!Other
  <2>3. CASE ~bufValid
    <3>1. View = media /\ Synced'
      BY <1>5, <2>3, ViewWithoutBuffer DEF FlushStart
    <3>2. QED
      BY <2>1, <3>1 DEF Store!Next, Store!Acknowledge
  <2>4. QED
    BY <2>2, <2>3
<1>6. ASSUME NEW i \in 0 .. FatSectors - 1, FlushSector(i)
      PROVE  Store!Next
  <2>1. /\ out' = out /\ ~Synced' /\ ram' = ram /\ bufSectors' = bufSectors
        /\ bufValid
    BY <1>6 DEF FlushSector, FlushHasBuffer
  <2>2. PartStart + i \in Lbas /\ InBuffer(PartStart + i)
        /\ (PartStart + i) - PartStart = i
    BY <2>1, WindowAssumption
       DEF WindowAssumption, Lbas, InBuffer, TypeOK, bufValid
  <2>3. View[PartStart + i] = ram[i]
    BY <2>2 DEF View
  <2>4. CASE media' = media
    <3>1. View' = View
      BY <2>1, <2>4 DEF View, InBuffer
    <3>2. QED
      BY <2>1, <2>4, <3>1 DEF Store!Next, Store!Other
  <2>5. CASE media' = [media EXCEPT ![PartStart + i] = ram[i]]
    <3>1. \A s \in Lbas : ~InBuffer(s) => media'[s] = media[s]
      BY <2>2, <2>5 DEF TypeOK
    <3>2. View' = View
      BY <2>1, <3>1 DEF View, InBuffer
    <3>3. QED
      BY <2>1, <2>2, <2>3, <2>5, <3>2 DEF Store!Next, Store!Persist
  <2>6. QED
    BY <1>6, <2>4, <2>5 DEF FlushSector, MediaAfter
<1>7. CASE FlushEnd
  <2>1. View' = View /\ media' = media /\ out' = out
    BY <1>7 DEF FlushEnd, View, InBuffer
  <2>2. CASE ret' = 0
    <3>1. dirty = {} /\ bufValid
      BY <1>7, <2>2, FlushReturn DEF FlushEnd, FlushHasBuffer
    <3>2. \A t \in Lbas \ Unstable : View[t] = media[t]
      BY <3>1, ViewOfCleanBuffer
    <3>3. Synced'
      BY <1>7, <2>2 DEF FlushEnd
    <3>4. QED
      BY <2>1, <3>2, <3>3 DEF Store!Next, Store!Acknowledge, Unstable
  <2>3. CASE ret' # 0
    BY <2>1, <2>3 DEF Store!Next, Store!Other
  <2>4. QED
    BY <2>2, <2>3
<1>8. CASE PowerLoss
  <2>1. ~bufValid' /\ media' = media /\ out' = out /\ ~Synced'
    BY <1>8 DEF PowerLoss, bufValid
  <2>2. View' = media'
    BY <2>1, NextViewWithoutBuffer
  <2>3. QED
    BY <2>1, <2>2 DEF Store!Next, Store!PowerLoss
<1>9. ASSUME NEW i \in 0 .. FatSectors - 1, NEW v \in Values, StackUse(i, v)
      PROVE  Store!Next
  <2>1. /\ bufValid /\ i \in Shared
        /\ ram' = [ram EXCEPT ![i] = v]
        /\ UNCHANGED <<bufSectors, media, out, pc, call, ret>>
    BY <1>9 DEF StackUse
  <2>2. /\ PartStart + i \in Lbas /\ InBuffer(PartStart + i)
        /\ (PartStart + i) - PartStart = i
    BY <2>1, WindowAssumption
       DEF WindowAssumption, Lbas, InBuffer, TypeOK, bufValid
  <2>3. \A s \in Lbas :
          /\ InBuffer(s)' = InBuffer(s)
          /\ InBuffer(s) => s - PartStart \in 0 .. FatSectors - 1
          /\ s # PartStart + i => s - PartStart # i
    BY <2>1, WindowAssumption DEF WindowAssumption, InBuffer, TypeOK, Lbas
  <2>4. View' = [View EXCEPT ![PartStart + i] = v]
    BY <2>1, <2>2, <2>3 DEF View, TypeOK
  <2>5. QED
    BY <2>1, <2>4 DEF Store!Next, Store!Decay
<1>10. CASE UNCHANGED vars
  BY <1>10 DEF vars, Store!vars, View, InBuffer
<1>11. QED
  BY <1>1, <1>2, <1>3, <1>4, <1>5, <1>6, <1>7, <1>8, <1>9, <1>10
     DEF Next, Write, Flush

(* The disk layer implements the durable store: reads return what was last *)
(* written, a flush that reports success has persisted all of it, and a    *)
(* power loss takes readers back to the medium.                            *)
THEOREM BlockDevImplementsStore ==
  ASSUME ~LateFaults
  PROVE  Spec => ImplementsStore
<1>1. Init => Store!Init
  <2>1. SUFFICES ASSUME Init PROVE Store!Init
    OBVIOUS
  <2>2. View = media
    BY <2>1, InitIInv, ViewWithoutBuffer
       DEF IInv, Init, FlushHasBuffer
  <2>3. QED
    BY <2>1, <2>2 DEF Init, Store!Init
<1>2. IInv /\ IInv' /\ [Next]_vars => [Store!Next]_Store!vars
  BY StoreStep
<1>3. QED
  BY <1>1, <1>2, BlockDevInvariant, PTL DEF Spec, ImplementsStore, Store!Spec
=============================================================================
