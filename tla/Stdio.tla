------------------------------- MODULE Stdio -------------------------------
(***************************************************************************)
(* The FILE layer, libc/stdio.c.  A stream keeps the whole file in a block *)
(* of the heap; the file on the disk changes only when the stream is       *)
(* flushed or closed.  The heap and the file system are seen through their *)
(* calls: malloc and realloc may fail, a file may be unreadable, and a     *)
(* write that fails leaves the file as it was or damaged.                  *)
(***************************************************************************)
EXTENDS Integers, Sequences, FiniteSets

CONSTANTS
  FopenMax,   \* FOPEN_MAX
  Names,      \* bound: normalised paths
  Bytes,      \* bound: the bytes programs write
  Blocks,     \* the blocks of the heap
  Null,       \* no block, no file
  Stale,      \* a byte nobody wrote
  Wrap,       \* 2^32
  Chunks,     \* bound: what programs write at once
  Lengths,    \* bound: how much they read at once
  Offsets,    \* bound: offsets of fseek
  MaxSize     \* bound: sizes and positions

ASSUME StdioAssumption ==
  /\ FopenMax \in Nat /\ Wrap \in Nat /\ MaxSize \in Nat
  /\ Null \notin Blocks /\ Stale \notin Bytes
  /\ Chunks \subseteq Seq(Bytes) /\ Lengths \subseteq Nat /\ Offsets \subseteq Int

VARIABLES
  files,    \* _files: the fields of FILE
  disk,     \* the files, by name
  held,     \* the heap blocks that are allocated
  past,     \* the last call delivered bytes from behind the file
  sought,   \* history: the open streams that were moved behind their end
  doubtful  \* history: the open streams that shared their file or failed to write it

vars == <<files, disk, held, past, sought, doubtful>>

Slots == 1 .. FopenMax

(* The fields of a closed stream are not read again: all but valid are     *)
(* overwritten by fopen, and its dirty is 0.                               *)
Closed == [valid |-> FALSE, name |-> Null, buf |-> Null, data |-> <<>>, pos |-> 0,
           writable |-> FALSE, dirty |-> FALSE]

Opened(name, buf, data, pos, writable, dirty) ==
  [valid |-> TRUE, name |-> name, buf |-> buf, data |-> data, pos |-> pos,
   writable |-> writable, dirty |-> dirty]

Size(i) == Len(files[i].data)

Init ==
  /\ files = [i \in Slots |-> Closed]
  /\ disk = [n \in Names |-> Null]
  /\ held = {} /\ past = FALSE /\ sought = {} /\ doubtful = {}

-----------------------------------------------------------------------------
(* fopen, in the first free slot.                                          *)
FreeSlot(i) == ~files[i].valid /\ \A j \in 1 .. i - 1 : files[j].valid

(* The streams that are open on a name.                                    *)
Streams(name) == {i \in Slots : files[i].valid /\ files[i].name = name}

(* A stream that opens shares its file with those that are open on it.     *)
Sharing(i, name) == IF Streams(name) = {} THEN {} ELSE Streams(name) \cup {i}

FaultyFresh(name, b) == Opened(name, b, <<>>, 0, TRUE, FALSE)

(* "w", and "a" of a file that does not exist: to be created at the flush. *)
Fresh(name, b) == Opened(name, b, <<>>, 0, TRUE, TRUE)

OpenFresh(i, name, mode) ==
  /\ FreeSlot(i)
  /\ mode # "r"
  /\ mode = "a" => disk[name] = Null
  /\ \E b \in (Blocks \ held) \cup {Null} :
       /\ files' = [files EXCEPT ![i] = Fresh(name, b)]
       /\ held' = held \cup ({b} \ {Null})
  /\ doubtful' = doubtful \cup Sharing(i, name)
  /\ past' = FALSE
  /\ UNCHANGED <<disk, sought>>

(* "r" and "a" of a file: its contents are read into a block.  When malloc *)
(* or the read fails the stream stays closed and nothing is kept.          *)
OpenExisting(i, name, mode) ==
  /\ FreeSlot(i)
  /\ mode \in {"r", "a"} /\ disk[name] # Null
  /\ \/ \E b \in Blocks \ held :
          /\ files' = [files EXCEPT ![i] = Opened(name, b, disk[name],
                         IF mode = "a" THEN Len(disk[name]) ELSE 0, mode = "a", FALSE)]
          /\ held' = held \cup {b}
          /\ doubtful' = doubtful \cup Sharing(i, name)
     \/ UNCHANGED <<files, held, doubtful>>
  /\ past' = FALSE
  /\ UNCHANGED <<disk, sought>>

-----------------------------------------------------------------------------
(* fflush and fclose.  A write that failed is not tried again, and fclose  *)
(* does not tell; the file may be left as it was or damaged.               *)
Write(i, ok) ==
  \E left \in IF ok THEN {files[i].data} ELSE {disk[files[i].name], <<Stale>>} :
    disk' = [disk EXCEPT ![files[i].name] = left]

Fflush(i) ==
  /\ files[i].dirty
  /\ \E ok \in BOOLEAN :
       /\ Write(i, ok)
       /\ doubtful' = IF ok THEN doubtful ELSE doubtful \cup {i}
  /\ files' = [files EXCEPT ![i].dirty = FALSE]
  /\ past' = FALSE
  /\ UNCHANGED <<held, sought>>

FaultyReleased(i) == held

Released(i) == held \ {files[i].buf}

Fclose(i) ==
  /\ files[i].valid
  /\ IF files[i].dirty /\ files[i].writable THEN \E ok \in BOOLEAN : Write(i, ok)
     ELSE UNCHANGED disk
  /\ held' = Released(i)
  /\ files' = [files EXCEPT ![i] = Closed]
  /\ sought' = sought \ {i} /\ doubtful' = doubtful \ {i}
  /\ past' = FALSE

-----------------------------------------------------------------------------
(* Reading.  Behind the end the number of bytes left wraps, and fread      *)
(* copies what lies behind the file.                                       *)
Left(i) == IF files[i].pos <= Size(i) THEN Size(i) - files[i].pos
           ELSE Wrap - (files[i].pos - Size(i))

Take(i, n) ==
  /\ past' = (n > 0 /\ files[i].pos + n > Size(i))
  /\ files' = [files EXCEPT ![i].pos = @ + n]
  /\ UNCHANGED <<disk, held, sought, doubtful>>

Least(a, b) == IF a < b THEN a ELSE b

FaultyReadable(i, bytes) == bytes

Readable(i, bytes) == Least(bytes, Left(i))

Fread(i, bytes) ==
  /\ files[i].valid
  /\ files[i].pos + Readable(i, bytes) <= MaxSize
  /\ Take(i, Readable(i, bytes))

(* fgetc, and fgets, which stops behind a newline: all calls of fgetc.     *)
Fgets(i, n, newline) ==
  LET byte(k) == files[i].data[files[i].pos + k]
  IN  /\ files[i].valid
      /\ \E m \in 1 .. Least(n, Size(i) - files[i].pos) :
           /\ \A k \in 1 .. m - 1 : byte(k) # newline
           /\ m \in {n, Size(i) - files[i].pos} \/ byte(m) = newline
           /\ Take(i, m)

-----------------------------------------------------------------------------
(* Writing: fwrite, and fputc, fputs and fprintf, which call it.           *)
(* The bytes between the old end and the position are not initialised.     *)
Spliced(i, chunk) ==
  LET pos == files[i].pos
      end == pos + Len(chunk)
      len == IF end > Size(i) THEN end ELSE Size(i)
  IN  [k \in 1 .. len |-> IF k \in pos + 1 .. end THEN chunk[k - pos]
                          ELSE IF k <= Size(i) THEN files[i].data[k] ELSE Stale]

Grown(i, b, chunk) ==
  [files[i] EXCEPT !.buf = b, !.data = Spliced(i, chunk), !.pos = @ + Len(chunk),
                   !.dirty = TRUE]

Fwrite(i, chunk) ==
  /\ files[i].valid /\ files[i].writable
  /\ files[i].pos + Len(chunk) <= MaxSize
  /\ \E b \in (Blocks \ held) \cup {files[i].buf} :
       /\ files[i].pos + Len(chunk) > Size(i) => b # Null
       /\ files[i].pos + Len(chunk) <= Size(i) => b = files[i].buf
       /\ files' = [files EXCEPT ![i] = Grown(i, b, chunk)]
       /\ held' = (held \ {files[i].buf}) \cup ({b} \ {Null})
  /\ past' = FALSE
  /\ UNCHANGED <<disk, sought, doubtful>>

-----------------------------------------------------------------------------
(* fseek, rewind.                                                          *)
Fseek(i, from, offset) ==
  /\ files[i].valid
  /\ from + offset \in 0 .. MaxSize
  /\ files' = [files EXCEPT ![i].pos = from + offset]
  /\ sought' = IF from + offset > Size(i) THEN sought \cup {i} ELSE sought
  /\ past' = FALSE
  /\ UNCHANGED <<disk, held, doubtful>>

Next ==
  \E i \in Slots :
    \/ \E name \in Names, mode \in {"r", "w", "a"} :
         OpenFresh(i, name, mode) \/ OpenExisting(i, name, mode)
    \/ Fflush(i) \/ Fclose(i)
    \/ \E n \in Lengths : Fread(i, n)
    \/ \E n \in Lengths, newline \in Bytes : Fgets(i, n, newline)
    \/ \E chunk \in Chunks : Fwrite(i, chunk)
    \/ \E offset \in Offsets, from \in {0, files[i].pos, Size(i)} : Fseek(i, from, offset)

Spec == Init /\ [][Next]_vars

-----------------------------------------------------------------------------
(* A stream that believes to be saved is saved: one that is not dirty      *)
(* holds what the disk holds, so that closing it without a write loses     *)
(* nothing.  Excepted are streams on one file at once, each with a copy of *)
(* its own, and a stream whose write failed, which is not dirty either.    *)
CleanMeansSaved ==
  \A i \in Slots \ doubtful : files[i].valid /\ ~files[i].dirty =>
    disk[files[i].name] = files[i].data

(* The heap is kept: exactly the blocks of the open streams are allocated, *)
(* one stream each, also when an open or a growth fails half-way.          *)
BuffersAreHeld ==
  /\ held = {files[i].buf : i \in {j \in Slots : files[j].valid}} \ {Null}
  /\ \A i, j \in Slots : i # j /\ files[i].buf = files[j].buf => files[i].buf = Null

(* Programs that never seek behind the end of a stream read only bytes of  *)
(* its file, whatever they write, flush and reopen in between.             *)
ReadsTheFile ==
  sought = {} => ~past
=============================================================================
