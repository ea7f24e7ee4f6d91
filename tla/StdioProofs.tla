---------------------------- MODULE StdioProofs ----------------------------
(***************************************************************************)
(* What Stdio promises for every number of streams, every heap, every set  *)
(* of files and contents, and whatever the disk and malloc refuse.         *)
(***************************************************************************)
EXTENDS Stdio, TLAPS

Content == Seq(Bytes \cup {Stale})

File == [valid : BOOLEAN, name : Names \cup {Null}, buf : Blocks \cup {Null},
         data : Content, pos : Int, writable : BOOLEAN, dirty : BOOLEAN]

Types ==
  /\ files \in [Slots -> File]
  /\ disk \in [Names -> Content \cup {Null}]
  /\ held \subseteq Blocks

(* Open streams have a name; closed ones have no block and nothing to save.*)
Tidy ==
  \A i \in Slots : /\ files[i].valid => files[i].name \in Names
                   /\ ~files[i].valid => files[i].buf = Null /\ ~files[i].dirty

(* BuffersAreHeld, block by block.                                         *)
Held ==
  /\ \A b \in held : \E i \in Slots : files[i].valid /\ files[i].buf = b
  /\ \A i \in Slots : files[i].buf # Null => files[i].buf \in held
  /\ \A i, j \in Slots : i # j /\ files[i].buf = files[j].buf => files[i].buf = Null

(* Two streams on one file are both doubtful.                              *)
Sharers ==
  \A i, j \in Slots :
    i # j /\ files[i].valid /\ files[j].valid /\ files[i].name = files[j].name
      => i \in doubtful

InFile ==
  \A i \in Slots \ sought : files[i].valid => files[i].pos <= Size(i)

IInv == Types /\ Tidy /\ Held /\ Sharers /\ CleanMeansSaved /\ InFile /\ ReadsTheFile

(* A call changes the fields of one stream.                                *)
LEMMA OneStream ==
  ASSUME Types, NEW i \in Slots, NEW r \in File, files' = [files EXCEPT ![i] = r]
  PROVE  /\ files' \in [Slots -> File]
         /\ files'[i] = r
         /\ \A j \in Slots \ {i} : files'[j] = files[j]
BY DEF Types

LEMMA ClosedIsFile == Closed \in File
BY DEF Closed, File, Content

LEMMA OpenedIsFile ==
  ASSUME NEW name \in Names, NEW b \in Blocks \cup {Null}, NEW data \in Content,
         NEW pos \in Int, NEW w \in BOOLEAN, NEW d \in BOOLEAN
  PROVE  Opened(name, b, data, pos, w, d) \in File
BY DEF Opened, File

(* A block that was free, or the stream's own, keeps the heap right.       *)
LEMMA HeldStep ==
  ASSUME Types, Held, Tidy, NEW i \in Slots, NEW r \in File,
         files' = [files EXCEPT ![i] = r],
         NEW b \in (Blocks \ held) \cup {Null, files[i].buf},
         r.buf = b, b # Null => r.valid,
         held' = (held \ {files[i].buf}) \cup ({b} \ {Null})
  PROVE  Held' /\ held' \subseteq Blocks
<1>1. /\ files'[i] = r
      /\ \A j \in Slots \ {i} : files'[j] = files[j]
  BY OneStream
<1>2. files[i] \in File /\ files[i].buf \in Blocks \cup {Null}
  BY DEF Types, File
<1>3. held' \subseteq Blocks
  BY <1>2 DEF Types
<1>4. \A c \in held' : \E j \in Slots : files'[j].valid /\ files'[j].buf = c
  <2> SUFFICES ASSUME NEW c \in held' PROVE \E j \in Slots : files'[j].valid /\ files'[j].buf = c
    OBVIOUS
  <2>1. CASE c = b /\ b # Null
    BY <2>1, <1>1
  <2>2. CASE c \in held \ {files[i].buf}
    <3>1. PICK j \in Slots : files[j].valid /\ files[j].buf = c
      BY <2>2 DEF Held
    <3> QED BY <3>1, <2>2, <1>1
  <2> QED BY <2>1, <2>2
<1>5. \A j \in Slots : files'[j].buf # Null => files'[j].buf \in held'
  BY <1>1 DEF Held
<1>6. \A j, k \in Slots : j # k /\ files'[j].buf = files'[k].buf => files'[j].buf = Null
  BY <1>1 DEF Held
<1> QED BY <1>3, <1>4, <1>5, <1>6 DEF Held

(* A call that opens or closes nothing and grows nothing.                  *)
LEMMA SameBlock ==
  ASSUME Types, Held, Tidy, Sharers, NEW i \in Slots, NEW r \in File,
         files' = [files EXCEPT ![i] = r], held' = held,
         r.valid = files[i].valid, r.name = files[i].name, r.buf = files[i].buf,
         r.valid \/ ~r.dirty,
         doubtful \subseteq doubtful'
  PROVE  Held' /\ Tidy' /\ Sharers'
<1>1. /\ files'[i] = r
      /\ \A j \in Slots \ {i} : files'[j] = files[j]
  BY OneStream
<1>2. \A j \in Slots : /\ files'[j].valid = files[j].valid
                        /\ files'[j].name = files[j].name
                        /\ files'[j].buf = files[j].buf
  BY <1>1
<1>3. Held'
  BY <1>2 DEF Held
<1>4. Tidy'
  BY <1>1, <1>2 DEF Tidy
<1>5. Sharers'
  BY <1>2 DEF Sharers
<1> QED BY <1>3, <1>4, <1>5

(* A stream that opens on a name: whoever has it open becomes doubtful.    *)
LEMMA OpenStep ==
  ASSUME Types, Held, Tidy, Sharers, CleanMeansSaved, InFile,
         NEW i \in Slots, NEW name \in Names, ~files[i].valid,
         NEW b \in (Blocks \ held) \cup {Null}, NEW data \in Content,
         NEW pos \in Int, NEW w \in BOOLEAN, NEW d \in BOOLEAN,
         pos <= Len(data), ~d => disk[name] = data,
         files' = [files EXCEPT ![i] = Opened(name, b, data, pos, w, d)],
         held' = held \cup ({b} \ {Null}),
         doubtful' = doubtful \cup Sharing(i, name),
         past' = FALSE, UNCHANGED <<disk, sought>>
  PROVE  IInv'
<1> DEFINE r == Opened(name, b, data, pos, w, d)
<1>r. /\ r \in File /\ r.valid /\ r.name = name /\ r.buf = b
      /\ r.data = data /\ r.pos = pos /\ r.dirty = d
  BY OpenedIsFile DEF Opened
<1> HIDE DEF r
<1>f. files' = [files EXCEPT ![i] = r]
  BY DEF r
<1>1. /\ files' \in [Slots -> File]
      /\ files'[i] = r
      /\ \A j \in Slots \ {i} : files'[j] = files[j]
  BY <1>r, <1>f, OneStream
<1>2. files[i].buf = Null
  BY DEF Tidy
<1>3. held' = (held \ {files[i].buf}) \cup ({b} \ {Null})
  BY <1>2, StdioAssumption DEF Types, StdioAssumption
<1>4. Held' /\ held' \subseteq Blocks
  BY <1>r, <1>f, <1>3, HeldStep
<1>5. Types'
  BY <1>1, <1>4 DEF Types
<1>6. Tidy'
  BY <1>r, <1>1 DEF Tidy
<1>7. Sharers'
  <2> SUFFICES ASSUME NEW j \in Slots, NEW k \in Slots, j # k, files'[j].valid,
                      files'[k].valid, files'[j].name = files'[k].name
               PROVE  j \in doubtful'
    BY DEF Sharers
  <2>1. CASE j # i /\ k # i
    BY <2>1, <1>1 DEF Sharers
  <2>2. CASE j = i
    <3>1. k \in Streams(name)
      BY <2>2, <1>1, <1>r DEF Streams
    <3> QED BY <3>1, <2>2 DEF Sharing
  <2>3. CASE k = i
    <3>1. j \in Streams(name)
      BY <2>3, <1>1, <1>r DEF Streams
    <3> QED BY <3>1 DEF Sharing
  <2> QED BY <2>1, <2>2, <2>3
<1>8. CleanMeansSaved'
  BY <1>1, <1>r DEF CleanMeansSaved
<1>9. InFile'
  BY <1>1, <1>r DEF InFile, Size
<1>10. ReadsTheFile'
  BY DEF ReadsTheFile
<1> QED BY <1>4, <1>5, <1>6, <1>7, <1>8, <1>9, <1>10 DEF IInv

LEMMA OpenFreshKeeps ==
  ASSUME IInv, NEW i \in Slots, NEW name \in Names, NEW mode, OpenFresh(i, name, mode)
  PROVE  IInv'
<1> DEFINE yes   == TRUE
           empty == <<>>
<1>1. PICK b \in (Blocks \ held) \cup {Null} :
        /\ files' = [files EXCEPT ![i] = Opened(name, b, empty, 0, yes, yes)]
        /\ held' = held \cup ({b} \ {Null})
  BY DEF OpenFresh, Fresh
<1>2. /\ ~files[i].valid /\ UNCHANGED <<disk, sought>> /\ past' = FALSE
      /\ doubtful' = doubtful \cup Sharing(i, name)
  BY DEF OpenFresh, FreeSlot
<1>3. empty \in Content /\ 0 <= Len(empty) /\ 0 \in Int
  BY DEF Content
<1>4. yes \in BOOLEAN /\ (~yes => disk[name] = empty)
  OBVIOUS
<1> HIDE DEF yes, empty
<1> QED BY <1>1, <1>2, <1>3, <1>4, OpenStep DEF IInv

LEMMA OpenExistingKeeps ==
  ASSUME IInv, NEW i \in Slots, NEW name \in Names, NEW mode, OpenExisting(i, name, mode)
  PROVE  IInv'
<1>1. /\ ~files[i].valid /\ UNCHANGED <<disk, sought>> /\ past' = FALSE
      /\ disk[name] \in Content
  BY DEF OpenExisting, FreeSlot, IInv, Types
<1>2. CASE UNCHANGED <<files, held, doubtful>>
  BY <1>1, <1>2 DEF IInv, Types, Tidy, Held, Sharers, CleanMeansSaved, InFile, ReadsTheFile,
     Size
<1>3. CASE ~UNCHANGED <<files, held, doubtful>>
  <2> DEFINE pos == IF mode = "a" THEN Len(disk[name]) ELSE 0
             w   == mode = "a"
  <2>1. pos \in Int /\ pos <= Len(disk[name])
    BY <1>1 DEF Content
  <2>2. PICK b \in Blocks \ held :
          /\ files' = [files EXCEPT ![i] = Opened(name, b, disk[name], pos, w, FALSE)]
          /\ held' = held \cup {b}
          /\ doubtful' = doubtful \cup Sharing(i, name)
    BY <1>3 DEF OpenExisting
  <2>3. w \in BOOLEAN
    OBVIOUS
  <2>4. held' = held \cup ({b} \ {Null})
    BY <2>2, StdioAssumption DEF StdioAssumption
  <2> HIDE DEF pos, w
  <2> QED BY <1>1, <2>1, <2>2, <2>3, <2>4, OpenStep DEF IInv
<1> QED BY <1>2, <1>3

LEMMA WriteKeepsDisk ==
  ASSUME Types, NEW i \in Slots, files[i].name \in Names, NEW ok \in BOOLEAN, Write(i, ok)
  PROVE  /\ disk' \in [Names -> Content \cup {Null}]
         /\ ok => disk'[files[i].name] = files[i].data
         /\ \A name \in Names \ {files[i].name} : disk'[name] = disk[name]
<1>1. files[i].data \in Content /\ disk[files[i].name] \in Content \cup {Null}
  BY DEF Types, File
<1>2. <<Stale>> \in Content
  BY DEF Content
<1> QED BY <1>1, <1>2 DEF Types, Write

LEMMA FflushKeeps ==
  ASSUME IInv, NEW i \in Slots, Fflush(i)
  PROVE  IInv'
<1> DEFINE r == [files[i] EXCEPT !.dirty = FALSE]
<1>1. PICK ok \in BOOLEAN :
        /\ Write(i, ok)
        /\ doubtful' = IF ok THEN doubtful ELSE doubtful \cup {i}
  BY DEF Fflush
<1>2. files[i] \in File /\ r \in File
  BY DEF IInv, Types, File
<1>3. /\ files' = [files EXCEPT ![i] = r]
      /\ held' = held /\ sought' = sought /\ past' = FALSE
  BY DEF Fflush
<1>4. /\ r.valid = files[i].valid /\ r.name = files[i].name /\ r.buf = files[i].buf
      /\ r.data = files[i].data /\ r.pos = files[i].pos
  BY <1>2 DEF File
<1> HIDE DEF r
<1>5. /\ files' \in [Slots -> File]
      /\ files'[i] = r
      /\ \A j \in Slots \ {i} : files'[j] = files[j]
  BY <1>2, <1>3, OneStream DEF IInv
<1>6. doubtful \subseteq doubtful'
  BY <1>1
<1>7. files[i].valid
  BY DEF Fflush, IInv, Tidy
<1>8. Held' /\ Tidy' /\ Sharers'
  BY <1>2, <1>3, <1>4, <1>6, <1>7, SameBlock DEF IInv
<1>9. files[i].name \in Names
  BY <1>7 DEF IInv, Tidy
<1>10. /\ disk' \in [Names -> Content \cup {Null}]
       /\ ok => disk'[files[i].name] = files[i].data
       /\ \A name \in Names \ {files[i].name} : disk'[name] = disk[name]
  BY <1>1, <1>9, WriteKeepsDisk DEF IInv
<1>11. Types'
  BY <1>3, <1>5, <1>10 DEF IInv, Types
<1>12. CleanMeansSaved'
  <2> SUFFICES ASSUME NEW j \in Slots \ doubtful', files'[j].valid, ~files'[j].dirty
               PROVE  disk'[files'[j].name] = files'[j].data
    BY DEF CleanMeansSaved
  <2>1. CASE j = i
    BY <2>1, <1>1, <1>4, <1>5, <1>10
  <2>2. CASE j # i
    <3>1. files[j].name # files[i].name /\ files[j].name \in Names
      BY <2>2, <1>5, <1>6, <1>7 DEF IInv, Sharers, Tidy
    <3> QED BY <2>2, <3>1, <1>5, <1>6, <1>10 DEF IInv, CleanMeansSaved
  <2> QED BY <2>1, <2>2
<1>13. InFile'
  BY <1>3, <1>4, <1>5 DEF IInv, InFile, Size
<1>14. ReadsTheFile'
  BY <1>3 DEF ReadsTheFile
<1> QED BY <1>8, <1>11, <1>12, <1>13, <1>14 DEF IInv

LEMMA FcloseKeeps ==
  ASSUME IInv, NEW i \in Slots, Fclose(i)
  PROVE  IInv'
<1>1. /\ files[i].valid /\ files[i].name \in Names
      /\ files' = [files EXCEPT ![i] = Closed]
      /\ held' = held \ {files[i].buf}
      /\ sought' = sought \ {i} /\ doubtful' = doubtful \ {i} /\ past' = FALSE
  BY DEF Fclose, Released, IInv, Tidy
<1>2. Closed \in File /\ ~Closed.valid /\ Closed.buf = Null /\ ~Closed.dirty
  BY ClosedIsFile DEF Closed
<1>3. /\ files' \in [Slots -> File]
      /\ files'[i] = Closed
      /\ \A j \in Slots \ {i} : files'[j] = files[j]
  BY <1>1, <1>2, OneStream DEF IInv
<1>4. Held' /\ held' \subseteq Blocks
  <2>1. held' = (held \ {files[i].buf}) \cup ({Null} \ {Null})
    BY <1>1
  <2> QED BY <1>1, <1>2, <2>1, HeldStep DEF IInv
<1>5. /\ disk' \in [Names -> Content \cup {Null}]
      /\ \A name \in Names \ {files[i].name} : disk'[name] = disk[name]
  <2>1. CASE \E ok \in BOOLEAN : Write(i, ok)
    BY <2>1, <1>1, WriteKeepsDisk DEF IInv
  <2>2. CASE UNCHANGED disk
    BY <2>2 DEF IInv, Types
  <2> QED BY <2>1, <2>2 DEF Fclose
<1>6. Types' /\ Tidy'
  BY <1>2, <1>3, <1>4, <1>5 DEF IInv, Types, Tidy
<1>7. Sharers'
  BY <1>1, <1>2, <1>3 DEF IInv, Sharers
<1>8. CleanMeansSaved'
  <2> SUFFICES ASSUME NEW j \in Slots \ doubtful', files'[j].valid, ~files'[j].dirty
               PROVE  disk'[files'[j].name] = files'[j].data
    BY DEF CleanMeansSaved
  <2>1. j # i /\ j \notin doubtful
    BY <1>1, <1>2, <1>3
  <2>2. files[j].name # files[i].name /\ files[j].name \in Names
    BY <2>1, <1>1, <1>3 DEF IInv, Sharers, Tidy
  <2> QED BY <2>1, <2>2, <1>3, <1>5 DEF IInv, CleanMeansSaved
<1>9. InFile'
  BY <1>1, <1>2, <1>3 DEF IInv, InFile, Size
<1>10. ReadsTheFile'
  BY <1>1 DEF ReadsTheFile
<1> QED BY <1>4, <1>6, <1>7, <1>8, <1>9, <1>10 DEF IInv

(* A call that moves the position of an open stream and nothing else.      *)
LEMMA MoveStep ==
  ASSUME IInv, NEW i \in Slots, files[i].valid, NEW pos \in Int,
         files' = [files EXCEPT ![i].pos = pos], UNCHANGED <<disk, held, doubtful>>,
         sought \subseteq sought', i \notin sought' => pos <= Size(i),
         ReadsTheFile'
  PROVE  IInv'
<1> DEFINE r == [files[i] EXCEPT !.pos = pos]
<1>1. files[i] \in File /\ r \in File
  BY DEF IInv, Types, File
<1>2. /\ r.valid = files[i].valid /\ r.name = files[i].name /\ r.buf = files[i].buf
      /\ r.data = files[i].data /\ r.dirty = files[i].dirty /\ r.pos = pos
  BY <1>1 DEF File
<1>3. files' = [files EXCEPT ![i] = r]
  OBVIOUS
<1> HIDE DEF r
<1>4. /\ files' \in [Slots -> File]
      /\ files'[i] = r
      /\ \A j \in Slots \ {i} : files'[j] = files[j]
  BY <1>1, <1>3, OneStream DEF IInv
<1>5. Held' /\ Tidy' /\ Sharers'
  BY <1>1, <1>2, <1>3, SameBlock DEF IInv
<1>6. Types'
  BY <1>4 DEF IInv, Types
<1>7. CleanMeansSaved'
  BY <1>2, <1>4 DEF IInv, CleanMeansSaved
<1>8. InFile'
  BY <1>2, <1>4 DEF IInv, InFile, Size
<1> QED BY <1>5, <1>6, <1>7, <1>8 DEF IInv

(* What a stream says of its position and size.                            *)
LEMMA Sizes ==
  ASSUME Types, NEW i \in Slots
  PROVE  /\ files[i] \in File /\ files[i].data \in Content
         /\ files[i].pos \in Int /\ Size(i) \in Nat
BY DEF Types, File, Content, Size

LEMMA TakeKeeps ==
  ASSUME IInv, NEW i \in Slots, files[i].valid, NEW n \in Int, Take(i, n),
         files[i].pos <= Size(i) => n <= Size(i) - files[i].pos
  PROVE  IInv'
<1> DEFINE pos == files[i].pos + n
<1>1. /\ files[i].pos \in Int /\ Size(i) \in Nat
      /\ (i \notin sought => files[i].pos <= Size(i))
  BY Sizes DEF IInv, InFile
<1>2. pos \in Int /\ (i \notin sought => pos <= Size(i))
  BY <1>1
<1>3. /\ files' = [files EXCEPT ![i].pos = pos]
      /\ UNCHANGED <<disk, held, sought, doubtful>>
      /\ past' = (n > 0 /\ pos > Size(i))
  BY DEF Take
<1> HIDE DEF pos
<1>4. ReadsTheFile'
  <2> SUFFICES ASSUME sought' = {} PROVE ~past'
    BY DEF ReadsTheFile
  <2>1. i \notin sought
    BY <1>3
  <2>2. ~(n > 0 /\ pos > Size(i))
    BY <2>1, <1>1, <1>2
  <2> QED BY <2>2, <1>3, Zenon
<1> QED BY <1>2, <1>3, <1>4, MoveStep

LEMMA FreadKeeps ==
  ASSUME IInv, NEW i \in Slots, NEW bytes \in Lengths, Fread(i, bytes)
  PROVE  IInv'
<1>1. files[i].pos \in Int /\ Size(i) \in Nat /\ bytes \in Nat /\ Wrap \in Nat
  BY Sizes, StdioAssumption DEF IInv, StdioAssumption
<1>2. /\ Readable(i, bytes) \in Int
      /\ files[i].pos <= Size(i) => Readable(i, bytes) <= Size(i) - files[i].pos
  BY <1>1 DEF Readable, Least, Left
<1>3. files[i].valid /\ Take(i, Readable(i, bytes))
  BY DEF Fread
<1> QED BY <1>2, <1>3, TakeKeeps

LEMMA FgetsKeeps ==
  ASSUME IInv, NEW i \in Slots, NEW n \in Lengths, NEW newline, Fgets(i, n, newline)
  PROVE  IInv'
<1>1. files[i].pos \in Int /\ Size(i) \in Nat /\ n \in Nat
  BY Sizes, StdioAssumption DEF IInv, StdioAssumption
<1>2. PICK m \in 1 .. Least(n, Size(i) - files[i].pos) : Take(i, m)
  BY DEF Fgets
<1>3. m \in Int /\ m <= Size(i) - files[i].pos
  BY <1>1, <1>2 DEF Least
<1>4. files[i].valid
  BY DEF Fgets
<1> QED BY <1>2, <1>3, <1>4, TakeKeeps

LEMMA FseekKeeps ==
  ASSUME IInv, NEW i \in Slots, NEW from, NEW offset, Fseek(i, from, offset)
  PROVE  IInv'
<1> DEFINE pos == from + offset
<1>1. /\ files[i].valid /\ pos \in Int
      /\ files' = [files EXCEPT ![i].pos = pos]
      /\ UNCHANGED <<disk, held, doubtful>> /\ past' = FALSE
      /\ sought' = IF pos > Size(i) THEN sought \cup {i} ELSE sought
  BY DEF Fseek
<1> HIDE DEF pos
<1>2. sought \subseteq sought' /\ (i \notin sought' => pos <= Size(i))
  BY <1>1, Sizes DEF IInv
<1>3. ReadsTheFile'
  BY <1>1 DEF ReadsTheFile
<1> QED BY <1>1, <1>2, <1>3, MoveStep

(* The contents after a write reach to the end of what was written.        *)
LEMMA SplicedContent ==
  ASSUME Types, NEW i \in Slots, NEW chunk \in Seq(Bytes)
  PROVE  /\ Spliced(i, chunk) \in Content
         /\ files[i].pos + Len(chunk) <= Len(Spliced(i, chunk))
<1> DEFINE end == files[i].pos + Len(chunk)
           len == IF end > Size(i) THEN end ELSE Size(i)
           C   == Bytes \cup {Stale}
           at(k) == IF k \in files[i].pos + 1 .. end THEN chunk[k - files[i].pos]
                    ELSE IF k <= Size(i) THEN files[i].data[k] ELSE Stale
<1>1. files[i].data \in Seq(C) /\ files[i].pos \in Int /\ Size(i) \in Nat
  BY Sizes DEF Content
<1>2. end \in Int /\ len \in Nat /\ end <= len
  BY <1>1
<1>3. \A k \in 1 .. len : at(k) \in C
  <2> SUFFICES ASSUME NEW k \in 1 .. len PROVE at(k) \in C
    OBVIOUS
  <2>1. CASE k \in files[i].pos + 1 .. end
    <3>1. k - files[i].pos \in 1 .. Len(chunk)
      BY <2>1, <1>1
    <3> QED BY <2>1, <3>1
  <2>2. CASE k \notin files[i].pos + 1 .. end /\ k <= Size(i)
    BY <2>2, <1>1 DEF Size
  <2>3. CASE k \notin files[i].pos + 1 .. end /\ ~(k <= Size(i))
    BY <2>3
  <2> QED BY <2>1, <2>2, <2>3
<1>4. Spliced(i, chunk) = [k \in 1 .. len |-> at(k)]
  BY DEF Spliced
<1> HIDE DEF at, len, C
<1>5. [k \in 1 .. len |-> at(k)] \in Seq(C) /\ Len([k \in 1 .. len |-> at(k)]) = len
  BY <1>2, <1>3
<1> QED BY <1>2, <1>4, <1>5 DEF Content, C

LEMMA FwriteKeeps ==
  ASSUME IInv, NEW i \in Slots, NEW chunk \in Chunks, Fwrite(i, chunk)
  PROVE  IInv'
<1>1. PICK b \in (Blocks \ held) \cup {files[i].buf} :
        /\ files' = [files EXCEPT ![i] = Grown(i, b, chunk)]
        /\ held' = (held \ {files[i].buf}) \cup ({b} \ {Null})
  BY DEF Fwrite
<1> DEFINE r == Grown(i, b, chunk)
<1>2. /\ files[i].valid /\ past' = FALSE /\ UNCHANGED <<disk, sought, doubtful>>
  BY DEF Fwrite
<1>3. chunk \in Seq(Bytes) /\ Len(chunk) \in Nat
  BY StdioAssumption DEF StdioAssumption
<1>4. /\ files[i] \in File /\ files[i].pos \in Int /\ files[i].buf \in Blocks \cup {Null}
  BY Sizes DEF IInv, File
<1>5. /\ Spliced(i, chunk) \in Content
      /\ files[i].pos + Len(chunk) <= Len(Spliced(i, chunk))
  BY <1>3, SplicedContent DEF IInv
<1>6. r \in File
  <2>1. b \in Blocks \cup {Null} /\ files[i].pos + Len(chunk) \in Int
    BY <1>3, <1>4
  <2> QED BY <2>1, <1>4, <1>5 DEF File, Grown
<1>7. /\ r.valid = files[i].valid /\ r.name = files[i].name /\ r.buf = b
      /\ r.data = Spliced(i, chunk) /\ r.pos = files[i].pos + Len(chunk) /\ r.dirty = TRUE
  BY <1>4 DEF File, Grown
<1>8. files' = [files EXCEPT ![i] = r]
  BY <1>1
<1> HIDE DEF r
<1>9. /\ files' \in [Slots -> File]
      /\ files'[i] = r
      /\ \A j \in Slots \ {i} : files'[j] = files[j]
  BY <1>6, <1>8, OneStream DEF IInv
<1>10. Held' /\ held' \subseteq Blocks
  BY <1>1, <1>2, <1>6, <1>7, <1>8, HeldStep DEF IInv
<1>11. Types' /\ Tidy'
  BY <1>2, <1>7, <1>9, <1>10 DEF IInv, Types, Tidy
<1>12. Sharers'
  BY <1>2, <1>7, <1>9 DEF IInv, Sharers
<1>13. CleanMeansSaved'
  BY <1>2, <1>7, <1>9 DEF IInv, CleanMeansSaved
<1>14. InFile'
  BY <1>2, <1>5, <1>7, <1>9 DEF IInv, InFile, Size
<1>15. ReadsTheFile'
  BY <1>2 DEF ReadsTheFile
<1> QED BY <1>10, <1>11, <1>12, <1>13, <1>14, <1>15 DEF IInv

LEMMA InitGood == Init => IInv
<1> SUFFICES ASSUME Init PROVE IInv
  OBVIOUS
<1>1. Closed \in File /\ Closed.buf = Null /\ ~Closed.valid /\ ~Closed.dirty
  BY ClosedIsFile DEF Closed
<1>2. Types /\ Tidy /\ Held /\ Sharers
  BY <1>1 DEF Init, Types, Tidy, Held, Sharers
<1>3. CleanMeansSaved /\ InFile /\ ReadsTheFile
  BY <1>1 DEF Init, CleanMeansSaved, InFile, ReadsTheFile
<1> QED BY <1>2, <1>3 DEF IInv

LEMMA StepGood == IInv /\ [Next]_vars => IInv'
<1> SUFFICES ASSUME IInv, [Next]_vars PROVE IInv'
  OBVIOUS
<1>1. CASE UNCHANGED vars
  BY <1>1 DEF vars, IInv, Types, Tidy, Held, Sharers, CleanMeansSaved, InFile, ReadsTheFile,
     Size
<1>2. CASE Next
  <2>1. PICK i \in Slots :
          \/ \E name \in Names, mode \in {"r", "w", "a"} :
               OpenFresh(i, name, mode) \/ OpenExisting(i, name, mode)
          \/ Fflush(i) \/ Fclose(i)
          \/ \E n \in Lengths : Fread(i, n)
          \/ \E n \in Lengths, newline \in Bytes : Fgets(i, n, newline)
          \/ \E chunk \in Chunks : Fwrite(i, chunk)
          \/ \E offset \in Offsets, from \in {0, files[i].pos, Size(i)} : Fseek(i, from, offset)
    BY <1>2 DEF Next
  <2>2. CASE \E name \in Names, mode \in {"r", "w", "a"} :
               OpenFresh(i, name, mode) \/ OpenExisting(i, name, mode)
    BY <2>2, OpenFreshKeeps, OpenExistingKeeps
  <2>3. CASE Fflush(i) \/ Fclose(i)
    BY <2>3, FflushKeeps, FcloseKeeps
  <2>4. CASE \E n \in Lengths : Fread(i, n)
    BY <2>4, FreadKeeps
  <2>5. CASE \E n \in Lengths, newline \in Bytes : Fgets(i, n, newline)
    BY <2>5, FgetsKeeps
  <2>6. CASE \E chunk \in Chunks : Fwrite(i, chunk)
    BY <2>6, FwriteKeeps
  <2>7. CASE \E offset \in Offsets, from \in {0, files[i].pos, Size(i)} :
               Fseek(i, from, offset)
    BY <2>7, FseekKeeps
  <2> QED BY <2>1, <2>2, <2>3, <2>4, <2>5, <2>6, <2>7
<1> QED BY <1>1, <1>2

LEMMA Invariance == Spec => []IInv
BY InitGood, StepGood, PTL DEF Spec

LEMMA HeldIsBuffers == IInv => BuffersAreHeld
<1> SUFFICES ASSUME IInv PROVE BuffersAreHeld
  OBVIOUS
<1>1. held \subseteq {files[i].buf : i \in {j \in Slots : files[j].valid}} \ {Null}
  BY StdioAssumption DEF IInv, Held, Types, StdioAssumption
<1>2. {files[i].buf : i \in {j \in Slots : files[j].valid}} \ {Null} \subseteq held
  BY DEF IInv, Held
<1> QED BY <1>1, <1>2 DEF IInv, Held, BuffersAreHeld

-----------------------------------------------------------------------------
(* stdio.c, fflush and fclose: for any number of streams, whatever is      *)
(* refused, a stream that is not dirty holds what the disk holds, unless   *)
(* its own write failed or its file was open twice.                        *)
THEOREM CleanStreamsAreSaved == Spec => []CleanMeansSaved
<1>1. IInv => CleanMeansSaved
  BY DEF IInv
<1> QED BY <1>1, Invariance, PTL

(* stdio.c, fopen, fwrite, fclose: the heap holds exactly one block for    *)
(* each open stream that has one, after every sequence of calls, those     *)
(* that fail half-way among them.                                          *)
THEOREM StreamsHoldTheirBlocks == Spec => []BuffersAreHeld
BY Invariance, HeldIsBuffers, PTL

(* stdio.c, fread and fgetc: while no stream was moved behind its end, no  *)
(* call delivers a byte from behind the file.                              *)
THEOREM ReadsStayInTheFile == Spec => []ReadsTheFile
<1>1. IInv => ReadsTheFile
  BY DEF IInv
<1> QED BY <1>1, Invariance, PTL
=============================================================================
