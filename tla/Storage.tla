------------------------------ MODULE Storage -------------------------------
(***************************************************************************)
(* Files from the call that writes them to the medium: the FAT16 driver on *)
(* the RAM disk, the callers that flush after it (kernel/api.c, shell.c),  *)
(* and the loss of power.  A write goes to the RAM disk; a caller that is  *)
(* told of success flushes it, sector by sector in the order of the disk.  *)
(* Of the disk layer this module uses what is proved of BlockDev: a flush  *)
(* takes every sector that differs from the medium, and a sector fails or  *)
(* arrives (a failed BIOS write may have arrived).  It also takes sectors  *)
(* that are dirty and no different; these change nothing and are left out. *)
(***************************************************************************)
EXTENDS Fat16

CONSTANTS
  MaxFails,  \* bound: sectors the medium refuses in a behaviour
  MaxLosses  \* bound: losses of power in a behaviour

VARIABLES
  media,   \* the medium, the sectors of the partition
  who,     \* "none", or the caller in control: "fwrite", "mkdir", "flush",
           \* "halt" (flushing), "halted"
  wrote,   \* the path the last fwrite was about
  fpos,    \* the loop index of ata_flush
  ferr,    \* the running or last flush has met an error
  fails, losses,
  safe,    \* history: what the last complete flush saved of each path
  whole,   \* history: the medium is as a complete flush left it
  torn     \* history: power was lost when it was not

svars == <<media, who, wrote, fpos, ferr, fails, losses, safe, whole, torn>>
allVars == <<vars, svars>>

-----------------------------------------------------------------------------
SInit ==
  /\ Init
  /\ media = vol.disk /\ safe = expect
  /\ who = "none" /\ wrote = <<>> /\ fpos = 0 /\ ferr = FALSE
  /\ fails = 0 /\ losses = 0 /\ whole = TRUE /\ torn = FALSE

Ready == pc = "idle" /\ who = "none"

(* ap_fwrite and shell_save_config.  The file is at stake once its old     *)
(* version has been given up.                                              *)
Fwrite(p, n) ==
  /\ Ready /\ WriteBegin(p, n)
  /\ who' = "fwrite" /\ wrote' = p
  /\ safe' = IF expect'[p] = Unknown THEN [safe EXCEPT ![p] = Unknown] ELSE safe
  /\ UNCHANGED <<media, fpos, ferr, fails, losses, whole, torn>>

(* cmd_mkdir.  What is in a directory is at stake while it is created.     *)
Mkdir(d) ==
  /\ Ready /\ MkdirBegin(d)
  /\ who' = "mkdir" /\ wrote' = <<>>
  /\ safe' = [p \in Paths |-> IF pc' # "idle" /\ p[1] = d /\ Len(p) = 2
                              THEN Unknown ELSE safe[p]]
  /\ UNCHANGED <<media, fpos, ferr, fails, losses, whole, torn>>

InDriver == Step /\ UNCHANGED svars

(* Definitions marked "Faulty" are wrong on purpose: a run that uses one in *)
(* place of the definition after it must fail, or the property is idle.    *)
FaultyMustFlush == who = "mkdir" /\ result = 0

(* Which results are flushed: a file of positive size, and a directory.    *)
MustFlush ==
  \/ who = "fwrite" /\ result > 0
  \/ who = "mkdir" /\ result = 0

StartFlush(w) == who' = w /\ fpos' = 0 /\ ferr' = FALSE

DriverReturns ==
  /\ pc = "idle" /\ who \in {"fwrite", "mkdir"}
  /\ IF MustFlush THEN StartFlush("flush")
     ELSE who' = "none" /\ UNCHANGED <<fpos, ferr>>
  /\ UNCHANGED <<vars, media, wrote, fails, losses, safe, whole, torn>>

(* cmd_sync and cmd_halt flush only when something is dirty.               *)
Sync ==
  /\ Ready /\ vol.disk # media
  /\ StartFlush("flush")
  /\ UNCHANGED <<vars, media, wrote, fails, losses, safe, whole, torn>>

Halt ==
  /\ Ready
  /\ IF vol.disk # media THEN StartFlush("halt")
     ELSE who' = "halted" /\ UNCHANGED <<fpos, ferr>>
  /\ UNCHANGED <<vars, media, wrote, fails, losses, safe, whole, torn>>

-----------------------------------------------------------------------------
(* ata_flush, one sector that differs at a time.                           *)
Ahead == {i \in Lbas : fpos <= i /\ vol.disk[i] # media[i]}

FlushSector(i) ==
  /\ who \in {"flush", "halt"}
  /\ i \in Ahead /\ \A j \in Ahead : i <= j
  /\ fpos' = i + 1
  /\ \/ /\ media' = [media EXCEPT ![i] = vol.disk[i]]
        /\ whole' = FALSE
        /\ UNCHANGED <<ferr, fails>>
     \/ /\ fails < MaxFails /\ fails' = fails + 1 /\ ferr' = TRUE
        /\ \/ media' = [media EXCEPT ![i] = vol.disk[i]] /\ whole' = FALSE
           \/ UNCHANGED <<media, whole>>
  /\ UNCHANGED <<vars, who, wrote, losses, safe, torn>>

Succeeded == ~ferr

FaultyFlushEnd ==
  /\ who \in {"flush", "halt"} /\ vol.disk = media
  /\ who' = IF who = "halt" THEN "halted" ELSE "none"
  /\ safe' = IF Succeeded THEN expect ELSE safe
  /\ whole' = (whole \/ Succeeded)
  /\ UNCHANGED <<vars, media, wrote, fpos, ferr, fails, losses, torn>>

(* The callers go on whatever ata_flush returns; cmd_halt stops.           *)
FlushEnd ==
  /\ who \in {"flush", "halt"} /\ Ahead = {}
  /\ who' = IF who = "halt" THEN "halted" ELSE "none"
  /\ safe' = IF Succeeded THEN expect ELSE safe
  /\ whole' = (whole \/ Succeeded)
  /\ UNCHANGED <<vars, media, wrote, fpos, ferr, fails, losses, torn>>

(***************************************************************************)
(* The power goes, at any moment, and the machine starts again from the    *)
(* medium.  cmd_reboot is a Sync and this.                                 *)
(***************************************************************************)
PowerLoss ==
  /\ losses < MaxLosses /\ losses' = losses + 1
  /\ vol' = [disk |-> media, sec |-> NoSec, buf |-> <<>>, dirty |-> FALSE]
  /\ pc' = "idle" /\ op' = NoOp /\ result' = 0
  /\ expect' = safe
  /\ torn' = (torn \/ ~whole) /\ whole' = TRUE
  /\ who' = "none" /\ wrote' = <<>> /\ fpos' = 0 /\ ferr' = FALSE
  /\ UNCHANGED <<ops, failed, media, fails, safe>>

Progress ==
  \/ InDriver \/ DriverReturns
  \/ (\E i \in Lbas : FlushSector(i)) \/ FlushEnd

SNext ==
  \/ \E p \in Paths, n \in Sizes : Fwrite(p, n)
  \/ \E d \in DirNames : Mkdir(d)
  \/ Sync \/ Halt
  \/ Progress
  \/ PowerLoss

SSpec == SInit /\ [][SNext]_allVars

(* Calls and flushes run to their end, as in Fat16 and BlockDev.           *)
SFairSpec == SSpec /\ WF_allVars(Progress)

-----------------------------------------------------------------------------
OnMedia(p) ==
  LET m == [vol EXCEPT !.disk = media]
  IN  fat16_read_file(m, DiskFat(m), p)

(* A file that a complete flush has saved, and that nobody writes, can be  *)
(* read from the medium at every moment: while other files are written,    *)
(* replaced and made to fail, half-way through their flushes, and after    *)
(* losses of power between flushes.  A loss in the middle of a flush       *)
(* (torn) may leave an entry with a chain that is free, and later writes   *)
(* take its clusters: after one, nothing is promised.                      *)
SavedFilesSurvive ==
  ~torn => \A p \in Paths : safe[p] # Unknown =>
             OnMedia(p) = Contents(p, safe[p])

(* When a program's write of a file that is not empty has returned and no  *)
(* sector was refused, the file is on the medium.                          *)
WritesAreSaved ==
  [][(who \in {"fwrite", "flush"} /\ who' = "none" /\ losses' = losses
        /\ wrote # <<>> /\ result > 0 /\ fails = 0) =>
       safe'[wrote] = expect'[wrote] /\ safe'[wrote] # Unknown]_allVars

(* cmd_halt's last words, shell.c:528: "It's now safe to turn off your     *)
(* computer".  All that was written is on the medium then.                 *)
HaltIsSafe == who = "halted" => vol.disk = media

(* A call ends, with its flush, whatever the medium refuses.  (A volume    *)
(* torn by a loss of power may have an entry whose chain is free, and the  *)
(* loop that frees it again can turn for ever.)                            *)
CallersReturn ==
  (~torn /\ who \in {"fwrite", "mkdir", "flush", "halt"})
    ~> who \in {"none", "halted"}
=============================================================================
