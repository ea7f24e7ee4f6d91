# Zinux in TLA+

Zinux is a small 32-bit operating system: a BIOS boot loader, a kernel with a
shell, a RAM disk with write-back to the real disk, FAT16, a graphical console,
a small C library, and programs that run in ring 2 behind a system call table.
This directory holds TLA+ models of these parts, the TLC configurations that
check them on small instances, and proofs about the disk layer, FAT16 and the callers that
flush it, the mouse driver and its set-up, the keyboard driver, the heap, running programs,
the shell's directories, the FILE layer, and lines, shapes and the cursor on the display. Paths
below are relative to the repository.

## The system

There is one kernel thread. It runs the shell and, by calling into them, user
programs; their system calls run on the same thread. Around it run the
interrupt handlers: timer, keyboard and mouse. A handler runs with interrupts
off, so handlers do not interleave with each other, but any of them may run
between two instructions of the thread. The disk can fail and the power can go
at any moment.

| Component | State it keeps | Operations | What is hard | What must hold |
|---|---|---|---|---|
| Disk layer, `kernel/bios_disk.c` | copy of 1024 sectors at 0x50000, dirty bitmap, `buf_sectors`, `ata_hw_ok`; the medium | read, write, flush | failures in the middle of a flush, loss of power, two write paths, memory shared with the stacks | clean means on the medium; flush reports the truth; nothing outside the window is written |
| Boot loader, `boot/stage2.asm` | the copy and its flag | `load_fat_to_ram` | all or nothing | the copy equals the medium |
| FAT16, `kernel/fat16.c` | sectors, one cached FAT sector and its dirty flag | write, mkdir, find, read | the cache is evicted in the middle of an operation; disk full or window edge half-way; every step may be the last before a loss of power | other files survive; chains end and are disjoint; nothing leaks; calls end |
| Keyboard, `kernel/drivers/keyboard.c` | two rings, modifiers | IRQ handler; get, wait, has, clear | handler between any two accesses; full ring; key between the look and the `hlt` | bounded FIFO; a waiting program gets its key |
| Heap, `libc/memory.c` | block list from `_heap_start` to `HEAP_END` | malloc, calloc, realloc, free | any order of calls, exact fits, failing realloc | blocks tile the arena, free neighbours merge, live blocks are disjoint |
| Mouse, `kernel/drivers/mouse.c` | packet position, pointer, buttons | init dialogue, IRQ handler, setters | lost bytes and resynchronisation, setters against the handler, late or missing replies in the dialogue | the pointer is on the screen once it is set; packets are reports; a good report gets through; ready means that the mouse reports; the keyboard is left as it was |
| Timer, `kernel/pit.c` | tick counter | tick, sleep | wrap-around | a sleep ends, and not early (not modelled) |
| Execution and system calls, `kernel/zxe.c`, `kernel/api.c`, `kernel/system.c`, `kernel/kernel_entry.asm`, `kernel/panic.c` | saved stack pointer and exit code, program memory | run, return, abort on a fault, the call table | unwinding from inside a call, exit codes and errors in one number | the shell comes back once per run |
| Shell, `kernel/shell/shell.c` | current directory, configuration and its file, the line being edited | commands, line editing | which commands flush, and when; names looked up in four ways; the configuration as a text | saved configuration is durable and comes back; what is listed is found; the line on the screen is the line in the buffer |
| Kernel start, `kernel/kernel.c` | order of initialisation | start, final flush | | |
| FILE layer, `libc/stdio.c` | buffer, position, dirty flag | open, read, write, seek, flush, close | failing flush, seek past the end | written data reaches the file or an error is seen |
| Console and graphics, `kernel/drivers/video.c`, `kernel/api.c` | text cursor, cells, pixels | characters, widgets, shapes, mouse cursor | scrolling, clipping, sizes computed from a program's counts, loops that end on equality | the visible part is drawn, nothing else; a widget is whole; the cursor leaves no trace; drawing ends |
| Strings, numbers, sorting, `libc/string.c`, `libc/stdlib.c` | `strtok`'s place | calls | overlap, the smallest number, room for a format | each call returns what its definition says |
| Host tool `mkzxe`, sample programs | none | | | not modelled |


Interaction: shell and system calls call FAT16; FAT16 calls `ata_read_sector`
and `ata_write_sector`; nothing but an explicit `ata_flush` (after a program's
`fwrite`, `mkdir`, a saved configuration, `sync`, `reboot`, `halt`, and the
start of the kernel) moves the copy to the medium. The keyboard ring is what
connects the interrupt handler to `read_line` and to `read_char` of programs.
The heap shares its arena with the API table and the loaded program. The shell
keeps its configuration in a file that it writes with `itoa` and reads back with
`strtok` and `strtoul`. Console, widgets and pixels share one framebuffer. The
FILE layer lives on `malloc` and `fat16_write_file`; nothing in the kernel calls it yet.

`PROJECT.json` lists, under `hazards`, what is hard to test at its line, with
the properties that cover it. Hazards without a property are under "Not modelled".

## Modules

| Module | Models | State and actions |
|---|---|---|
| `DurableStore` | what a disk layer promises | `view`, `durable`; put, get, persist, acknowledge, power loss; for `Unstable` sectors nothing is promised |
| `BlockDev` | `bios_disk.c`, `load_fat_to_ram` | `ram`, `dirty`, `media` are the copy, the bitmap and the disk; one action per call, but `ata_flush` is one action per dirty sector (`fi` and `errors` are its locals) so that power can go in between |
| `BlockDevProofs` | theorems about `BlockDev` | |
| `Fat16` | `fat16.c` | `vol` holds the sectors and the cached FAT sector; `pc` and `op` are the phase and locals of the running call; a write is split into freeing, allocating, linking, writing a cluster, the two writes of `fat_flush`, and the entry |
| `Fat16Proofs` | theorems about `Fat16`: its chains and its cache | |
| `SurvivalProofs` | theorems about `Fat16` and `Storage`: other files survive, saved files survive on the medium, writes are saved | |
| `KeyQueue` | what a key buffer promises | a bounded queue, `Put`, `Get`, `Clear` |
| `Keyboard` | `keyboard.c` | `rings`, `mods`; `KeyIRQ` is the whole handler; the thread's functions are one action per access to the shared indices, in the order of the source (the compiled code keeps it) |
| `TerminalProofs` | theorems about `Keyboard` and `Video` | |
| `Allocator` | what an allocator promises | the set of live blocks |
| `Heap` | `memory.c` | the block list, one action per call |
| `HeapProofs` | theorems about `Heap` | |
| `Storage` | `fat16.c` with the callers that flush: `ap_fwrite`, `shell_save_config`, `cmd_mkdir`, `cmd_sync`, `cmd_reboot`, `cmd_halt`, and the loss of power | extends `Fat16` with the medium and the caller in control (`who`); `ata_flush` is one action per sector that differs, in LBA order; what BlockDev is proved to do is taken as its behaviour |
| `Mouse` | the interrupt handler and the setters of `drivers/mouse.c` | `pkt` is the packet being collected, `x`, `y`, `buttons`, `sens` the driver's state; the mouse sends reports (`report`, `sent`), any byte can be lost; the handler is one action per outcome of a byte (`Skip`, `Start`, `Continue`, `Complete`); a setter is a `Call` with a list of accesses in `todo`: a `Store` of a value, or a `Test` of a field as it is now, which puts the store of the bound in its place if it is beyond. `mouse_set_pos` stores its arguments as they are and clamps them afterwards, or, as a compiler may have it, stores them clamped |
| `MouseInit` | `mouse_init` of the same file | `Script` is the dialogue as a list of lines, each a command to the controller, a command to the mouse or a byte to read, with where a failure goes; `at` is the line; replies travel through `coming` and `out` |
| `MousePort` | both, one after the other | the handler runs when the set-up has said ready |
| `MouseProofs` | theorems about `Mouse`, `MouseInit` and `MousePort` | |
| `Runner` | what running a program promises to the shell | `phase`, `result`, `told`: refused with a message, or run, ended with a code, back |
| `Exec` | `shell_execute`, `try_run`, `zxe_run`, `run_user_program`, the entries of `kernel_entry.asm`, `exception_handler` | `pc`, `ifl`, `on` are the processor's place, interrupt flag and stack; `kstack` and `tstack` the frames on the kernel's stack and on that of the TSS; `space` is the header in the program area; one action per call, return, store and jump that an interrupt can come before |
| `Shell` | `cd`, `ls`, `cat`, `mkdir`, `set` and the configuration file of `shell.c`, files written by programs, restart | `root`, `inside` are the directories as `fat16.c` searches them; `cwd`, `conf`, `text` the current directory, the configuration and the contents of its file; one action per command |
| `Prompt` | the loop of the shell | a line is a command of `Shell` or a program of `Exec` |
| `PromptProofs` | theorems about `Exec`, `Shell` and `Prompt` | |
| `Text` | `string.c`, the conversions of `stdlib.c`, the formatting of `stdio.c` | pure operators on sequences of characters |
| `Sorting` | `qsort` and `bsearch` of `stdlib.c` | recursive operators on sequences of numbers |
| `TextCalls` | calls of `Text` and `Sorting` | `call` holds arguments and results; `strtok` is called again and again |
| `Stdio` | `stdio.c` | `files` is `_files`; `disk` and `held` are the file system and the heap as `stdio.c` calls them, both of which may refuse; one action per call |
| `StdioProofs` | theorems about `Stdio` | |
| `Library` | `Stdio` and `TextCalls` | |
| `Console` | the text console of `video.c`, `read_line`, `ap_read_line`, the prompt | `con` is cells, cursor and colours; `line` the input buffer; a key typed is an action |
| `Widgets` | the text widgets of `api.c` | a widget is the sequence of console calls it makes; drawing one is an action on a screen full of other text |
| `Raster` | pixels: `video.c` and the cursor and title bar of `api.c` | a shape is the set of pixels written (`ink`); the loops of lines and circles are steps (`job`); only the cursor reads pixels back (`pixels`) |
| `Video` | these three | one at a time on one screen |
| `MC*` | the constants of the runs | |

Data are abstract where no property looks inside: a sector of the disk layer
is one of a few values; a file's sector holds its name, version and position;
names need no 8.3 conversion; a scan code is a name in one of the classes the
handler tells apart; blocks of the heap have no contents; a cell of the
console stands for its 8 by 16 pixels; in `Shell` a key with its `=` is one character, and
fat16's searches are over lists of entries. Control is kept:
early returns, the order of stores, error paths, and what is *not* done on
them.

Definitions whose name starts with `Faulty` are deliberate mistakes. Each
stands before the definition it spoils; with it in place, the property it
belongs to fails. They show that the properties have teeth.

## Runs

| Run | Bounds | Shows |
|---|---|---|
| `blockdev` | one sector before the window, three in it, one behind; two contents; one sector shared; drive reports its faults | clean sectors are durable, a flush counts what it left, 0 means written, nothing outside the window is touched, refinement of `DurableStore` |
| `blockdev_late` | the same, with faults reported after the data | `ata_flush` returns 0 with a sector not written: `hw_write` ignores the last status |
| `blockdev_shared` | the same, one sector shared | the copy is not private: it reaches from 0x50000 to 0xD0000 while the documentation gives it 192 KB below the stack |
| `fat16` | two FAT sectors of four entries, five clusters of two sectors crossing them, the window ending inside the last cluster; files of 1, 2 and 3 clusters in the root and in a directory; three calls on a fresh and on a used volume | other files survive any step, chains are sound, no leak, cache coherent, calls return |
| `keyboard` | rings of 3 and 2 slots, three codes that cover shift, caps lock and a letter, four key events | both rings implement `KeyQueue`; a waiting thread gets its key |
| `heap` | an arena of 120 bytes with the code's header (12) and split limit (16), requests 0, 1, 12, 30, three live blocks | tiling, merging, only held blocks in use, refinement of `Allocator` |
| `storage` | four clusters of one sector in two FAT sectors; a volume with a file B across both; files of no and of two sectors in the root and in a directory; three calls, one refused sector, one loss of power | what a complete flush saved can be read from the medium at every later moment; a write that returned is saved; callers return |
| `storage_halt` | the same | `halt` says it is safe to turn off after a flush that failed |
| `mouse` | mouse interrupt off or on in the firmware's command byte; one wait for the controller that times out, three refused or unanswered commands, one stray byte (a scan code or an ACK), four replies on their way; then, from a dialogue without difficulties, a screen of 6 by 5 and five reports: motion bytes clear, bit 3 in both, bit 3 in the first, an overflow, a motion that needs its ninth bit; three reports, one call of a setter, points next to the screen, far beyond it and at both ends of an int of ten bits (`IntMax`), any bytes lost | the set-up ends, ready means that the mouse reports, the keyboard's interrupt bit is kept; the pointer is on the screen whenever no `mouse_set_pos` is under way, a packet that no report was needs a lost byte each, a clear report always gets through |
| `shell` | a root of three entries, a directory in two spellings, the directory and the file of the configuration; a user name cut short, a host name with a newline, a negative style, a colour of too many bits, saves that fail; or two lines typed that name a program looked for in the current directory and in `BIN`, or a path, every file absent, a program, too short for a header, refused by `zxe_validate` or unreadable half-way, exit codes 0 and 7, exceptions 13 and 14, an interrupt before any step | the current directory exists and what `ls` lists there is what `cat` and `try_run` find; a restart brings back a saved configuration; names and numbers fit their variables; stacks and interrupt flag are as they were when the shell is back; a file with a header is what runs; refinement of `Runner`; the shell comes back |
| `video` | ten by six characters, a buffer of four, five keys; widgets of up to five by four at sixteen places, some over the edge, texts with letters of one and two bytes; pixels: 24 by 20, lines between all points of a grid that reaches outside, radii up to 30, the cursor anywhere | the line in the buffer is the line on the screen; widgets cover their area and nothing else; shapes are the visible part of the ideal ones; drawing ends; the cursor leaves no trace |
| `library` | two streams, two files, three blocks, sizes and positions to 2; all strings of up to three characters and of five, all numbers of eight bits, formats of width 0, 4 and 6, arrays of up to four and of eight and eleven elements | a clean stream is saved, blocks are held by their streams, reads stay in the file; each function on text returns what its definition says |


Why the bounds are enough. The bitmap, the window and the loop treat sectors
alike, so three show first, middle and last, and success next to failure; the
proofs remove this bound. The FAT volume has what makes its code hard: links
that cross a FAT sector, an eviction while a chain is being built, a full
disk and a cluster half inside the window. Three calls are a create, a
replacement and one more that can step on what the others left; leaks and
shared clusters need two. Rings of two and three slots fill, wrap and
overflow, and four events do so more than once. The arena splits into at most
five blocks, so that a free block can have neighbours free on both sides, one
or none.

Three entries of the root are the configuration's directory, a file and a
directory of the file's name. Two lines are a program and one after it: what a first run leaves behind - the
header in the program area, the saved stack pointer and code, the interrupt
flag - meets every kind of second file.

Three reports are one that is cut short, one that runs into it and one that
must get through; a lost byte at each place of each of them is among the
behaviours. Three refusals use up the three tries of `mouse_cmd`. What the driver does
when it is ready does not depend on how the dialogue went, so that the runs of
the handler start from one dialogue.

The screen of `video` is large enough for the smallest widgets with parts of
every kind - corners, track, thumb, items - and small enough that they meet all
its edges; a buffer shorter than a row and five keys fill it, scroll and
delete. The grid of points gives lines of every octant, flat, steep, diagonal and of
one point. Two streams are enough to share a file and to compete for three
blocks, sizes of two for a read that is cut. The functions on text are called once each, `strtok` to the end;
eight bits show both ends of the range of numbers.

`MaxOps`, `MaxFails`, `MaxLosses`, `MaxEvents`, `MaxLive`, `Sizes`, `Requests`,
`MaxReports`, `MaxCalls`, `IntMax`, `MaxBusy`, `MaxRefusals`, `MaxStray`, `Room`,
`MaxCommands`, `MaxKeys`, `MaxSize`, `Typed`, `Inner` and the sets of arguments are
bounds of the model, not of the code. `fat16` and `storage` disable the
deadlock check because behaviours stop at `MaxOps`, and a halted machine stops
for good; `mouse` because they stop at `MaxReports` and `MaxCalls`, and without a mouse
there is nothing more to do; `shell` because programs stop at
`MaxCommands`, and a kernel that has panicked stops for good; `video` because
typing stops at `MaxKeys`; `library` because a function on text is called once.
In `storage` two calls after a save can
replace a file and step on its clusters, and one refused sector makes every
flush in a behaviour a possible failure.

A screen, a machine at its prompt or a library does one thing at a time. `Video`,
`Prompt` and `Library` therefore begin each part in the initial state of the others: the
parts share no state that would matter, and their states add up instead of multiplying.

Three properties are violated, by what the code does against what its
comments or documentation say; they are the `findings` of `PROJECT.json`.
Smaller disagreements, seen while modelling and without a run:

* `malloc` knows nothing of 0x100000 and 0x200000, the API table and the
  program area, which lie in its arena; the comment at `linker.ld:37-38` says it
  does not touch them.
* a `.ZXE` file too short for a header runs the program an earlier command
  left at 0x200000 (`zxe.c:60-72` ignores how much was read), where
  `docs/Zinux-SDK-Documentation.md:116` has `ZXE_INVALID` for a bad header.
* a program that ends with -1 to -4 is taken for an error of the loader
  (`shell.c:224-229`, `263-282`): "Read error", "Command not found", and for -2 the
  program of the same name in `BIN` is started.
* `zxe.h:8` gives `ZXE_MAX_SIZE` as 2 MB in the code and 64 KB in the comment.
* `ap_fwrite` (`kernel/api.c:222`) returns the size written, where
  `docs/Zinux-SDK-Documentation.md:358` says 0 or -1.
* `mouse_handler` takes dx and dy from the motion bytes alone (`mouse.c:236`);
  a motion beyond -128 .. 127 that did not overflow has its ninth bit in the
  flags byte and moves the pointer the other way.
* a `mouse_init` that fails before it has read the command byte writes 0 as
  command byte (`mouse.c:110`, `180`), which turns the keyboard's interrupt off;
  the comment at line 161 speaks of the known configuration.
* a motion byte with bit 3 set starts the packet anew (`mouse.c:214-218`), so that the
  report is lost with the buttons in it, although no byte was; `mouse.h:21` calls `buttons` the
  mask of the buttons held.
* `video_print_char` drops the characters below blank, so that the arrows of
  `ap_gui_scrollbar` (`api.c:454`, `460`) are never seen; `ap_gui_menubar` fills 80 columns where
  1024 pixels have 128; `ap_draw_input` and `ap_gui_tabbar` pad by bytes, which leaves
  cells uncovered after Cyrillic letters; the rows of `ap_gui_popup_menu`
  write over the right side of its frame.
* `ap_gui_titlebar` puts text beside its bar unless the place is a whole cell and not above the screen; the cursor, drawn
  twice, leaves the screen changed at 8, 15 and 16 bits per pixel.
* `video_circle` advances `px` before it uses it for the next `d` (`video.c:244-245`), so that its
  circle lies up to 1.06 pixels inside the ideal one: a radius of 30 has a pixel at (20, 21). `NearCircle` says
  what holds for every radius.
* Backspace does not go back over the end of a row, and `ap_read_line` returns when its
  buffer is full, Enter or not; what `cmd_halt` prints last is below the screen.
* `strncpy` and `strncat` write a byte more than they may; `%4d` of a negative number puts
  blanks after the sign, `%-5s` does not pad; `itoa` of the smallest number is
  undefined in C.
* `fflush` clears `dirty` when the write failed and `fclose` ignores its result; `fread` behind the end wraps
  (`stdio.c:314`), `fopen` for writing does not look at what `malloc` returned.
* `mkdir` always makes its directory in the root (`fat16.c:322`), wherever the shell is.
* a name with a newline, which only a system call can set, breaks the configuration file.

### Fairness

* `Fat16`: a call that has begun goes on; the kernel has one thread and does
  not abandon a call. Nothing makes programs begin calls.
* `Storage`: the same, for the call, its flush and the caller that waits for
  both. Each wait in `hw_write` counts to 100000 and gives up.
* `Exec` and `Prompt`: handlers return, and the kernel's own steps are strongly fair: after
  an `iret` at least one instruction of the thread is executed before the next
  interrupt, whose sources have finite rates. Nothing makes a program end.
* `Keyboard`: the thread goes on inside the driver unless it is halted, and
  the timer ticks, which ends a `hlt`. Nothing makes the user press a key.
* `MouseInit` and `MousePort`: the driver goes on. `wait_write` and `wait_read` count down from
  100000, `flush` from 32; that a byte is late is a choice of the hardware.
* `Video`: the loop of a line or circle goes on; it waits for nothing.
* `BlockDev`, `Heap`, `Mouse`, `Shell` and `Library` need none: what is said of them is safety.

### Reading some properties

`CleanIsDurable` is the promise a user relies on when `sync` prints that the
disk is clean: with the power gone at any moment, only sectors of the bitmap
are lost. `OthersSurvive` reads files from the bare sectors, without the
cache, in every phase of every call: it is about the copy, which is what a
flush at that moment would write. `ChainsSound` also holds for entries
whose last write failed. Such a write has freed the old chain before it ran
out of space, and the entry still names the old first cluster; it is sound
only because the search for free clusters goes upwards and takes every free
cluster, the old ones included, before it fails. The entry then points into
the chain the failed write leaves behind, which no other entry can get.

`SavedFilesSurvive` is `OthersSurvive` seen from the medium. It holds in the
middle of any flush, failing or not, because entry, links and data of a saved
file that nobody writes are the same in the copy and on the medium, so that any
mixture of old and new sectors shows them. It needs that no power was lost in
the middle of an earlier flush (`torn`), and that condition cannot be dropped.
When a sector of the FAT is refused, or not yet written, and power is lost
before the flush is complete, the medium can hold an entry whose cluster the
FAT calls free; after the restart a new file, even one in that very directory,
takes the cluster, and the next complete flush makes the loss permanent.
Nothing in the kernel looks for
such entries when it starts. On such a volume the loop that frees an old chain
may also never end, so `CallersReturn` has the same condition.

`JunkIsBounded` and `ClearReportsAreTaken` say what the resynchronisation of
`mouse_handler` gives: any byte with bit 3 set starts a packet, so bytes of two
reports are put together only when a flags byte was lost, and the driver is in
step again after one report whose motion bytes have that bit clear. What it
costs: half of all motion bytes have the bit set, and their
reports are dropped.

`HereIsHere` compares four searches of `fat16.c` that treat an entry
differently: `ls` takes any directory of the name, `cat` and `try_run` the
first entry of the full name, a path only directories, and a write the first free or
equal entry, be it a directory. A file written over a directory takes its place with
everything in it; only then (`lost`) may the current directory be gone.
`ConfigComesBack` composes the text functions: `ConfigText` with `itoa`, then
`strtok`, `strncpy`, `atoi` and `strtoul` on what it wrote.

`CleanMeansSaved` has two exceptions, kept as history in `doubtful`: streams that
have had one file open at once, each with a copy of its own, and a stream
whose own write failed. `ReadsTheFile` holds as long as nobody seeks behind the end.

`PointerOnScreen` is not about the inside of `mouse_set_pos`: it stores the raw arguments (`mouse.c:279`)
and clamps them by reading the fields again, so that the pointer is off the screen in
between, where only the interrupt handler sees it, which clamps its own result. An optimising compiler may clamp
in registers and store once (gcc does with the flags of `makefile`, `-O2`); nothing in the source asks for it, so the model
has both. What the handler adds to a raw coordinate may wrap (`Plus`); the pointer then ends at the other edge
of the screen, but on it.

`LineIsShown` is about a line that stays in its row; `flat` tells when it has wrapped.
`WidgetsAreWhole` leaves out the cells that the list above says stay uncovered.

`ImplementsRunner` follows one number: the code of a program that ends is in
`ebx`, then in `saved_user_exit_code`, then in `eax`, or starts as an exception
number in a frame, and the shell must see this one and not that of an earlier
program. The `Runner` has no step from a program's end to another program, or to
the end of the machine. The phase "ended" against "loading" in `try_run` is told
by `ran`, a history variable. `Balanced` is about the two ways that leave the
system call stack by assigning to `esp`: `sys_exit` does it with interrupts on,
`abort_user_program` with interrupts off and no `iret` to come.

`ReadyMeansReporting` and `KeyboardIsKept` exclude behaviours in which a byte
was taken for the reply of another question (`stale`): the driver has no means
to tell. The fail path clears bit 1 of the command byte only; bit 5 is clear by
then wherever it matters, so that `ConfigOff` serves for both places.

## Proofs

### The disk layer

`BlockDevProofs` holds for every disk, window, bitmap and set of contents
with `WindowAssumption` (the window lies on the medium and the bitmap covers
it: 1024 and 1024 in the code), and for any set `Shared`. Each theorem also assumes
`~LateFaults`: the drive reports every sector it did not take. Without that
assumption `blockdev_late` shows them false.

* `BlockDevInvariant`: `Spec => []IInv`. `TypeOK` and `CleanIsDurable` alone are
  not inductive: the error count of a flush is part of what it returns, and
  it counts sectors behind the loop index that are still dirty. `IInv` adds
  this (`ErrorsAreDirty`), that a flush runs only with a copy, and that a
  machine without power has none. One step of the proof per action, and under
  the flush one case per outcome of a write.
* `CleanSectorsAreDurable`: `[]CleanIsDurable`.
* `FlushTellsTheTruth`: `[]` of the two action properties of the return value; at
  the end of the loop every dirty sector is behind the index, so the count is
  that of all dirty sectors, and none dirty gives the medium equal to the copy.
* `BootAreaIsSafe`: while the copy is in use the medium changes only at
  `PartStart + i` for `i` in the window.
* `BlockDevImplementsStore`: refinement of `DurableStore`, each action mapped
  to an abstract action or a stutter: a flush step to `Persist` or `Other`,
  the end of a flush to `Acknowledge` when it returns 0.

### The FAT16 file system

`Fat16Proofs` holds for every geometry, every set of names and sizes, any number of calls
and any images, under five assumptions. `GeometryAssumption`: the FAT has room for all clusters, and there are
no more of them than FAT16 allows, which keeps `max_c` in its 16 bits. `BoundsAssumption`: the bounds of the runs are numbers.
`ImagesAssumption`: the volume that is mounted is sound, for nothing in `fat16_init` looks at it. It includes that
no directory has a name programs give to a file (`fat16_write_file` takes any entry of the name for the
old file, whatever its attribute), that a file starts within the window (only such a file is
safe when its replacement fails, see `ChainsSound` above), that files read as `expect` says, and that no entry follows
a FREE one in its directory: every search ends there, so such an entry would be hidden until a new one takes the FREE slot,
and then appear. `NamesAssumption`: programs do not make such directories themselves.
TLC evaluates all of them on the images of the runs.

* `Fat16Invariant`: `Spec => []IInv`. What the theorems say holds between calls only, so the invariant
  follows the running call. `Others` are the entries but the one that is replaced, `Taken` the clusters of
  their chains, `Hand` the clusters of the call: what is left of the old chain, then the new chain as
  far as it is linked, then the one just allocated. `Dirs` and `HandApart` say that `Taken` is a
  set of disjoint sound chains which `Hand` does not meet; `Unlost` that every other cluster is
  free, until the call knows that it will fail; `CallOK` what each phase has established. Its part
  `OldOK` is the argument for failed writes: the search takes the lowest free cluster, so that when one
  cannot be written, or none is left, every freed cluster within the window is already in the new chain.
  `Cache` says when the cached sector agrees with the disk.
* The table that the driver sees through its cache is what the lemmas are about: `CachedIs`, `SetIs`,
  `AllocIs` and `WalkedIs` say what each primitive does to it, `SoundLonger`, `SoundEnd`,
  `SoundFrom` and `SoundShorter` what linking, ending and freeing do to a chain, `Frame` that directories
  and chains depend on nothing but their own links and sectors. `Walk` is a recursive function on the number of links; its
  existence and that a walk that ends never repeats a cluster come from the well-founded order of the numbers on a set of indices (`Induction`, `EndsOnce`).
* `CacheAgrees`, `ChainsStaySound`, `NothingLeaks`: its parts.

`SurvivalProofs` builds on it.

* `SavedFilesAreRead`: `Spec => []OthersSurvive`, in every state of every call. The invariant `FInv` says, beside `IInv`:
  the first copy of the FAT holds the links of `Taken` as the driver sees them (`OnDisk`: whatever an eviction
  or a flush stores in it, the links of others were there before); through the driver every path reads as expected,
  but the one that is written (`Reads`); that one's slot is the first its directory has for it (`Placed`), so that
  the search for it will end at the new entry; the clusters of the new chain hold the data in order (`Content`); the name of
  a directory that is being made is not taken yet (`NoDirYet`); no entry follows a FREE one (`DirsEnded`).
* A search is its list of slots and the first index that stops it (`Look`). `LookSame`: it finds the same where the slots hold
  the same. `LookPast`: also when a slot that stopped it, being FREE, is filled with another name, for the slot behind it is FREE or
  the directory is at its end; here `DirsEnded` is needed. `OtherReads` puts this together with `SlotOffFiles`: no slot
  lies in a sector of a file or of the chain being written.

### The callers that flush, and the medium

The second half of `SurvivalProofs` is about `Storage`, for the same geometries and
volumes and any number of calls, refused sectors and losses of power.

* `StorageInvariant`: `SSpec => []SInv`. In the middle of a flush the medium is a mixture of
  sectors of different age, so that `SavedFilesSurvive` says nothing the next step could use. What is kept is weaker on
  sectors and stronger on paths: `OnMedium` says that for every path whose last save still counts
  (`safe`), the medium agrees with the RAM disk on all that reading this path meets: no slot before the
  entry is FREE on the medium, the entry, its links and its data are the same (`Agrees`). A step of the driver writes
  sectors that no such path meets, or changes slots of them that the search passes (the lemmas of
  `OthersSurvive` say which); a sector that the flush copies has either value, and both agree. `AtStake` says
  that the path being written, and what lies in a directory being made, is not among them. `Whole`
  says what holds of the medium after a complete flush, which is what makes `IInv` and `FInv` true
  again when the machine starts from it; `Passed` that a flush without an error has left no difference behind it,
  so that its end makes the medium whole. All of it holds until power is lost in the middle of a flush (`torn`);
  after that `IInv` itself may fail, see above.
* `SavedSurvive`: `SSpec => []SavedFilesSurvive`.
* `WritesSaved`: the action property `WritesAreSaved`; it needs no condition on `torn`, and has an invariant of its
  own (`Written`): which path the running call is about, that a call that succeeded left a file that `expect` knows, that without a
  refused sector a flush meets no error.

`HaltIsSafe` is false (run `storage_halt`); that callers return is left to TLC.

### The mouse

`MouseProofs` holds for every screen, set of reports, positions and
sensitivities with `MouseAssumption` (reports are what the nine-bit packet can
say; the arguments of calls are of type int, however wide, and so is the size of the screen; the bounds are numbers), whatever is lost.

* `MouseInvariant`: `Spec => []IInv`. Neither `PointerOnScreen` nor `JunkIsBounded` is
  inductive. The first needs to know what the call under way will still do: `Fenced` says
  that a coordinate is on its axis or that a step still to come `Mends` it - a test that will find it
  beyond, or a store of a value on the axis - and the same of every value that the
  call has still to store, by the steps after it. The handler clamps, so it can only help; a test that
  found a coordinate beyond turns into the store of a bound, which mends whatever the handler does
  before it is made. `JunkIsBounded` needs to know which loss pays for the
  packet under way. `Charged` says that this packet is `Tight`, its bytes being
  those the mouse sent last, all of one report and without a gap, or that a
  loss is left over for it. The first byte of a report always starts a packet
  (`FirstByteStarts`), so a tight packet that is complete begins with byte 1
  and is that report. `Collected` says what has been collected of a report of
  which nothing was lost.
* `MouseTypes`, `PointerStaysOnScreen`, `JunkNeedsLoss`: its parts. The second
  is for calls as written and as compiled, with the handler at any moment of them.
* `ClearReportsGetThrough`: the action property; by `Collected` the third byte
  of a clear report finds its first two in `pkt`, and the arithmetic of the
  flags byte gives back the buttons.

For the set-up the same module adds `SetupAssumption`: the firmware left the keyboard's interrupt
enabled (nothing in the kernel enables it), stray bytes are bytes, the bounds are numbers. The
theorems hold for any number of refusals, stray bytes and late replies, and for every `Room`.

* `SetupInvariant`: `PortSpec => []SetupInv`. Neither property is inductive, because whether a byte is the
  reply to the question asked is nowhere written down. `RepliesAreDue` says it: as long as nothing came
  unasked or too late, no more bytes are on their way than the line is owed, the first is the
  acknowledgement if the command was taken, and a refusal is one byte. So the byte that
  `mouse_init` reads as the command byte is the command byte, and an ACK to "enable" means that the
  mouse is enabled. `DoneSoFar` says what the lines behind the driver have established, up to "ready".
* `ReadyIsReporting`, `KeyboardStaysOn`: its parts; the second includes the fail path, which
  writes the command byte a second time.
* `PortImplementsMouse`: `PortSpec => Spec`. With `mouse_init` before it the handler is that of `Mouse`, and
  the theorems above hold of the whole driver.

### The FILE layer

`StdioProofs` holds for every number of streams, every set of names, bytes and blocks, and
whatever the disk and the heap refuse, with `StdioAssumption` (the constants are numbers and
the two marks are no block and no byte).

* `Invariance`: `Spec => []IInv`. None of the three properties is inductive alone.
  `CleanMeansSaved` needs that two streams on one file are both doubtful
  (`Sharers`), or a flush of one would make the other wrong; `BuffersAreHeld` needs that
  closed slots have no block (`Tidy`); `ReadsTheFile` that positions
  lie in the file unless the stream was moved behind it (`InFile`). One step per call.
* `CleanStreamsAreSaved`, `StreamsHoldTheirBlocks`, `ReadsStayInTheFile`: its parts.

### The keyboard

The first part of `TerminalProofs` holds for rings of every size from two slots on, every set of scan codes
and any number of events, with the handler between any two accesses of a reader.

* `KeyboardInvariant`: `Spec => []IInv`. Types alone are not inductive. `Holding`: what
  a reader has seen or already copied is still the oldest event of its ring,
  because the handler writes only at the head and a full ring drops the new key. `InClear`:
  between the two stores of a clear (`head = 0`, then `tail = 0`) the ring is not
  one the code can read as wrapped; the handler finds room in it, and what it puts there
  begins at slot 0.
* `RingsAreQueues`: both rings refine `KeyQueue`. The contents are read off the indices
  (`Held`); four facts about indices modulo the size say what a store at the head, a
  step of the tail and a clear do to them, for each ring without touching the other.

### The display

The second part of `TerminalProofs` holds for every size of the screen in pixels and in
cells, every buffer and key, every wallpaper, and every place and size of a shape, with
`ConsoleAssumption`, `WidgetAssumption` and `RasterAssumption` (the constants are numbers, nothing is empty).
`Decoded`, `Draw` and `DrawArrow` are recursive functions; that they exist, and what they keep, follows as for
`coalesce` (`Induction`, `Recursion`).

* `LinesAreShown`: `VideoSpec => []LineIsShown`. The invariant `LineInv` adds where the text cursor is (behind the line
  it belongs to, by as many cells as there are characters), that the longest the line has been fits in its row, and
  that the cells from there on are blank, which is what Backspace relies on. One lemma
  for each thing a key may do.
* `CursorIsUndone`: `VideoSpec => []CursorLeavesNoTrace`. Between the first and the last pixel of the arrow the
  second drawing holds at each pixel either what the first held there or its inverse (`DrawingsRunInStep`), whichever
  pixels are inverted how often, on the screen or beyond its edge.
* `ShapesAreDrawn`: `VideoSpec => []ShapeIsDrawn`. Shapes of one call are a pixel by pixel argument. For a line,
  `OnTheLine` says that the error term is the distance of the next pixel from the ideal
  line and at most half the longer side (`Within`). So the step along that side is never left out, the other
  coordinate cannot overshoot (`Midpoint`), and each pixel is in a column of its own (`OnePerStep`). For a
  circle, `OnTheCircle` bounds the decision variable on both sides, which is what keeps a pixel within one of the circle
  (`Decision`); the columns that have a pixel close up from the center and from the edge.

### The heap

`HeapProofs` holds for every arena, header, split size, address width and request with
`HeapAssumption`, in any order of calls.

* `HeapInvariant`: `Spec => []IInv`. A list of blocks is taken apart into those before
  one block, the block, and those behind it. Each part is a span from one address to
  another (`Span`), spans join, and every operation replaces a block by one or two
  of the same span. `NoPairs` (no two free neighbours) is what `coalesce` restores after
  the one call that can break it; that it merges a whole list and keeps its span needs an induction over
  the list. `coalesce` is a recursive function, its existence and what it computes follow from the
  well-foundedness of the numbers applied to a set of indices (`Induction`), which needs no
  operator as a parameter.
* `HeapIsTiled`, `NothingLeaks`: its parts.
* `HeapImplementsAllocator`: refinement of `Allocator`, under `RequestsFit`: no size asked
  for, nor a product that `calloc` computes modulo the address width, is within 3 of the largest number.
  `memory.c:44` rounds such a size up to 0, and the caller of `malloc(0xFFFFFFFF)` gets a block of
  no bytes; without the assumption the theorem is false. The other two theorems do not need it.

### Programs and directories

`PromptProofs` holds for every set of files, paths and lines, exit codes and exceptions, with
`ExecAssumption` (exceptions are 0 to 19), and for every set of names, every map from names to
8.3 names and every size of the root (`ShellAssumption`).

* `ExecInvariant`: `Spec => []IInv`. `Balanced` speaks of one place only; the strengthening
  `AtPlace` says for each place of the processor which stack it is on, which frames lie on both, and
  whether interrupts are on, with and without a handler on top. `CodeOnItsWay` follows the exit
  code from a register to the saved variable to the register of `zxe_run`'s return, or from the frame of an exception.
* `StacksAreBalanced`, `TheFileRuns`: its parts.
* `ExecImplementsRunner`: refinement of `Runner`, one step of the proof per action, under
  `NoErrorCodes`: programs do not end with -1 to -4, which `zxe_run` uses itself (see the
  list of disagreements).
* `DirectoriesAgree`: `ShellSpec => []HereIsHere`. The invariant `DirInv` adds `FileFirst`: a name may have a file and
  a directory in the root, but the file is in front, where a search by name finds it first. `mkdir` puts its
  entry behind the file; a write takes the first entry of its name, and a new one only if there is none.
* `PromptImplements`: `PromptSpec => ShellSpec /\ Spec`. What the run `shell` checks behaves as `Shell` and as
  `Exec`, so that the theorems hold of it.

### What is only model-checked

All liveness (fairness is beyond the prover), `BlockDev` with late faults, what the shell's configuration keeps
(`ConfigComesBack`: what the functions of `Text` compute is induction over data), the functions of the
library one by one (`CallsKeepTheirWord`: `Sorting` is recursive), and the text widgets (`WidgetsAreWhole`,
`StaysInside`: each is a list of calls put together from lists of a program's length).
The types of `BlockDev` and `Mouse` are proved and not checked again by a run.

## Plan

In this order: the disk layer and its proofs, FAT16, the keyboard, the heap,
the callers that flush, the mouse and its proofs, programs, the display, the
library and the proofs of the FILE layer, the shell. What would come next:

1. `Storage`: the second FAT, two entries of one name, the direct mode without a copy.
2. Proofs: the widgets of `Widgets`.

## Not modelled

Hazards without a property:

* `fat16.c:53`: a FAT sector evicted by `fat_get` or `fat_set` is written to the first FAT only. No code
  reads the second, so that no behaviour depends on it.
* `fat16.c:250`: a write takes the first deleted slot, also when the file's own entry comes
  later; the directory ends with two entries of one name and the old chain is never freed. The
  volume of `fat16` starts with a deleted slot; chains stay sound and the newest file readable.
* `memory.c:44`: a request near the largest size is rounded up to 0; `count * size` wraps in
  `calloc`. `Wrap` is in the model, the requests stay below it; `HeapImplementsAllocator` states
  the condition (`RequestsFit`).
* `memory.c:22`: the arena holds the API table and the program, see the first disagreement above.
* `pit.c:26`: the end of a sleep is computed in 32 bits; near the wrap it ends at once
  or waits for the whole cycle. The timer is otherwise a counter and a loop.

Of running programs: the system calls that only pass on to the heap, the clock
and the drivers, and the general registers. `run_user_program` saves
none of the latter, so that after a program has ended its callers have the
program's `edi` and `ebp`; as compiled, `zxe_run`, `try_run` and `shell_execute`
restore their own before anything depends on them. Exceptions are those of programs and of system calls on a program's behalf,
not of the kernel's own mistakes. Of the commands: those that only print.

Of the mouse driver: `mouse_set_bounds` and `mouse_set_callback`, which nothing
calls, with them the events, and the wheel (`pkt_len` is always 3).
`mouse_get_state` copies four fields that the handler may change meanwhile; no
property is about the copy. Of the disk layer: whether the BIOS can be entered
at all with the kernel's descriptor tables.

Of the library: `rand`, the clock, `math.c` (floating point) and `assert`. Of the display: fonts
and the modes whose height is no whole number of rows.

The bit-level set-up of descriptor tables, interrupt
controller and paging (constants written once), loading of the kernel by the
boot loader, the host tool and the sample programs. `kernel/drivers/ata.c` and
`kernel/kernel_isr.asm` are not part of the build.
