-------------------------------- MODULE Exec --------------------------------
(***************************************************************************)
(* Running a program: shell_execute and try_run (kernel/shell/shell.c),    *)
(* zxe_run (kernel/zxe.c), run_user_program, abort_user_program, the       *)
(* system call and the interrupt entries (kernel/kernel_entry.asm), and    *)
(* exception_handler (kernel/panic.c).  The processor pushes a frame for   *)
(* every interrupt, on the stack of the TSS when it comes from the         *)
(* program and on the current one otherwise.  Built-in commands, and the   *)
(* arguments and effects of system calls, are left out.                    *)
(***************************************************************************)
EXTENDS Integers, Sequences, SequencesExt

CONSTANTS
  Volumes,    \* what the paths may hold: functions from paths to contents
  Commands,   \* what a line may name: the paths try_run goes through
  ExitCodes,  \* what programs pass to exit
  Faults,     \* exceptions programs cause
  MaxCommands \* bound: lines typed

(* The exceptions that have an entry, isr0 to isr19.                       *)
ASSUME ExecAssumption == Faults \subseteq 0 .. 19 /\ MaxCommands \in Nat

(* zxe.h *)
ZXE_OK == 0
ZXE_ERROR == -1
ZXE_NOT_FOUND == -2
ZXE_INVALID == -3
ZXE_TOO_LARGE == -4

(* A file is its header - "none" when it is too short for one, "bad" or    *)
(* "large" when zxe_validate refuses it, else the program's name - and     *)
(* whether the read gets to its end.                                       *)
Absent == [head |-> "absent", reads |-> TRUE]

VARIABLES
  files,           \* the volume
  todo,            \* try_run: the path tried and those after it
  space,           \* program_space: the header there
  pc, ifl, on,     \* the processor: place, interrupt flag, stack in use
  kstack, tstack,  \* frames on the kernel's stack and on that of the TSS
  eax, ebx, fault, \* result, exit code asked for, exception number
  saved_kernel_esp, saved_user_exit_code,
  told,            \* the shell's last word on a command
  ran,             \* history: the command has got a program to run
  typed            \* commands so far

memory == <<files, space>>
cpu == <<pc, ifl, on, kstack, tstack>>
shell == <<todo, told, ran, typed>>
saved == <<saved_kernel_esp, saved_user_exit_code>>
vars == <<memory, cpu, shell, saved, eax, ebx, fault>>

Frame(to, flag) == [to |-> to, ifl |-> flag]

Init ==
  /\ files \in Volumes /\ todo = <<>>
  /\ space = "bad"
  /\ pc = "prompt" /\ ifl = TRUE /\ on = "kernel"
  /\ kstack = <<>> /\ tstack = <<>>
  /\ eax = 0 /\ ebx = 0 /\ fault = 0
  /\ saved_kernel_esp = 0 /\ saved_user_exit_code = 0
  /\ told = "nothing" /\ ran = FALSE /\ typed = 0

-----------------------------------------------------------------------------
(* The shell reads a line - keys come by interrupt - and calls try_run,    *)
(* which calls zxe_run.                                                    *)
CallTo(place, back) ==
  pc' = place /\ kstack' = Append(kstack, Frame(back, FALSE))

ReturnWith(r) ==
  pc' = Last(kstack).to /\ kstack' = Front(kstack) /\ eax' = r

Execute(paths) ==
  /\ pc = "prompt" /\ ifl /\ typed < MaxCommands /\ typed' = typed + 1
  /\ todo' = paths /\ ran' = FALSE
  /\ CallTo("zxe_run", "try_run")
  /\ UNCHANGED <<memory, ifl, on, tstack, told, saved, eax, ebx, fault>>

(* try_run goes on only after "not found"; then shell_execute looks at the *)
(* result.                                                                 *)
Message(r) ==
  IF r = ZXE_ERROR THEN "read error"
  ELSE IF r \in {ZXE_NOT_FOUND, ZXE_INVALID, ZXE_TOO_LARGE} THEN "command not found"
  ELSE "nothing"

TryRun ==
  /\ pc = "try_run"
  /\ IF eax = ZXE_NOT_FOUND /\ Len(todo) > 1
     THEN todo' = Tail(todo) /\ CallTo("zxe_run", "try_run") /\ UNCHANGED told
     ELSE /\ pc' = "prompt" /\ told' = Message(eax)
          /\ UNCHANGED <<todo, kstack>>
  /\ UNCHANGED <<memory, ifl, on, tstack, ran, typed, saved, eax, ebx, fault>>

-----------------------------------------------------------------------------
(* zxe_run.                                                                *)
File == files[Head(todo)]

(* fat16_read_file stores what it reads; the rest of the area stays.       *)
FaultyLoaded(f) == IF space = "bad" THEN f.head ELSE space

Loaded(f) == IF f.head = "none" THEN space ELSE f.head

Load ==
  /\ pc = "zxe_run"
  /\ \/ File = Absent /\ ReturnWith(ZXE_NOT_FOUND) /\ UNCHANGED space
     \/ File # Absent /\ ~File.reads /\ ReturnWith(ZXE_ERROR) /\ space' = Loaded(File)
     \/ /\ File # Absent /\ File.reads /\ pc' = "validate" /\ space' = Loaded(File)
        /\ UNCHANGED <<kstack, eax>>
  /\ UNCHANGED <<files, ifl, on, tstack, shell, saved, ebx, fault>>

zxe_validate(head) ==
  IF head = "bad" THEN ZXE_INVALID ELSE IF head = "large" THEN ZXE_TOO_LARGE ELSE ZXE_OK

Validate ==
  /\ pc = "validate"
  /\ IF zxe_validate(space) = ZXE_OK
     THEN CallTo("run_user_program", "zxe_run ends") /\ UNCHANGED eax
     ELSE ReturnWith(zxe_validate(space))
  /\ UNCHANGED <<memory, ifl, on, tstack, shell, saved, ebx, fault>>

(* return exit_code *)
ZxeRunEnds ==
  /\ pc = "zxe_run ends" /\ ReturnWith(eax)
  /\ UNCHANGED <<memory, ifl, on, tstack, shell, saved, ebx, fault>>

-----------------------------------------------------------------------------
(* run_user_program: interrupts are off until the iret into the program.   *)
FaultyStackDepth == Len(kstack) - 1

StackDepth == Len(kstack)

RunUserProgram ==
  /\ pc = "run_user_program"
  /\ saved_user_exit_code' = 0 /\ saved_kernel_esp' = StackDepth
  /\ pc' = "program" /\ ifl' = TRUE /\ on' = "program" /\ ran' = TRUE
  /\ UNCHANGED <<memory, kstack, tstack, todo, told, typed, eax, ebx, fault>>

(* An interrupt, exception or int 0x80 at this place.                      *)
Trap(place, flag) ==
  /\ pc' = place /\ ifl' = flag
  /\ IF on = "kernel"
     THEN kstack' = Append(kstack, Frame(pc, ifl)) /\ UNCHANGED <<tstack, on>>
     ELSE /\ on' = "tss" /\ UNCHANGED kstack
          /\ tstack' = Append(IF on = "program" THEN <<>> ELSE tstack, Frame(pc, ifl))

Top == Last(IF on = "kernel" THEN kstack ELSE tstack)

Iret ==
  /\ pc' = Top.to /\ ifl' = Top.ifl
  /\ IF on = "kernel" THEN kstack' = Front(kstack) /\ UNCHANGED <<tstack, on>>
     ELSE /\ tstack' = Front(tstack) /\ UNCHANGED kstack
          /\ on' = IF Top.to = "program" THEN "program" ELSE "tss"

(* Timer, keyboard, mouse: between any two steps, unless interrupts are    *)
(* off.                                                                    *)
Irq ==
  /\ ifl /\ pc \notin {"irq", "panic"} /\ Trap("irq", FALSE)
  /\ UNCHANGED <<memory, shell, saved, eax, ebx, fault>>

IrqReturns ==
  /\ pc = "irq" /\ Iret
  /\ UNCHANGED <<memory, shell, saved, eax, ebx, fault>>

-----------------------------------------------------------------------------
(* System calls.  The gate leaves interrupts on.  exit stores the code,    *)
(* takes the kernel's stack back, and jumps.                               *)
Syscall ==
  /\ pc = "program" /\ Trap("sys_api", ifl)
  /\ UNCHANGED <<memory, shell, saved, eax, ebx, fault>>

SyscallReturns ==
  /\ pc = "sys_api" /\ Iret
  /\ UNCHANGED <<memory, shell, saved, eax, ebx, fault>>

Exit(c) ==
  /\ pc = "program" /\ Trap("sys_exit", ifl) /\ ebx' = c
  /\ UNCHANGED <<memory, shell, saved, eax, fault>>

Unwound ==
  /\ on' = "kernel" /\ tstack' = <<>>
  /\ kstack' = SubSeq(kstack, 1, saved_kernel_esp)

ExitCode ==
  /\ pc = "sys_exit" /\ pc' = "sys_exit, code stored"
  /\ saved_user_exit_code' = ebx
  /\ UNCHANGED <<memory, ifl, on, kstack, tstack, shell, saved_kernel_esp, eax, ebx, fault>>

ExitUnwinds ==
  /\ pc = "sys_exit, code stored" /\ pc' = "program returned" /\ Unwound
  /\ UNCHANGED <<memory, ifl, shell, saved, eax, ebx, fault>>

(* .return_from_user_program: sti, and the saved code is the result.       *)
FaultyFlag == ifl

FlagAtReturn == TRUE

ProgramReturned ==
  /\ pc = "program returned"
  /\ ifl' = FlagAtReturn /\ ReturnWith(saved_user_exit_code)
  /\ UNCHANGED <<memory, on, tstack, shell, saved, ebx, fault>>

-----------------------------------------------------------------------------
(* Exceptions: of the program, or of a system call that follows a pointer  *)
(* the program keeps in a table.                                           *)
Exception(n) ==
  /\ pc \in {"program", "sys_api"} /\ fault' = n /\ Trap("isr", FALSE)
  /\ UNCHANGED <<memory, shell, saved, eax, ebx>>

(* exception_handler looks at the ring in the frame: the program is ended  *)
(* with 0xE0000000 + n, a signed number; the kernel panics.                *)
FaultCode(n) == n - 536870912

FaultyFromProgram == FALSE

FromProgram == Top.to = "program"

ExceptionHandler ==
  /\ pc = "isr"
  /\ IF FromProgram
     THEN /\ saved_user_exit_code' = FaultCode(fault)
          /\ pc' = "program returned" /\ Unwound
     ELSE pc' = "panic" /\ UNCHANGED <<saved_user_exit_code, on, kstack, tstack>>
  /\ UNCHANGED <<memory, ifl, shell, saved_kernel_esp, eax, ebx, fault>>

-----------------------------------------------------------------------------
KernelStep ==
  \/ TryRun \/ Load \/ Validate \/ RunUserProgram \/ ZxeRunEnds
  \/ ExitCode \/ ExitUnwinds \/ ProgramReturned \/ ExceptionHandler

Next ==
  \/ \E c \in Commands : Execute(c)
  \/ KernelStep
  \/ Irq \/ IrqReturns
  \/ Syscall \/ SyscallReturns
  \/ \E c \in ExitCodes : Exit(c)
  \/ \E n \in Faults : Exception(n)

Spec == Init /\ [][Next]_vars

(* A handler ends, and after it the thread gets at least one step before   *)
(* the next interrupt.                                                     *)
FairSpec == Spec /\ SF_vars(KernelStep) /\ WF_vars(IrqReturns)

-----------------------------------------------------------------------------
Places ==
  {"prompt", "try_run", "zxe_run", "validate", "run_user_program", "zxe_run ends",
   "program", "irq", "sys_api", "sys_exit", "sys_exit, code stored",
   "program returned", "isr", "panic"}

Results == -4 .. 0 \union ExitCodes \union -536870912 .. -536870893

TypeOK ==
  /\ files \in Volumes /\ typed \in 0 .. MaxCommands
  /\ pc \in Places /\ ifl \in BOOLEAN /\ on \in {"kernel", "program", "tss"}
  /\ kstack \in Seq([to : Places, ifl : BOOLEAN])
  /\ tstack \in Seq([to : Places, ifl : BOOLEAN])
  /\ eax \in Results /\ saved_user_exit_code \in Results
  /\ ebx \in ExitCodes \union {0} /\ fault \in Faults \union {0}
  /\ saved_kernel_esp \in 0 .. 2

(* Where the thread is, seen past interrupts.                              *)
Thread == IF pc = "irq" THEN Top.to ELSE pc

Call(to) == Frame(to, FALSE)

ThreadFrames == IF pc = "irq" /\ on = "kernel" THEN Front(kstack) ELSE kstack

(* Back at the prompt, after any number of programs, exits, faults and     *)
(* interrupts, nothing is left on the kernel's stack and interrupts are    *)
(* on; while a program or anything on its behalf runs, the saved stack     *)
(* pointer is that of the call that waits for it.                          *)
Balanced ==
  /\ TypeOK
  /\ Thread = "prompt" => ThreadFrames = <<>> /\ (pc = "prompt" => ifl)
  /\ on # "kernel" =>
       /\ kstack = <<Call("try_run"), Call("zxe_run ends")>>
       /\ saved_kernel_esp = Len(kstack)

(* What runs is the file that was asked for, whatever was loaded before    *)
(* and whichever path of the search found it, when that file has a header. *)
RunsItsFile == (on = "program" /\ File.head # "none") => space = File.head

(* The Runner.  A program has ended from the moment it asks to exit or     *)
(* faults; on the way to the shell its code goes through ebx or the        *)
(* exception number, saved_user_exit_code and eax, with interrupts in      *)
(* between.                                                                *)
Phase ==
  IF Thread = "prompt" THEN "shell"
  ELSE IF Thread = "panic" THEN "down"
  ELSE IF Thread \in {"program", "sys_api"} \/ (Thread = "isr" /\ Top.to # "program")
  THEN "running"
  ELSE IF ran THEN "ended" ELSE "loading"

Result ==
  IF Phase # "ended" THEN "none"
  ELSE IF Thread = "sys_exit" THEN ebx
  ELSE IF Thread = "isr" THEN FaultCode(fault)
  ELSE IF Thread \in {"sys_exit, code stored", "program returned"} THEN saved_user_exit_code
  ELSE eax

RunnerAbs == INSTANCE Runner
  WITH Codes <- ExitCodes \union {FaultCode(n) : n \in Faults},
       phase <- Phase, result <- Result, told <- told
ImplementsRunner == RunnerAbs!Spec

(* A command that names no program, or whose program has ended, gets to    *)
(* the prompt, and keys are heard there.                                   *)
ShellComesBack ==
  (Phase \in {"loading", "ended"}) ~> (Phase = "running" \/ (pc = "prompt" /\ ifl))
=============================================================================
