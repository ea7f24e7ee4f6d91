---------------------------- MODULE PromptProofs -----------------------------
(***************************************************************************)
(* What running a program promises, for every volume, every line typed,    *)
(* every program and wherever the interrupts come, and what the shell      *)
(* finds in its directories, for every set of names.  AtPlace is the       *)
(* strengthening for programs: it says for each place of the thread which  *)
(* frames lie on the two stacks, seen past an interrupt.  DirInv is that   *)
(* for directories.                                                        *)
(***************************************************************************)
EXTENDS Prompt, SequenceTheorems, WellFoundedInduction, TLAPS

Frames == [to : Places, ifl : BOOLEAN]

(* The stack the thread uses, and the two stacks without the frame of an   *)
(* interrupt.                                                              *)
FromTask == Frame("program", TRUE)
FromCall == Frame("sys_api", TRUE)

OneCall == <<Call("try_run")>>
TwoCalls == <<Call("try_run"), Call("zxe_run ends")>>
OneTrap == <<FromTask>>
TwoTraps == <<FromTask, FromCall>>

Stacked(p, ks, ts, o, i) ==
  \/ p \in {"prompt", "try_run"} /\ ks = <<>> /\ ts = <<>> /\ o = "kernel" /\ i
  \/ p \in {"zxe_run", "validate", "zxe_run ends"} /\ ks = OneCall /\ ts = <<>>
       /\ o = "kernel" /\ i
  \/ p = "run_user_program" /\ ks = TwoCalls /\ ts = <<>> /\ o = "kernel" /\ i
  \/ p = "program returned" /\ ks = TwoCalls /\ ts = <<>> /\ o = "kernel"
  \/ p = "program" /\ ks = TwoCalls /\ ts = <<>> /\ o = "program" /\ i
  \/ p \in {"sys_api", "sys_exit", "sys_exit, code stored"} /\ ks = TwoCalls
       /\ ts = OneTrap /\ o = "tss" /\ i
  \/ p = "isr" /\ ks = TwoCalls /\ ts \in {OneTrap, TwoTraps}
       /\ o = "tss" /\ ~i
  \/ p = "panic" /\ ks = TwoCalls /\ ts = TwoTraps /\ o = "tss" /\ ~i

AtPlace ==
  IF pc # "irq" THEN Stacked(pc, kstack, tstack, on, ifl)
  ELSE /\ ~ifl /\ Top.ifl = TRUE
       /\ \/ /\ on = "kernel"
             /\ Stacked(Top.to, Front(kstack), tstack, "kernel", TRUE)
          \/ /\ on = "tss"
             /\ Stacked(Top.to, kstack, Front(tstack),
                   IF Top.to = "program" THEN "program" ELSE "tss", TRUE)

(* From its load to its end the program in place is that of the file.      *)
InPlace ==
  Thread \notin {"prompt", "try_run", "zxe_run", "zxe_run ends"} /\ File.head # "none"
    => space = File.head

Waits == on # "kernel" => saved_kernel_esp = Len(TwoCalls)

IInv == TypeOK /\ AtPlace /\ Waits /\ InPlace

-----------------------------------------------------------------------------
(* Stacks of at most three frames.                                         *)
LEMMA Push ==
  ASSUME NEW a, NEW b
  PROVE  Append(<<>>, a) = <<a>> /\ Append(<<a>>, b) = <<a, b>>
<1> DEFINE S == {a, b}
<1>1. <<a>> \in Seq(S) /\ <<a, b>> \in Seq(S) /\ Len(<<a>>) = 1 /\ Len(<<a, b>>) = 2
  OBVIOUS
<1>2. Append(<<>>, a) = <<a>>
  OBVIOUS
<1>3. /\ Append(<<a>>, b) \in Seq(S) /\ Len(Append(<<a>>, b)) = 2
      /\ Append(<<a>>, b)[1] = a /\ Append(<<a>>, b)[2] = b
  BY <1>1, AppendProperties
<1>4. \A i \in 1 .. 2 : Append(<<a>>, b)[i] = <<a, b>>[i]
  BY <1>3
<1>5. Append(<<a>>, b) = <<a, b>>
  BY <1>1, <1>3, <1>4, SeqEqual
<1>6. QED
  BY <1>2, <1>5

LEMMA UpToTwo ==
  ASSUME NEW S, NEW a \in S, NEW b \in S
  PROVE  /\ <<>> \in Seq(S) /\ <<a>> \in Seq(S) /\ <<a, b>> \in Seq(S)
         /\ Len(<<a, b>>) = 2
OBVIOUS

LEMMA Pop ==
  ASSUME NEW S, NEW s \in Seq(S), NEW e \in S
  PROVE  /\ Front(Append(s, e)) = s /\ Last(Append(s, e)) = e
         /\ Append(s, e) \in Seq(S)
<1> DEFINE t == Append(s, e)
<1>1. /\ t \in Seq(S) /\ Len(t) = Len(s) + 1 /\ t[Len(s) + 1] = e
      /\ \A i \in 1 .. Len(s) : t[i] = s[i]
  BY AppendProperties
<1>2. Len(s) \in Nat /\ DOMAIN t = 1 .. Len(t)
  BY <1>1, LenProperties
<1>3. \A i \in 1 .. Len(s) : t[i] \in S
  BY <1>1, <1>2, ElementOfSeq
<1>4. /\ SubSeq(t, 1, Len(s)) \in Seq(S) /\ Len(SubSeq(t, 1, Len(s))) = Len(s)
      /\ \A i \in 1 .. Len(s) : SubSeq(t, 1, Len(s))[i] = t[i]
  BY <1>2, <1>3, SubSeqProperties
<1>5. SubSeq(t, 1, Len(s)) = s
  BY <1>1, <1>4, SeqEqual
<1>6. QED
  BY <1>1, <1>2, <1>5 DEF Front, Last

LEMMA Callers ==
  /\ Append(<<>>, Call("try_run")) = OneCall
  /\ Append(OneCall, Call("zxe_run ends")) = TwoCalls
  /\ Append(<<>>, FromTask) = OneTrap
  /\ Append(OneTrap, FromCall) = TwoTraps
  /\ Front(OneCall) = <<>> /\ Last(OneCall) = Call("try_run")
  /\ Front(TwoCalls) = OneCall /\ Last(TwoCalls) = Call("zxe_run ends")
  /\ Front(OneTrap) = <<>> /\ Last(OneTrap) = FromTask
  /\ Front(TwoTraps) = OneTrap /\ Last(TwoTraps) = FromCall
  /\ Call("try_run").to = "try_run" /\ Call("zxe_run ends").to = "zxe_run ends"
  /\ FromTask.to = "program" /\ FromTask.ifl /\ FromCall.to = "sys_api"
<1>1. /\ Call("try_run") \in Frames /\ Call("zxe_run ends") \in Frames
      /\ FromTask \in Frames /\ FromCall \in Frames
  BY DEF Call, Frame, Frames, Places, FromTask, FromCall
<1>2. OneCall \in Seq(Frames) /\ OneTrap \in Seq(Frames) /\ <<>> \in Seq(Frames)
  BY <1>1, UpToTwo DEF OneCall, OneTrap
<1>3. /\ Append(<<>>, Call("try_run")) = OneCall
      /\ Append(OneCall, Call("zxe_run ends")) = TwoCalls
      /\ Append(<<>>, FromTask) = OneTrap
      /\ Append(OneTrap, FromCall) = TwoTraps
  BY Push DEF OneCall, TwoCalls, OneTrap, TwoTraps
<1>4. \A st \in Seq(Frames), f \in Frames :
        Front(Append(st, f)) = st /\ Last(Append(st, f)) = f
  BY Pop
<1>5. /\ Front(Append(<<>>, Call("try_run"))) = <<>>
      /\ Last(Append(<<>>, Call("try_run"))) = Call("try_run")
      /\ Front(Append(OneCall, Call("zxe_run ends"))) = OneCall
      /\ Last(Append(OneCall, Call("zxe_run ends"))) = Call("zxe_run ends")
  BY <1>1, <1>2, <1>4
<1>6. /\ Front(Append(<<>>, FromTask)) = <<>>
      /\ Last(Append(<<>>, FromTask)) = FromTask
      /\ Front(Append(OneTrap, FromCall)) = OneTrap
      /\ Last(Append(OneTrap, FromCall)) = FromCall
  BY <1>1, <1>2, <1>4
<1>7. /\ Call("try_run").to = "try_run" /\ Call("zxe_run ends").to = "zxe_run ends"
      /\ FromTask.to = "program" /\ FromTask.ifl /\ FromCall.to = "sys_api"
  BY DEF Call, Frame, FromTask, FromCall
<1>8. QED
  BY <1>3, <1>5, <1>6, <1>7

LEMMA Unwinding == Len(TwoCalls) = 2 /\ SubSeq(TwoCalls, 1, 2) = TwoCalls
<1>1. Call("try_run") \in Frames /\ Call("zxe_run ends") \in Frames
  BY DEF Call, Frame, Frames, Places
<1>2. TwoCalls \in Seq(Frames) /\ Len(TwoCalls) = 2
  BY <1>1, UpToTwo DEF TwoCalls
<1>3. QED
  BY <1>2, SubSeqFull

(* A frame taken off or put on leaves a stack of frames.                   *)
LEMMA FrontIsStack ==
  ASSUME NEW S, NEW s \in Seq(S)
  PROVE  Front(s) \in Seq(S)
<1>1. Len(s) \in Nat /\ \A i \in 1 .. Len(s) - 1 : s[i] \in S
  BY LenProperties, ElementOfSeq
<1>2. QED
  BY <1>1, SubSeqProperties DEF Front

-----------------------------------------------------------------------------
(* The places of the thread are not those of the handlers.                 *)
LEMMA AtIsPlace ==
  ASSUME NEW p, NEW ks, NEW ts, NEW o, NEW i, Stacked(p, ks, ts, o, i)
  PROVE  /\ p \in Places \ {"irq"}
         /\ o = "kernel" => ts = <<>>
         /\ o # "kernel" => ks = TwoCalls
         /\ o = "program" <=> p = "program"
         /\ o \in {"kernel", "program", "tss"}
BY DEF Stacked, Places

(* What a call can return.                                                 *)
LEMMA ResultFacts ==
  /\ 0 \in Results /\ ExitCodes \subseteq Results
  /\ {ZXE_ERROR, ZXE_NOT_FOUND, ZXE_INVALID, ZXE_TOO_LARGE, ZXE_OK} \subseteq Results
  /\ \A n \in Faults \union {0} : FaultCode(n) \in Results
BY ExecAssumption, SMT
DEF ExecAssumption, Results, FaultCode, ZXE_ERROR, ZXE_NOT_FOUND, ZXE_INVALID,
    ZXE_TOO_LARGE, ZXE_OK

LEMMA ExecInit == Init => IInv
BY ExecAssumption, ResultFacts
DEF ExecAssumption, Init, IInv, TypeOK, AtPlace, Stacked, Waits, InPlace, Thread, Places

-----------------------------------------------------------------------------
(* Where the thread is outside a handler, and what a step leaves of it.    *)
Outside == pc # "irq" /\ Stacked(pc, kstack, tstack, on, ifl)

LEMMA OutsideIs ==
  ASSUME AtPlace, pc # "irq"
  PROVE  Outside /\ Thread = pc
BY DEF AtPlace, Outside, Thread

LEMMA OutsideNext ==
  ASSUME Outside'
  PROVE  AtPlace' /\ Thread' = pc'
BY DEF AtPlace, Outside, Thread

(* A call and a return between kernel functions.                           *)
LEMMA CallStep ==
  ASSUME TypeOK, NEW p \in Places, NEW b \in Places, CallTo(p, b)
  PROVE  kstack' \in Seq(Frames) /\ pc' \in Places
<1>1. Call(b) \in Frames /\ kstack \in Seq(Frames)
  BY DEF Call, Frame, Frames, TypeOK
<1>2. QED
  BY <1>1, Pop DEF CallTo, Call

LEMMA TrapStep ==
  ASSUME TypeOK, NEW p \in Places, NEW i \in BOOLEAN, Trap(p, i)
  PROVE  /\ kstack' \in Seq(Frames) /\ tstack' \in Seq(Frames)
         /\ on' \in {"kernel", "program", "tss"} /\ ifl' \in BOOLEAN
         /\ pc' \in Places
<1>1. /\ Frame(pc, ifl) \in Frames /\ kstack \in Seq(Frames) /\ tstack \in Seq(Frames)
      /\ <<>> \in Seq(Frames)
  BY DEF Frame, Frames, TypeOK
<1>2. /\ Append(kstack, Frame(pc, ifl)) \in Seq(Frames)
      /\ Append(tstack, Frame(pc, ifl)) \in Seq(Frames)
      /\ Append(<<>>, Frame(pc, ifl)) \in Seq(Frames)
  BY <1>1, Pop
<1>3. QED
  BY <1>1, <1>2 DEF Trap, TypeOK

-----------------------------------------------------------------------------
(* The steps of the kernel, one lemma each.                                *)
LEMMA ExecuteStep ==
  ASSUME IInv, NEW cmd \in Commands, Execute(cmd)
  PROVE  IInv'
<1> USE DEF IInv
<1>1. kstack = <<>> /\ tstack = <<>> /\ on = "kernel" /\ ifl
  BY OutsideIs DEF Outside, Stacked, Execute
<1>2. kstack' = OneCall /\ pc' = "zxe_run"
  BY <1>1, Callers DEF Execute, CallTo, Call
<1>3. TypeOK'
  <2>1. kstack' \in Seq(Frames)
    BY CallStep DEF Execute, Places
  <2>2. pc' \in Places /\ typed' \in 0 .. MaxCommands
    <3>1. typed \in 0 .. MaxCommands /\ typed < MaxCommands /\ typed' = typed + 1
      BY DEF TypeOK, Execute
    <3>2. typed' \in 0 .. MaxCommands
      BY <3>1, ExecAssumption DEF ExecAssumption
    <3>3. QED
      BY <1>2, <3>2 DEF Places
  <2>3. QED
    BY <2>1, <2>2 DEF TypeOK, Execute, Frames, memory, saved
<1>4. Outside'
  BY <1>1, <1>2 DEF Outside, Stacked, Execute
<1>5. Waits' /\ InPlace'
  BY <1>1, <1>2, <1>4, OutsideNext DEF Execute, Waits, InPlace
<1>6. QED
  BY <1>3, <1>4, <1>5, OutsideNext

LEMMA TryRunStep ==
  ASSUME IInv, TryRun
  PROVE  IInv'
<1> USE DEF IInv
<1>1. kstack = <<>> /\ tstack = <<>> /\ on = "kernel" /\ ifl
  BY OutsideIs DEF Outside, Stacked, TryRun
<1>2. \/ kstack' = OneCall /\ pc' = "zxe_run"
      \/ kstack' = <<>> /\ pc' = "prompt"
  BY <1>1, Callers DEF TryRun, CallTo, Call
<1>3. TypeOK'
  <2>1. kstack' \in Seq(Frames)
    BY CallStep, <1>1, EmptySeq DEF TryRun, Places
  <2>2. QED
    BY <2>1, <1>2 DEF TypeOK, TryRun, Frames, memory, saved, Places
<1>4. Outside'
  BY <1>1, <1>2 DEF Outside, Stacked, TryRun
<1>5. Waits' /\ InPlace'
  BY <1>1, <1>2, <1>4, OutsideNext DEF TryRun, Waits, InPlace
<1>6. QED
  BY <1>3, <1>4, <1>5, OutsideNext

LEMMA LoadStep ==
  ASSUME IInv, Load
  PROVE  IInv'
<1> USE DEF IInv
<1>1. kstack = OneCall /\ tstack = <<>> /\ on = "kernel" /\ ifl /\ pc = "zxe_run"
  BY OutsideIs DEF Outside, Stacked, Load
<1>2. \/ /\ kstack' = <<>> /\ pc' = "try_run" /\ eax' \in {ZXE_NOT_FOUND, ZXE_ERROR}
      \/ /\ kstack' = OneCall /\ pc' = "validate" /\ eax' = eax
         /\ space' = Loaded(File)
  BY <1>1, Callers DEF Load, ReturnWith
<1>3. TypeOK'
  <2>1. kstack' \in Seq(Frames)
    BY <1>1, <1>2, EmptySeq DEF TypeOK, Frames
  <2>2. eax' \in Results
    BY <1>2, ResultFacts DEF TypeOK
  <2>3. QED
    BY <2>1, <2>2, <1>2 DEF TypeOK, Load, Frames, shell, saved, Places
<1>4. Outside'
  BY <1>1, <1>2 DEF Outside, Stacked, Load
<1>5. Waits' /\ InPlace'
  BY <1>1, <1>2, <1>4, OutsideNext DEF Load, Waits, InPlace, Loaded, File, shell
<1>6. QED
  BY <1>3, <1>4, <1>5, OutsideNext

LEMMA ValidateStep ==
  ASSUME IInv, Validate
  PROVE  IInv'
<1> USE DEF IInv
<1>1. /\ kstack = OneCall /\ tstack = <<>> /\ on = "kernel" /\ ifl /\ pc = "validate"
      /\ Thread = "validate"
  BY OutsideIs DEF Outside, Stacked, Validate
<1>2. \/ /\ kstack' = <<>> /\ pc' = "try_run" /\ eax' = zxe_validate(space)
      \/ /\ kstack' = TwoCalls /\ pc' = "run_user_program" /\ eax' = eax
  BY <1>1, Callers DEF Validate, ReturnWith, CallTo, Call
<1>3. TypeOK'
  <2>1. kstack' \in Seq(Frames)
    <3>1. CallTo("run_user_program", "zxe_run ends") => kstack' \in Seq(Frames)
      BY CallStep DEF Places
    <3>2. QED
      BY <1>1, <3>1, FrontIsStack DEF Validate, ReturnWith, TypeOK, Frames
  <2>2. eax' \in Results
    BY <1>2, ResultFacts DEF TypeOK, zxe_validate
  <2>3. QED
    BY <2>1, <2>2, <1>2 DEF TypeOK, Validate, Frames, shell, saved, memory, Places
<1>4. Outside'
  BY <1>1, <1>2 DEF Outside, Stacked, Validate
<1>5. Waits' /\ InPlace'
  BY <1>1, <1>2, <1>4, OutsideNext DEF Validate, Waits, InPlace, File, shell, memory
<1>6. QED
  BY <1>3, <1>4, <1>5, OutsideNext

LEMMA ZxeRunEndsStep ==
  ASSUME IInv, ZxeRunEnds
  PROVE  IInv'
<1> USE DEF IInv
<1>1. kstack = OneCall /\ tstack = <<>> /\ on = "kernel" /\ ifl
  BY OutsideIs DEF Outside, Stacked, ZxeRunEnds
<1>2. kstack' = <<>> /\ pc' = "try_run" /\ eax' = eax
  BY <1>1, Callers DEF ZxeRunEnds, ReturnWith
<1>3. TypeOK'
  <2>1. kstack' \in Seq(Frames)
    BY <1>2, EmptySeq
  <2>2. QED
    BY <2>1, <1>2 DEF TypeOK, ZxeRunEnds, Frames, shell, saved, memory, Places
<1>4. Outside'
  BY <1>1, <1>2 DEF Outside, Stacked, ZxeRunEnds
<1>5. Waits' /\ InPlace'
  BY <1>1, <1>2, <1>4, OutsideNext DEF ZxeRunEnds, Waits, InPlace
<1>6. QED
  BY <1>3, <1>4, <1>5, OutsideNext

LEMMA RunUserProgramStep ==
  ASSUME IInv, RunUserProgram
  PROVE  IInv'
<1> USE DEF IInv
<1>1. kstack = TwoCalls /\ tstack = <<>> /\ Thread = "run_user_program"
  BY OutsideIs DEF Outside, Stacked, RunUserProgram
<1>2. TypeOK'
  <2>1. pc' \in Places /\ saved_kernel_esp' \in 0 .. 2
    BY <1>1, Unwinding DEF RunUserProgram, StackDepth, Places
  <2>2. QED
    BY <2>1, ResultFacts DEF TypeOK, RunUserProgram, memory
<1>3. Outside'
  BY <1>1 DEF Outside, Stacked, RunUserProgram
<1>4. Waits' /\ InPlace'
  BY <1>1, <1>3, OutsideNext DEF RunUserProgram, StackDepth, Waits, InPlace, File, memory
<1>5. QED
  BY <1>2, <1>3, <1>4, OutsideNext

LEMMA IrqStep ==
  ASSUME IInv, Irq
  PROVE  IInv' /\ Thread' = Thread
<1> USE DEF IInv
<1>1. Outside /\ Thread = pc /\ pc \in Places \ {"irq"} /\ ifl = TRUE
  BY OutsideIs, AtIsPlace DEF Outside, Irq, TypeOK
<1>2. /\ kstack \in Seq(Frames) /\ tstack \in Seq(Frames) /\ <<>> \in Seq(Frames)
      /\ Frame(pc, TRUE) \in Frames
  BY <1>1 DEF TypeOK, Frames, Frame
<1>3. pc' = "irq" /\ ifl' = FALSE
  BY DEF Irq, Trap
<1>4. TypeOK'
  <2>1. /\ kstack' \in Seq(Frames) /\ tstack' \in Seq(Frames)
        /\ on' \in {"kernel", "program", "tss"}
    BY TrapStep DEF Irq, Places
  <2>2. QED
    BY <2>1, <1>3 DEF TypeOK, Irq, Frames, shell, saved, memory, Places
<1>5. /\ Top'.to = pc /\ Top'.ifl = TRUE
      /\ \/ /\ on' = "kernel" /\ on = "kernel"
            /\ Front(kstack') = kstack /\ tstack' = tstack
         \/ /\ on' = "tss" /\ on # "kernel" /\ kstack' = kstack
            /\ Front(tstack') = IF on = "program" THEN <<>> ELSE tstack
  <2>1. \A st \in Seq(Frames) :
          /\ Front(Append(st, Frame(pc, TRUE))) = st
          /\ Last(Append(st, Frame(pc, TRUE))) = Frame(pc, TRUE)
    BY <1>2, Pop
  <2>2. CASE on = "kernel"
    <3>1. kstack' = Append(kstack, Frame(pc, TRUE)) /\ tstack' = tstack /\ on' = "kernel"
      BY <2>2, <1>1 DEF Irq, Trap
    <3>2. Top' = Frame(pc, TRUE) /\ Front(kstack') = kstack
      BY <3>1, <2>1, <1>2 DEF Top
    <3>3. QED
      BY <3>1, <3>2, <2>2 DEF Frame
  <2>3. CASE on # "kernel"
    <3>1. /\ tstack' = Append(IF on = "program" THEN <<>> ELSE tstack, Frame(pc, TRUE))
          /\ kstack' = kstack /\ on' = "tss"
      BY <2>3, <1>1 DEF Irq, Trap
    <3>2. /\ Top' = Frame(pc, TRUE)
          /\ Front(tstack') = IF on = "program" THEN <<>> ELSE tstack
      BY <3>1, <2>1, <1>2 DEF Top
    <3>3. QED
      BY <3>1, <3>2, <2>3 DEF Frame
  <2>4. QED
    BY <2>2, <2>3
<1>6. AtPlace'
  BY <1>1, <1>3, <1>5 DEF AtPlace, Outside, Stacked
<1>7. Thread' = Thread
  BY <1>1, <1>3, <1>5 DEF Thread
<1>8. Waits' /\ InPlace'
  BY <1>5, <1>7 DEF Irq, Waits, InPlace, File, memory, saved, shell
<1>9. QED
  BY <1>4, <1>6, <1>7, <1>8

LEMMA IrqReturnsStep ==
  ASSUME IInv, IrqReturns
  PROVE  IInv' /\ Thread' = Thread
<1> USE DEF IInv
<1>1. pc = "irq" /\ Thread = Top.to /\ pc' = Top.to /\ ifl' = Top.ifl
  BY DEF IrqReturns, Iret, Thread
<1>2. \/ /\ on = "kernel" /\ on' = "kernel"
         /\ kstack' = Front(kstack) /\ tstack' = tstack
      \/ /\ on = "tss" /\ kstack' = kstack /\ tstack' = Front(tstack)
         /\ on' = IF Top.to = "program" THEN "program" ELSE "tss"
  BY <1>1 DEF AtPlace, IrqReturns, Iret
<1>3. Stacked(Top.to, kstack', tstack', on', TRUE) /\ Top.ifl = TRUE
  BY <1>1, <1>2 DEF AtPlace
<1>4. pc' \in Places \ {"irq"} /\ on' \in {"kernel", "program", "tss"}
  BY <1>1, <1>3, AtIsPlace
<1>5. Outside'
  BY <1>1, <1>3, <1>4 DEF Outside, Stacked
<1>6. TypeOK'
  <2>1. kstack' \in Seq(Frames) /\ tstack' \in Seq(Frames)
    BY <1>2, FrontIsStack DEF TypeOK, Frames
  <2>2. ifl' = TRUE
    BY <1>1, <1>3
  <2>3. QED
    BY <2>1, <2>2, <1>4 DEF TypeOK, IrqReturns, Frames, shell, saved, memory
<1>7. Thread' = Thread
  BY <1>1, <1>5, OutsideNext
<1>8. Waits' /\ InPlace'
  BY <1>2, <1>7 DEF IrqReturns, Waits, InPlace, File, memory, saved, shell
<1>9. QED
  BY <1>5, <1>6, <1>7, <1>8, OutsideNext

(* A system call, an exit and an exception of the program.                 *)
LEMMA EnteredStep ==
  ASSUME IInv, NEW p \in {"sys_api", "sys_exit", "isr"}, NEW i \in BOOLEAN,
         pc = "program", Trap(p, i), i = (p # "isr"),
         UNCHANGED <<memory, shell, saved, eax>>,
         ebx' \in ExitCodes \union {0}, fault' \in Faults \union {0}
  PROVE  IInv'
<1> USE DEF IInv
<1>1. /\ kstack = TwoCalls /\ tstack = <<>> /\ on = "program" /\ ifl /\ Thread = "program"
      /\ saved_kernel_esp = Len(TwoCalls)
  BY OutsideIs DEF Outside, Stacked, Waits
<1>2. ifl = TRUE
  BY <1>1 DEF TypeOK
<1>3. /\ pc' = p /\ ifl' = i /\ on' = "tss" /\ kstack' = TwoCalls
      /\ tstack' = OneTrap
  BY <1>1, <1>2, Callers DEF Trap, FromTask
<1>4. TypeOK'
  <2>1. kstack' \in Seq(Frames) /\ tstack' \in Seq(Frames)
    BY TrapStep DEF Places
  <2>2. QED
    BY <2>1, <1>3 DEF TypeOK, Frames, shell, saved, memory, Places
<1>5. Outside'
  BY <1>3 DEF Outside, Stacked
<1>6. Waits' /\ InPlace'
  BY <1>1, <1>3, <1>5, OutsideNext DEF Waits, InPlace, File, memory, saved, shell
<1>7. QED
  BY <1>4, <1>5, <1>6, OutsideNext

LEMMA SyscallReturnsStep ==
  ASSUME IInv, SyscallReturns
  PROVE  IInv'
<1> USE DEF IInv
<1>1. /\ kstack = TwoCalls /\ tstack = OneTrap /\ on = "tss" /\ Thread = "sys_api"
      /\ saved_kernel_esp = Len(TwoCalls)
  BY OutsideIs DEF Outside, Stacked, SyscallReturns, Waits
<1>2. Top = FromTask
  BY <1>1, Callers DEF Top
<1>3. /\ pc' = "program" /\ ifl' = TRUE /\ on' = "program" /\ kstack' = TwoCalls
      /\ tstack' = <<>>
  BY <1>1, <1>2, Callers DEF SyscallReturns, Iret, FromTask, Frame
<1>4. TypeOK'
  <2>1. kstack' \in Seq(Frames) /\ tstack' \in Seq(Frames)
    BY <1>1, <1>3, EmptySeq DEF TypeOK, Frames
  <2>2. QED
    BY <2>1, <1>3 DEF TypeOK, SyscallReturns, Frames, shell, saved, memory, Places
<1>5. Outside'
  BY <1>3 DEF Outside, Stacked
<1>6. Waits' /\ InPlace'
  BY <1>1, <1>3, <1>5, OutsideNext
  DEF SyscallReturns, Waits, InPlace, File, memory, saved, shell
<1>7. QED
  BY <1>4, <1>5, <1>6, OutsideNext

LEMMA ExitCodeStep ==
  ASSUME IInv, ExitCode
  PROVE  IInv'
<1> USE DEF IInv
<1>1. Outside /\ Thread = "sys_exit"
  BY OutsideIs DEF ExitCode
<1>2. TypeOK'
  BY ResultFacts DEF TypeOK, ExitCode, memory, shell, Places
<1>3. Outside'
  BY <1>1 DEF Outside, Stacked, ExitCode
<1>4. Waits' /\ InPlace'
  BY <1>1, <1>3, OutsideNext DEF ExitCode, Waits, InPlace, File, memory, shell
<1>5. QED
  BY <1>2, <1>3, <1>4, OutsideNext

(* The kernel's stack is taken back as the call of the program left it.    *)
LEMMA UnwoundStep ==
  ASSUME IInv, Outside, on = "tss", Unwound
  PROVE  /\ kstack' = TwoCalls /\ tstack' = <<>> /\ on' = "kernel"
         /\ kstack' \in Seq(Frames) /\ tstack' \in Seq(Frames)
<1>1. kstack = TwoCalls /\ saved_kernel_esp = 2
  BY Unwinding DEF IInv, Outside, Stacked, Waits
<1>2. kstack' = TwoCalls
  BY <1>1, Unwinding DEF Unwound
<1>3. QED
  BY <1>1, <1>2, EmptySeq DEF Unwound, IInv, TypeOK, Frames

LEMMA ExitUnwindsStep ==
  ASSUME IInv, ExitUnwinds
  PROVE  IInv'
<1> USE DEF IInv
<1>1. Outside /\ Thread = pc /\ on = "tss" /\ pc = "sys_exit, code stored"
  BY OutsideIs DEF ExitUnwinds, Outside, Stacked
<1>2. /\ kstack' = TwoCalls /\ tstack' = <<>> /\ on' = "kernel"
      /\ kstack' \in Seq(Frames) /\ tstack' \in Seq(Frames)
  BY <1>1, UnwoundStep DEF ExitUnwinds
<1>3. TypeOK'
  BY <1>2 DEF TypeOK, ExitUnwinds, memory, shell, saved, Places, Frames
<1>4. Outside'
  BY <1>2 DEF Outside, Stacked, ExitUnwinds
<1>5. Waits' /\ InPlace'
  BY <1>1, <1>2, <1>4, OutsideNext
  DEF ExitUnwinds, Waits, InPlace, File, memory, shell
<1>6. QED
  BY <1>3, <1>4, <1>5, OutsideNext

LEMMA ProgramReturnedStep ==
  ASSUME IInv, ProgramReturned
  PROVE  IInv'
<1> USE DEF IInv
<1>1. kstack = TwoCalls /\ tstack = <<>> /\ on = "kernel"
  BY OutsideIs DEF Outside, Stacked, ProgramReturned
<1>2. /\ kstack' = OneCall /\ pc' = "zxe_run ends" /\ eax' = saved_user_exit_code
      /\ ifl' = TRUE
  BY <1>1, Callers DEF ProgramReturned, ReturnWith, FlagAtReturn
<1>3. TypeOK'
  <2>1. kstack' \in Seq(Frames)
    BY FrontIsStack DEF ProgramReturned, ReturnWith, TypeOK, Frames
  <2>2. QED
    BY <2>1, <1>2 DEF TypeOK, ProgramReturned, Frames, shell, saved, memory, Places
<1>4. Outside'
  BY <1>1, <1>2 DEF Outside, Stacked, ProgramReturned
<1>5. Waits' /\ InPlace'
  BY <1>1, <1>2, <1>4, OutsideNext DEF ProgramReturned, Waits, InPlace
<1>6. QED
  BY <1>3, <1>4, <1>5, OutsideNext

LEMMA ExceptionStep ==
  ASSUME IInv, NEW n \in Faults, Exception(n)
  PROVE  IInv'
<1> USE DEF IInv
<1>1. CASE pc = "program"
  BY <1>1, EnteredStep DEF Exception, TypeOK
<1>2. CASE pc = "sys_api"
  <2>1. /\ kstack = TwoCalls /\ tstack = OneTrap /\ on = "tss" /\ ifl
        /\ Thread = "sys_api" /\ saved_kernel_esp = Len(TwoCalls)
    BY <1>2, OutsideIs DEF Outside, Stacked, Waits
  <2>2. ifl = TRUE
    BY <2>1 DEF TypeOK
  <2>3. /\ pc' = "isr" /\ ifl' = FALSE /\ on' = "tss" /\ kstack' = TwoCalls
        /\ tstack' = TwoTraps
    BY <1>2, <2>1, <2>2, Callers DEF Exception, Trap, FromCall
  <2>4. TypeOK'
    <3>1. kstack' \in Seq(Frames) /\ tstack' \in Seq(Frames)
      BY TrapStep DEF Exception, Places
    <3>2. QED
      BY <3>1, <2>3 DEF TypeOK, Exception, Frames, shell, saved, memory, Places
  <2>5. Outside'
    BY <2>3 DEF Outside, Stacked
  <2>6. Waits' /\ InPlace'
    BY <2>1, <2>3, <2>5, OutsideNext
    DEF Exception, Waits, InPlace, File, memory, saved, shell
  <2>7. QED
    BY <2>4, <2>5, <2>6, OutsideNext
<1>3. QED
  BY <1>1, <1>2 DEF Exception

LEMMA ExceptionHandlerStep ==
  ASSUME IInv, ExceptionHandler
  PROVE  IInv'
<1> USE DEF IInv
<1>1. Outside /\ Thread = pc /\ on = "tss" /\ pc = "isr"
  BY OutsideIs DEF ExceptionHandler, Outside, Stacked
<1>2. CASE FromProgram
  <2>1. /\ kstack' = TwoCalls /\ tstack' = <<>> /\ on' = "kernel"
        /\ kstack' \in Seq(Frames) /\ tstack' \in Seq(Frames)
    BY <1>1, <1>2, UnwoundStep DEF ExceptionHandler
  <2>2. saved_user_exit_code' \in Results
    BY <1>2, ResultFacts DEF ExceptionHandler, TypeOK
  <2>3. TypeOK'
    BY <1>2, <2>1, <2>2 DEF TypeOK, ExceptionHandler, memory, shell, Places, Frames
  <2>4. Outside'
    BY <1>2, <2>1 DEF Outside, Stacked, ExceptionHandler
  <2>5. Waits' /\ InPlace'
    BY <1>1, <1>2, <2>1, <2>4, OutsideNext
    DEF ExceptionHandler, Waits, InPlace, File, memory, shell
  <2>6. QED
    BY <2>3, <2>4, <2>5, OutsideNext
<1>3. CASE ~FromProgram
  <2>1. tstack = TwoTraps /\ kstack = TwoCalls /\ ~ifl
    <3>1. Last(OneTrap).to = "program"
      BY Callers DEF FromTask, Frame
    <3>2. QED
      BY <1>1, <1>3, <3>1 DEF FromProgram, Top, Outside, Stacked
  <2>2. TypeOK'
    BY <1>3 DEF TypeOK, ExceptionHandler, memory, shell, Places
  <2>3. Outside'
    BY <1>1, <1>3, <2>1 DEF Outside, Stacked, ExceptionHandler
  <2>4. Waits' /\ InPlace'
    BY <1>1, <1>3, <2>1, <2>3, OutsideNext
    DEF ExceptionHandler, Waits, InPlace, File, memory, shell
  <2>5. QED
    BY <2>2, <2>3, <2>4, OutsideNext
<1>4. QED
  BY <1>2, <1>3

-----------------------------------------------------------------------------
LEMMA ExecStep ==
  ASSUME IInv, [Next]_vars
  PROVE  IInv'
<1>1. ASSUME NEW cmd \in Commands, Execute(cmd) PROVE IInv'
  BY <1>1, ExecuteStep
<1>2. CASE KernelStep
  BY <1>2, TryRunStep, LoadStep, ValidateStep, RunUserProgramStep, ZxeRunEndsStep,
     ExitCodeStep, ExitUnwindsStep, ProgramReturnedStep, ExceptionHandlerStep
  DEF KernelStep
<1>3. CASE Irq \/ IrqReturns
  BY <1>3, IrqStep, IrqReturnsStep
<1>4. CASE Syscall
  <2>1. ifl = TRUE
    BY <1>4, OutsideIs DEF Syscall, Outside, Stacked, IInv, TypeOK
  <2>2. QED
    BY <1>4, <2>1, EnteredStep DEF Syscall, IInv, TypeOK
<1>5. CASE SyscallReturns
  BY <1>5, SyscallReturnsStep
<1>6. ASSUME NEW code \in ExitCodes, Exit(code) PROVE IInv'
  <2>1. ifl = TRUE
    BY <1>6, OutsideIs DEF Exit, Outside, Stacked, IInv, TypeOK
  <2>2. QED
    BY <1>6, <2>1, EnteredStep DEF Exit, IInv, TypeOK
<1>7. ASSUME NEW n \in Faults, Exception(n) PROVE IInv'
  BY <1>7, ExceptionStep
<1>8. CASE UNCHANGED vars
  BY <1>8 DEF vars, memory, cpu, shell, saved, IInv, TypeOK, AtPlace, Top, Waits, InPlace,
     Thread, File
<1>9. QED
  BY <1>1, <1>2, <1>3, <1>4, <1>5, <1>6, <1>7, <1>8 DEF Next

(***************************************************************************)
(* The inductive invariant holds in every reachable state.                 *)
(***************************************************************************)
THEOREM ExecInvariant == Spec => []IInv
<1>1. Init => IInv
  BY ExecInit
<1>2. IInv /\ [Next]_vars => IInv'
  BY ExecStep
<1>3. QED
  BY <1>1, <1>2, PTL DEF Spec

(***************************************************************************)
(* Whatever programs were run, exited or faulted, and wherever interrupts  *)
(* came: at the prompt nothing is left on the kernel's stack, and while a  *)
(* program runs the saved stack pointer is that of the call that waits.    *)
(***************************************************************************)
THEOREM StacksAreBalanced == Spec => []Balanced
<1>1. ASSUME IInv PROVE Balanced
  <2>1. TypeOK
    BY <1>1 DEF IInv
  <2>2. Thread = "prompt" => ThreadFrames = <<>> /\ (pc = "prompt" => ifl)
    BY <1>1 DEF IInv, AtPlace, Stacked, Thread, ThreadFrames
  <2>3. on # "kernel" => kstack = TwoCalls
    BY <1>1 DEF IInv, AtPlace, Stacked
  <2>4. on # "kernel" => saved_kernel_esp = Len(kstack)
    BY <1>1, <2>3 DEF IInv, Waits
  <2>5. QED
    BY <2>1, <2>2, <2>3, <2>4 DEF Balanced, TwoCalls
<1>2. QED
  BY <1>1, ExecInvariant, PTL

(***************************************************************************)
(* The program that runs is the one in the file that the search found,     *)
(* unless that file is too short for a header.                             *)
(***************************************************************************)
THEOREM TheFileRuns == Spec => []RunsItsFile
<1>1. ASSUME IInv PROVE RunsItsFile
  BY <1>1 DEF IInv, AtPlace, Stacked, Thread, InPlace, RunsItsFile
<1>2. QED
  BY <1>1, ExecInvariant, PTL

-----------------------------------------------------------------------------
(* The Runner.  A program may exit with any code but those that zxe_run    *)
(* uses for its own errors, which try_run cannot tell apart.               *)
NoErrorCodes ==
  ExitCodes \intersect {ZXE_ERROR, ZXE_NOT_FOUND, ZXE_INVALID, ZXE_TOO_LARGE} = {}

EndCodes == ExitCodes \union {FaultCode(n) : n \in Faults}

Errors == {ZXE_ERROR, ZXE_NOT_FOUND, ZXE_INVALID, ZXE_TOO_LARGE}

(* Where the code of the program is on its way to the shell.               *)
CodeOnItsWay ==
  /\ Thread \in {"zxe_run", "validate", "run_user_program"} => ~ran
  /\ Thread \in {"program", "sys_api", "sys_exit", "sys_exit, code stored", "isr",
                 "panic", "program returned", "zxe_run ends"} => ran
  /\ Thread = "try_run" => eax \in (IF ran THEN EndCodes ELSE Errors)
  /\ Thread = "sys_exit" => ebx \in ExitCodes
  /\ Thread = "isr" => fault \in Faults
  /\ Thread \in {"sys_exit, code stored", "program returned"}
       => saved_user_exit_code \in EndCodes
  /\ Thread = "zxe_run ends" => eax \in EndCodes

RInv == IInv /\ CodeOnItsWay

LEMMA CodesAreNoErrors ==
  ASSUME NoErrorCodes
  PROVE  \A r \in EndCodes : r \notin Errors /\ Message(r) = "nothing"
<1>1. \A n \in Faults : FaultCode(n) \notin Errors
  BY ExecAssumption, SMT
  DEF ExecAssumption, FaultCode, Errors, ZXE_ERROR, ZXE_NOT_FOUND, ZXE_INVALID, ZXE_TOO_LARGE
<1>2. \A r \in EndCodes : r \notin Errors
  BY <1>1 DEF NoErrorCodes, EndCodes, Errors
<1>3. QED
  BY <1>2 DEF Errors, Message

LEMMA ErrorMessages ==
  ASSUME NEW r \in Errors
  PROVE  Message(r) \in RunnerAbs!Refusals
BY DEF Errors, Message, RunnerAbs!Refusals

(* What the Runner sees, place by place.                                   *)
LEMMA PhaseOf ==
  ASSUME RInv
  PROVE  /\ Thread \in {"zxe_run", "validate", "run_user_program"}
              => Phase = "loading" /\ Result = "none"
         /\ Thread = "prompt" => Phase = "shell" /\ Result = "none"
         /\ Thread = "panic" => Phase = "down" /\ Result = "none"
         /\ Thread \in {"program", "sys_api"} => Phase = "running" /\ Result = "none"
         /\ Thread = "isr" /\ Top.to # "program" => Phase = "running" /\ Result = "none"
         /\ Thread = "isr" /\ Top.to = "program"
              => Phase = "ended" /\ Result = FaultCode(fault)
         /\ Thread = "sys_exit" => Phase = "ended" /\ Result = ebx
         /\ Thread \in {"sys_exit, code stored", "program returned"}
              => Phase = "ended" /\ Result = saved_user_exit_code
         /\ Thread = "zxe_run ends" \/ (Thread = "try_run" /\ ran)
              => Phase = "ended" /\ Result = eax
         /\ Thread = "try_run" /\ ~ran => Phase = "loading" /\ Result = "none"
BY DEF RInv, CodeOnItsWay, Phase, Result

LEMMA PhaseOfNext ==
  ASSUME RInv'
  PROVE  /\ Thread' \in {"zxe_run", "validate", "run_user_program"}
              => Phase' = "loading" /\ Result' = "none"
         /\ Thread' = "prompt" => Phase' = "shell" /\ Result' = "none"
         /\ Thread' = "panic" => Phase' = "down" /\ Result' = "none"
         /\ Thread' \in {"program", "sys_api"} => Phase' = "running" /\ Result' = "none"
         /\ Thread' = "isr" /\ Top'.to # "program" => Phase' = "running" /\ Result' = "none"
         /\ Thread' = "isr" /\ Top'.to = "program"
              => Phase' = "ended" /\ Result' = FaultCode(fault')
         /\ Thread' = "sys_exit" => Phase' = "ended" /\ Result' = ebx'
         /\ Thread' \in {"sys_exit, code stored", "program returned"}
              => Phase' = "ended" /\ Result' = saved_user_exit_code'
         /\ Thread' = "zxe_run ends" \/ (Thread' = "try_run" /\ ran')
              => Phase' = "ended" /\ Result' = eax'
         /\ Thread' = "try_run" /\ ~ran' => Phase' = "loading" /\ Result' = "none"
BY DEF RInv, CodeOnItsWay, Phase, Result

(* Outside a handler, the thread is where the processor is.                *)
LEMMA Around ==
  ASSUME IInv, IInv'
  PROVE  /\ pc # "irq" => Thread = pc /\ Stacked(pc, kstack, tstack, on, ifl)
         /\ pc' # "irq" => Thread' = pc' /\ Stacked(pc', kstack', tstack', on', ifl')
BY DEF IInv, AtPlace, Thread

AbstractStep == RunnerAbs!Next \/ UNCHANGED <<Phase, Result, told>>

LEMMA ExecuteMaps ==
  ASSUME RInv, IInv', NEW cmd \in Commands, Execute(cmd)
  PROVE  CodeOnItsWay' /\ AbstractStep
<1>1. Thread = "prompt" /\ Thread' = "zxe_run" /\ ran' = FALSE /\ told' = told
  BY Around DEF RInv, Execute, CallTo
<1>2. CodeOnItsWay'
  BY <1>1 DEF CodeOnItsWay
<1>3. /\ Phase = "shell" /\ Result = "none"
      /\ Phase' = "loading" /\ Result' = "none"
  BY <1>1, <1>2, PhaseOf, PhaseOfNext DEF RInv
<1>4. QED
  BY <1>1, <1>2, <1>3 DEF AbstractStep, RunnerAbs!Next, RunnerAbs!Ask

LEMMA TryRunMaps ==
  ASSUME NoErrorCodes, RInv, IInv', TryRun
  PROVE  CodeOnItsWay' /\ AbstractStep
<1>1. Thread = "try_run" /\ Thread' \in {"prompt", "zxe_run"} /\ ran' = ran
  BY Around DEF RInv, TryRun, CallTo
<1>2. CASE Thread' = "zxe_run"
  <2>1. eax = ZXE_NOT_FOUND /\ told' = told
    BY <1>1, <1>2, Around DEF RInv, TryRun
  <2>2. ~ran
    BY <1>1, <2>1, CodesAreNoErrors DEF RInv, CodeOnItsWay, Errors
  <2>3. CodeOnItsWay'
    BY <1>1, <1>2, <2>2 DEF CodeOnItsWay
  <2>4. /\ Phase = "loading" /\ Result = "none"
        /\ Phase' = "loading" /\ Result' = "none"
    BY <1>1, <1>2, <2>2, <2>3, PhaseOf, PhaseOfNext DEF RInv
  <2>5. QED
    BY <2>1, <2>3, <2>4 DEF AbstractStep
<1>3. CASE Thread' = "prompt"
  <2>1. told' = Message(eax)
    BY <1>3, Around DEF RInv, TryRun, CallTo
  <2>2. CodeOnItsWay'
    BY <1>3 DEF CodeOnItsWay
  <2>3. Phase' = "shell" /\ Result' = "none"
    BY <1>3, <2>2, PhaseOfNext DEF RInv
  <2>4. CASE ran
    <3>1. Message(eax) = "nothing" /\ Phase = "ended"
      BY <1>1, <2>4, CodesAreNoErrors, PhaseOf DEF RInv, CodeOnItsWay
    <3>2. QED
      BY <2>1, <2>2, <2>3, <3>1
      DEF AbstractStep, RunnerAbs!Next, RunnerAbs!Back, RunnerAbs!NoResult
  <2>5. CASE ~ran
    <3>1. Message(eax) \in RunnerAbs!Refusals /\ Phase = "loading" /\ Result = "none"
      BY <1>1, <2>5, ErrorMessages, PhaseOf DEF RInv, CodeOnItsWay
    <3>2. RunnerAbs!Refuse(told')
      BY <2>1, <2>3, <3>1 DEF RunnerAbs!Refuse
    <3>3. QED
      BY <2>1, <2>2, <3>1, <3>2 DEF AbstractStep, RunnerAbs!Next
  <2>6. QED
    BY <2>4, <2>5
<1>4. QED
  BY <1>1, <1>2, <1>3

LEMMA LoadMaps ==
  ASSUME RInv, IInv', Load
  PROVE  CodeOnItsWay' /\ AbstractStep
<1>1. /\ Thread = "zxe_run" /\ kstack = OneCall /\ ~ran /\ ran' = ran /\ told' = told
  BY Around DEF RInv, Load, Stacked, CodeOnItsWay, shell
<1>2. \/ Thread' = "try_run" /\ eax' \in Errors
      \/ Thread' = "validate"
  BY <1>1, Callers, Around DEF RInv, Load, ReturnWith, Errors
<1>3. CodeOnItsWay'
  BY <1>1, <1>2 DEF CodeOnItsWay
<1>4. /\ Phase = "loading" /\ Result = "none"
      /\ Phase' = "loading" /\ Result' = "none"
  BY <1>1, <1>2, <1>3, PhaseOf, PhaseOfNext DEF RInv
<1>5. QED
  BY <1>1, <1>3, <1>4 DEF AbstractStep

LEMMA ValidateMaps ==
  ASSUME RInv, IInv', Validate
  PROVE  CodeOnItsWay' /\ AbstractStep
<1>1. /\ Thread = "validate" /\ kstack = OneCall /\ ~ran /\ ran' = ran /\ told' = told
  BY Around DEF RInv, Validate, Stacked, CodeOnItsWay, shell
<1>2. \/ Thread' = "try_run" /\ eax' \in Errors
      \/ Thread' = "run_user_program"
  <2>1. zxe_validate(space) = ZXE_OK \/ zxe_validate(space) \in Errors
    BY DEF zxe_validate, Errors
  <2>2. QED
    BY <1>1, <2>1, Callers, Around DEF RInv, Validate, ReturnWith, CallTo
<1>3. CodeOnItsWay'
  BY <1>1, <1>2 DEF CodeOnItsWay
<1>4. /\ Phase = "loading" /\ Result = "none"
      /\ Phase' = "loading" /\ Result' = "none"
  BY <1>1, <1>2, <1>3, PhaseOf, PhaseOfNext DEF RInv
<1>5. QED
  BY <1>1, <1>3, <1>4 DEF AbstractStep

LEMMA RunUserProgramMaps ==
  ASSUME RInv, IInv', RunUserProgram
  PROVE  CodeOnItsWay' /\ AbstractStep
<1>1. /\ Thread = "run_user_program" /\ Thread' = "program" /\ ran' /\ told' = told
  BY Around DEF RInv, RunUserProgram
<1>2. CodeOnItsWay'
  BY <1>1 DEF CodeOnItsWay
<1>3. /\ Phase = "loading" /\ Result = "none"
      /\ Phase' = "running" /\ Result' = "none"
  BY <1>1, <1>2, PhaseOf, PhaseOfNext DEF RInv
<1>4. QED
  BY <1>1, <1>2, <1>3 DEF AbstractStep, RunnerAbs!Next, RunnerAbs!Begin

LEMMA ZxeRunEndsMaps ==
  ASSUME RInv, IInv', ZxeRunEnds
  PROVE  CodeOnItsWay' /\ AbstractStep
<1>1. /\ Thread = "zxe_run ends" /\ kstack = OneCall /\ ran /\ ran' = ran /\ told' = told
  BY Around DEF RInv, ZxeRunEnds, Stacked, CodeOnItsWay, shell
<1>2. Thread' = "try_run" /\ eax' = eax
  BY <1>1, Callers, Around DEF RInv, ZxeRunEnds, ReturnWith
<1>3. CodeOnItsWay'
  BY <1>1, <1>2 DEF CodeOnItsWay, RInv
<1>4. /\ Phase = "ended" /\ Result = eax
      /\ Phase' = "ended" /\ Result' = eax'
  BY <1>1, <1>2, <1>3, PhaseOf, PhaseOfNext DEF RInv
<1>5. QED
  BY <1>1, <1>2, <1>3, <1>4 DEF AbstractStep

(* An interrupt and its end change nothing the shell can see.  None comes  *)
(* in an exception, whose entry turns them off.                            *)
LEMMA IrqMaps ==
  ASSUME RInv, IInv', Irq \/ IrqReturns
  PROVE  CodeOnItsWay' /\ AbstractStep
<1>1. /\ Thread' = Thread /\ ran' = ran /\ told' = told /\ eax' = eax /\ ebx' = ebx
      /\ fault' = fault /\ saved_user_exit_code' = saved_user_exit_code
  BY IrqStep, IrqReturnsStep DEF RInv, Irq, IrqReturns, shell, saved
<1>2. Thread # "isr"
  BY DEF RInv, IInv, AtPlace, Stacked, Thread, Irq, IrqReturns
<1>3. CodeOnItsWay'
  BY <1>1 DEF RInv, CodeOnItsWay
<1>4. Phase' = Phase /\ Result' = Result
  BY <1>1, <1>2 DEF Phase, Result
<1>5. QED
  BY <1>1, <1>3, <1>4 DEF AbstractStep

LEMMA SyscallMaps ==
  ASSUME RInv, IInv', Syscall \/ SyscallReturns
  PROVE  CodeOnItsWay' /\ AbstractStep
<1>1. /\ Thread \in {"program", "sys_api"} /\ ran /\ ran' = ran /\ told' = told
  BY Around DEF RInv, Syscall, SyscallReturns, CodeOnItsWay, shell
<1>2. Thread' \in {"program", "sys_api"}
  <2>1. CASE Syscall
    BY <2>1, Around DEF Syscall, Trap, RInv
  <2>2. CASE SyscallReturns
    <3>1. tstack = OneTrap /\ on = "tss"
      BY <2>2, Around DEF RInv, Stacked, SyscallReturns
    <3>2. QED
      BY <2>2, <3>1, Callers, Around DEF SyscallReturns, Iret, Top, RInv
  <2>3. QED
    BY <2>1, <2>2
<1>3. CodeOnItsWay'
  BY <1>1, <1>2 DEF CodeOnItsWay
<1>4. /\ Phase = "running" /\ Result = "none"
      /\ Phase' = "running" /\ Result' = "none"
  BY <1>1, <1>2, <1>3, PhaseOf, PhaseOfNext DEF RInv
<1>5. QED
  BY <1>1, <1>3, <1>4 DEF AbstractStep

LEMMA ExitMaps ==
  ASSUME RInv, IInv', NEW code \in ExitCodes, Exit(code)
  PROVE  CodeOnItsWay' /\ AbstractStep
<1>1. /\ Thread = "program" /\ Thread' = "sys_exit" /\ ran /\ ran' = ran /\ told' = told
      /\ ebx' = code
  BY Around DEF RInv, Exit, Trap, CodeOnItsWay, shell
<1>2. CodeOnItsWay'
  BY <1>1 DEF CodeOnItsWay
<1>3. /\ Phase = "running" /\ Result = "none"
      /\ Phase' = "ended" /\ Result' = code
  BY <1>1, <1>2, PhaseOf, PhaseOfNext DEF RInv
<1>4. RunnerAbs!Finish(code)
  BY <1>1, <1>3 DEF RunnerAbs!Finish
<1>5. QED
  BY <1>2, <1>4 DEF AbstractStep, RunnerAbs!Next

LEMMA ExitCodeMaps ==
  ASSUME RInv, IInv', ExitCode \/ ExitUnwinds
  PROVE  CodeOnItsWay' /\ AbstractStep
<1>1. ran /\ ran' = ran /\ told' = told
  BY Around DEF RInv, ExitCode, ExitUnwinds, CodeOnItsWay, shell
<1>2. CASE ExitCode
  <2>1. /\ Thread = "sys_exit" /\ Thread' = "sys_exit, code stored"
        /\ saved_user_exit_code' = ebx /\ ebx \in ExitCodes
    BY <1>2, Around DEF RInv, ExitCode, CodeOnItsWay
  <2>2. CodeOnItsWay'
    BY <1>1, <2>1 DEF CodeOnItsWay, EndCodes
  <2>3. /\ Phase = "ended" /\ Result = ebx
        /\ Phase' = "ended" /\ Result' = saved_user_exit_code'
    BY <2>1, <2>2, PhaseOf, PhaseOfNext DEF RInv
  <2>4. QED
    BY <1>1, <2>1, <2>2, <2>3 DEF AbstractStep
<1>3. CASE ExitUnwinds
  <2>1. /\ Thread = "sys_exit, code stored" /\ Thread' = "program returned"
        /\ saved_user_exit_code' = saved_user_exit_code
    BY <1>3, Around DEF RInv, ExitUnwinds, saved
  <2>2. CodeOnItsWay'
    BY <1>1, <2>1 DEF RInv, CodeOnItsWay
  <2>3. /\ Phase = "ended" /\ Result = saved_user_exit_code
        /\ Phase' = "ended" /\ Result' = saved_user_exit_code'
    BY <2>1, <2>2, PhaseOf, PhaseOfNext DEF RInv
  <2>4. QED
    BY <1>1, <2>1, <2>2, <2>3 DEF AbstractStep
<1>4. QED
  BY <1>2, <1>3

LEMMA ProgramReturnedMaps ==
  ASSUME RInv, IInv', ProgramReturned
  PROVE  CodeOnItsWay' /\ AbstractStep
<1>1. /\ Thread = "program returned" /\ kstack = TwoCalls /\ ran /\ ran' = ran
      /\ told' = told /\ saved_user_exit_code \in EndCodes
  BY Around DEF RInv, ProgramReturned, Stacked, CodeOnItsWay, shell
<1>2. Thread' = "zxe_run ends" /\ eax' = saved_user_exit_code
  BY <1>1, Callers, Around DEF RInv, ProgramReturned, ReturnWith
<1>3. CodeOnItsWay'
  BY <1>1, <1>2 DEF CodeOnItsWay
<1>4. /\ Phase = "ended" /\ Result = saved_user_exit_code
      /\ Phase' = "ended" /\ Result' = eax'
  BY <1>1, <1>2, <1>3, PhaseOf, PhaseOfNext DEF RInv
<1>5. QED
  BY <1>1, <1>2, <1>3, <1>4 DEF AbstractStep

LEMMA ExceptionMaps ==
  ASSUME RInv, IInv', NEW n \in Faults, Exception(n)
  PROVE  CodeOnItsWay' /\ AbstractStep
<1>1. /\ Thread = pc /\ pc \in {"program", "sys_api"} /\ Thread' = "isr"
      /\ ran /\ ran' = ran /\ told' = told /\ fault' = n /\ on # "kernel"
      /\ Phase = "running" /\ Result = "none"
  BY Around, PhaseOf DEF RInv, Exception, Trap, CodeOnItsWay, shell, Stacked
<1>2. CodeOnItsWay'
  BY <1>1 DEF CodeOnItsWay
<1>3. Top'.to = pc
  <2>1. tstack \in Seq(Frames) /\ <<>> \in Seq(Frames) /\ Frame(pc, ifl) \in Frames
    BY DEF RInv, IInv, TypeOK, Frames, Frame
  <2>2. on' = "tss" /\ tstack' = Append(IF on = "program" THEN <<>> ELSE tstack, Frame(pc, ifl))
    BY <1>1 DEF Exception, Trap
  <2>3. Last(tstack') = Frame(pc, ifl)
    BY <2>1, <2>2, Pop
  <2>4. QED
    BY <2>2, <2>3 DEF Top, Frame
<1>4. CASE pc = "program"
  <2>1. Phase' = "ended" /\ Result' = FaultCode(n)
    BY <1>1, <1>2, <1>3, <1>4, PhaseOfNext DEF RInv
  <2>2. RunnerAbs!Finish(FaultCode(n))
    BY <1>1, <2>1 DEF RunnerAbs!Finish
  <2>3. QED
    BY <1>2, <2>2 DEF AbstractStep, RunnerAbs!Next
<1>5. CASE pc = "sys_api"
  <2>1. Phase' = "running" /\ Result' = "none"
    BY <1>1, <1>2, <1>3, <1>5, PhaseOfNext DEF RInv
  <2>2. QED
    BY <1>1, <1>2, <2>1 DEF AbstractStep
<1>6. QED
  BY <1>1, <1>4, <1>5

LEMMA ExceptionHandlerMaps ==
  ASSUME RInv, IInv', ExceptionHandler
  PROVE  CodeOnItsWay' /\ AbstractStep
<1>1. /\ Thread = "isr" /\ ran /\ ran' = ran /\ told' = told /\ fault \in Faults
  BY Around DEF RInv, ExceptionHandler, CodeOnItsWay, shell
<1>2. CASE FromProgram
  <2>1. Thread' = "program returned" /\ saved_user_exit_code' = FaultCode(fault)
    BY <1>2, Around DEF RInv, ExceptionHandler
  <2>2. CodeOnItsWay'
    BY <1>1, <2>1 DEF CodeOnItsWay, EndCodes
  <2>3. /\ Phase = "ended" /\ Result = FaultCode(fault)
        /\ Phase' = "ended" /\ Result' = saved_user_exit_code'
    BY <1>1, <1>2, <2>1, <2>2, PhaseOf, PhaseOfNext DEF RInv, FromProgram
  <2>4. QED
    BY <1>1, <2>1, <2>2, <2>3 DEF AbstractStep
<1>3. CASE ~FromProgram
  <2>1. Thread' = "panic"
    BY <1>3, Around DEF RInv, ExceptionHandler
  <2>2. CodeOnItsWay'
    BY <1>1, <2>1 DEF CodeOnItsWay
  <2>3. /\ Phase = "running" /\ Result = "none"
        /\ Phase' = "down" /\ Result' = "none"
    BY <1>1, <1>3, <2>1, <2>2, PhaseOf, PhaseOfNext DEF RInv, FromProgram
  <2>4. QED
    BY <1>1, <2>2, <2>3 DEF AbstractStep, RunnerAbs!Next, RunnerAbs!Stop
<1>4. QED
  BY <1>2, <1>3

LEMMA RunnerStep ==
  ASSUME NoErrorCodes, RInv, [Next]_vars
  PROVE  RInv' /\ AbstractStep
<1>1. IInv'
  BY ExecStep DEF RInv
<1>2. CASE UNCHANGED vars
  <2>1. CodeOnItsWay'
    BY <1>2 DEF vars, memory, cpu, shell, saved, RInv, CodeOnItsWay, Thread, Top
  <2>2. UNCHANGED <<Phase, Result, told>>
    BY <1>2 DEF vars, memory, cpu, shell, saved, Phase, Result, Thread, Top
  <2>3. QED
    BY <1>1, <2>1, <2>2 DEF RInv, AbstractStep
<1>3. CASE Next
  <2>1. CodeOnItsWay' /\ AbstractStep
    BY <1>1, <1>3, ExecuteMaps, TryRunMaps, LoadMaps, ValidateMaps, RunUserProgramMaps,
       ZxeRunEndsMaps, IrqMaps, SyscallMaps, ExitMaps, ExitCodeMaps, ProgramReturnedMaps,
       ExceptionMaps, ExceptionHandlerMaps
    DEF Next, KernelStep
  <2>2. QED
    BY <1>1, <2>1 DEF RInv
<1>4. QED
  BY <1>2, <1>3

(***************************************************************************)
(* Every command is refused with a message, or runs one program whose exit *)
(* code or exception reaches the shell unchanged, and comes back once, for *)
(* exit codes that are not those of zxe_run's own errors.                  *)
(***************************************************************************)
THEOREM ExecImplementsRunner ==
  ASSUME NoErrorCodes
  PROVE  Spec => ImplementsRunner
<1>1. Init => RInv /\ RunnerAbs!Init
  <2> SUFFICES ASSUME Init PROVE RInv /\ RunnerAbs!Init
    OBVIOUS
  <2>1. Thread = "prompt" /\ told = "nothing"
    BY DEF Init, Thread
  <2>2. RInv
    BY <2>1, ExecInit DEF RInv, CodeOnItsWay
  <2>3. QED
    BY <2>1, <2>2, PhaseOf DEF RunnerAbs!Init, RunnerAbs!NoResult
<1>2. RInv /\ [Next]_vars => RInv' /\ [RunnerAbs!Next]_(RunnerAbs!vars)
  BY RunnerStep DEF AbstractStep, RunnerAbs!vars
<1>3. QED
  BY <1>1, <1>2, PTL DEF Spec, ImplementsRunner, RunnerAbs!Spec

-----------------------------------------------------------------------------
(***************************************************************************)
(* Directories, for every set of names and every way to cut them.  A name  *)
(* may have a file and a directory in the root, but the file is in front   *)
(* of it, where every search finds it first.                               *)
(***************************************************************************)
Entries == [kind : {"dir", "file"}, name : Shorts]

FileFirst ==
  \A i, j \in DOMAIN root :
    root[i].kind = "file" /\ root[j].name = root[i].name => i <= j

CwdThere == cwd # <<>> /\ Short[cwd[1]] \notin lost => IsDir(Short[cwd[1]])

DirInv == DirTypes /\ FileFirst /\ CwdThere

(* A search finds the first entry of a name.                               *)
LEMMA EntryOfFirst ==
  ASSUME root \in Seq(Entries), NEW name
  PROVE  /\ EntryOf(name) = 0 => \A i \in DOMAIN root : root[i].name # name
         /\ EntryOf(name) # 0 =>
              /\ EntryOf(name) \in DOMAIN root /\ root[EntryOf(name)].name = name
              /\ \A i \in DOMAIN root : root[i].name = name => EntryOf(name) <= i
<1> DEFINE I == {i \in 1 .. Len(root) : root[i].name = name}
<1>1. EntryOf(name) = IF I # {} THEN Min(I) ELSE 0
  BY DEF EntryOf, SelectInSeq
<1>2. Len(root) \in Nat /\ DOMAIN root = 1 .. Len(root)
  BY LenProperties
<1>3. CASE I = {}
  BY <1>1, <1>2, <1>3
<1>4. CASE I # {}
  <2>1. IsWellFoundedOn(OpToRel(<, Nat), Nat)
    BY NatLessThanWellFounded
  <2>2. I \subseteq Nat
    BY <1>2
  <2>3. PICK x \in I : \A y \in I : <<y, x>> \notin OpToRel(<, Nat)
    <3> HIDE DEF I
    <3> QED
      BY <1>4, <2>1, <2>2, WFMin
  <2>4. \A y \in I : x <= y
    <3> SUFFICES ASSUME NEW y \in I, y < x PROVE FALSE
      BY <2>2
    <3>1. <<y, x>> \in OpToRel(<, Nat)
      BY ONLY x \in Nat, y \in Nat, y < x DEF OpToRel
    <3> QED
      BY <2>3, <3>1
  <2>5. Min(I) \in I /\ \A y \in I : Min(I) <= y
    <3> HIDE DEF I
    <3> QED
      BY <2>4 DEF Min
  <2> QED
    BY <1>1, <1>2, <1>4, <2>5
<1> QED
  BY <1>3, <1>4

LEMMA IsDirIs ==
  ASSUME root \in Seq(Entries), NEW n
  PROVE  IsDir(n) <=> \E i \in DOMAIN root : root[i].kind = "dir" /\ root[i].name = n
<1>1. Len(root) \in Nat /\ DOMAIN root = 1 .. Len(root) /\ \A i \in DOMAIN root : root[i] \in Entries
  BY LenProperties, ElementOfSeq
<1>2. \A i \in DOMAIN root :
        root[i] = Entry("dir", n) <=> root[i].kind = "dir" /\ root[i].name = n
  BY <1>1 DEF Entry, Entries
<1> QED
  BY <1>1, <1>2 DEF IsDir, Contains

LEMMA FileIs ==
  ASSUME root \in Seq(Entries), NEW n
  PROVE  Contains(root, Entry("file", n))
           <=> \E i \in DOMAIN root : root[i] = Entry("file", n)
<1>1. Len(root) \in Nat /\ DOMAIN root = 1 .. Len(root)
  BY LenProperties
<1> QED
  BY <1>1 DEF Contains

(* ls lists what cat and the start of a program find.                      *)
LEMMA ListedIsFound ==
  ASSUME DirTypes, FileFirst, NEW name \in Typed, Short[name] \in Listed
  PROVE  Found(Here(name)) = Entry("file", Short[name])
<1>0. root \in Seq(Entries)
  BY DEF DirTypes, Entries
<1>1. CASE cwd = <<>>
  <2>1. Contains(root, Entry("file", Short[name]))
    BY <1>1 DEF Listed
  <2>2. PICK i \in DOMAIN root : root[i] = Entry("file", Short[name])
    BY <1>0, <2>1, FileIs
  <2>3. root[i].kind = "file" /\ root[i].name = Short[name]
    BY <2>2 DEF Entry
  <2> DEFINE k == EntryOf(Short[name])
  <2>4. k # 0 /\ k \in DOMAIN root /\ root[k].name = Short[name] /\ k <= i
    BY <1>0, <2>3, EntryOfFirst
  <2>5. i <= k
    BY <2>3, <2>4 DEF FileFirst
  <2>6. k = i
    <3> HIDE DEF k
    <3>1. Len(root) \in Nat /\ DOMAIN root = 1 .. Len(root)
      BY <1>0, LenProperties
    <3> QED
      BY <2>4, <2>5, <3>1
  <2>7. Here(name) = <<Short[name]>>
    BY <1>1 DEF Here
  <2> QED
    BY <2>2, <2>4, <2>6, <2>7 DEF Found
<1>2. CASE cwd # <<>>
  <2>1. IsDir(Short[cwd[1]]) /\ Short[name] \in inside[Short[cwd[1]]]
    BY <1>2 DEF Listed
  <2>2. Here(name) = <<Short[cwd[1]], Short[name]>>
    BY <1>2 DEF Here
  <2> QED
    BY <2>1, <2>2 DEF Found
<1> QED
  BY <1>1, <1>2

LEMMA DirInit == ShellInit => DirInv
<1> SUFFICES ASSUME ShellInit PROVE DirInv
  OBVIOUS
<1> USE DEF ShellInit
<1>1. Entry("dir", Conf) \in Entries /\ Shorts # {}
  BY ShellAssumption DEF Entry, Entries
<1>2. root \in Seq(Entries) /\ Len(root) = 1
  BY <1>1
<1>3. inside \in [Shorts -> SUBSET Shorts] /\ lost \subseteq Shorts
  OBVIOUS
<1>4. DirTypes
  BY <1>2, <1>3, ShellAssumption DEF DirTypes, Entries
<1>5. FileFirst
  BY DEF FileFirst, Entry
<1>6. CwdThere
  BY DEF CwdThere
<1> QED
  BY <1>4, <1>5, <1>6 DEF DirInv

-----------------------------------------------------------------------------
(* The commands, one by one.                                               *)
LEMMA NamesShort ==
  ASSUME NEW n \in Typed PROVE Short[n] \in Shorts
BY ShellAssumption

LEMMA SameDirs ==
  ASSUME DirInv, UNCHANGED <<root, cwd, lost>>,
         inside' \in [Shorts -> SUBSET Shorts]
  PROVE  DirInv'
BY DEF DirInv, DirTypes, FileFirst, CwdThere, IsDir, Contains

LEMMA GoesThere ==
  ASSUME DirInv, NEW n \in Typed, Found(<<Short[n]>>).kind = "dir",
         cwd' = <<n>>, UNCHANGED <<root, inside, lost>>
  PROVE  DirInv'
<1>0. root \in Seq(Entries)
  BY DEF DirInv, DirTypes, Entries
<1> DEFINE k == EntryOf(Short[n])
<1>1. Found(<<Short[n]>>) = IF k = 0 THEN Missing ELSE root[k]
  BY DEF Found
<1>2. k # 0 /\ root[k].kind = "dir"
  BY <1>1 DEF Missing
<1>3. IsDir(Short[n])
  BY <1>0, <1>2, EntryOfFirst, IsDirIs
<1>4. DirTypes'
  BY DEF DirInv, DirTypes
<1>5. FileFirst'
  BY DEF DirInv, FileFirst
<1>6. CwdThere'
  BY <1>3 DEF CwdThere, IsDir, Contains
<1> QED
  BY <1>4, <1>5, <1>6 DEF DirInv

LEMMA GoesToRoot ==
  ASSUME DirInv, cwd' = <<>>, UNCHANGED <<root, inside, lost>>
  PROVE  DirInv'
BY DEF DirInv, DirTypes, FileFirst, CwdThere

LEMMA CdKeeps ==
  ASSUME DirInv, NEW target \in Typed \cup {"/", ".."}, Cd(target)
  PROVE  DirInv'
<1>1. CASE cwd' = <<>>
  BY <1>1, GoesToRoot DEF Cd
<1>2. CASE cwd' = <<target>> /\ target \in Typed /\ Found(<<Short[target]>>).kind = "dir"
  BY <1>2, GoesThere DEF Cd
<1>3. CASE cwd' = cwd
  <2>1. inside \in [Shorts -> SUBSET Shorts]
    BY DEF DirInv, DirTypes
  <2> QED
    BY <1>3, <2>1, SameDirs DEF Cd
<1> QED
  BY <1>1, <1>2, <1>3 DEF Cd

(* A new entry goes to the end; an entry it could hide is none of a file   *)
(* of its name.                                                            *)
LEMMA Added ==
  ASSUME DirInv, NEW e \in Entries, Len(root) < RootSize,
         root' = Append(root, e), UNCHANGED cwd, lost' \subseteq lost,
         \A n \in lost : n \notin lost' => e = Entry("dir", n),
         inside' \in [Shorts -> SUBSET Shorts],
         e.kind = "file" => EntryOf(e.name) = 0
  PROVE  DirInv'
<1>0. root \in Seq(Entries) /\ Len(root) \in Nat /\ DOMAIN root = 1 .. Len(root)
  BY LenProperties DEF DirInv, DirTypes, Entries
<1>1. /\ root' \in Seq(Entries) /\ Len(root') = Len(root) + 1
      /\ DOMAIN root' = 1 .. Len(root) + 1
      /\ \A i \in DOMAIN root : root'[i] = root[i]
      /\ root'[Len(root) + 1] = e
  BY <1>0, AppendProperties, LenProperties
<1>2. DirTypes'
  BY <1>1, ShellAssumption DEF DirInv, DirTypes, Entries
<1>3. FileFirst'
  <2> SUFFICES ASSUME NEW i \in DOMAIN root', NEW j \in DOMAIN root',
                      root'[i].kind = "file", root'[j].name = root'[i].name
               PROVE  i <= j
    BY DEF FileFirst
  <2>1. CASE i \in DOMAIN root /\ j \in DOMAIN root
    BY <1>1, <2>1 DEF DirInv, FileFirst
  <2>2. CASE j = Len(root) + 1
    BY <1>0, <1>1, <2>2
  <2>3. CASE i = Len(root) + 1 /\ j \in DOMAIN root
    <3>1. e.kind = "file" /\ root[j].name = e.name
      BY <1>1, <2>3
    <3> QED
      BY <1>0, <2>3, <3>1, EntryOfFirst
  <2> QED
    BY <1>0, <1>1, <2>1, <2>2, <2>3
<1>4. \A n : IsDir(n) => IsDir(n)'
  <2> SUFFICES ASSUME NEW n, IsDir(n) PROVE IsDir(n)'
    OBVIOUS
  <2>1. PICK i \in DOMAIN root : root[i] = Entry("dir", n)
    BY <1>0 DEF IsDir, Contains
  <2> QED
    BY <1>0, <1>1, <2>1 DEF IsDir, Contains
<1>5. CwdThere'
  <2> SUFFICES ASSUME cwd # <<>>, Short[cwd[1]] \notin lost' PROVE IsDir(Short[cwd[1]])'
    BY DEF CwdThere
  <2>1. CASE Short[cwd[1]] \notin lost
    BY <1>4, <2>1 DEF DirInv, CwdThere
  <2>2. CASE Short[cwd[1]] \in lost
    <3>1. e = Entry("dir", Short[cwd[1]])
      BY <2>2
    <3> QED
      BY <1>0, <1>1, <3>1 DEF IsDir, Contains
  <2> QED
    BY <2>1, <2>2
<1> QED
  BY <1>2, <1>3, <1>5 DEF DirInv

LEMMA MkdirKeeps ==
  ASSUME DirInv, NEW name \in Typed, Mkdir(name)
  PROVE  DirInv'
<1> DEFINE e == Entry("dir", Short[name])
<1>1. e \in Entries /\ e.kind = "dir"
  BY NamesShort DEF Entry, Entries
<1>2. inside' \in [Shorts -> SUBSET Shorts]
  BY DEF DirInv, DirTypes, Mkdir
<1>3. \A n \in lost : n \notin lost' => e = Entry("dir", n)
  BY DEF Mkdir
<1> QED
  BY <1>1, <1>2, <1>3, Added DEF Mkdir

LEMMA WriteInRootKeeps ==
  ASSUME DirInv, NEW name \in Typed, WriteInRoot(name)
  PROVE  DirInv'
<1> DEFINE n == Short[name]
           k == EntryOf(n)
           e == Entry("file", n)
<1>0. root \in Seq(Entries) /\ Len(root) \in Nat /\ DOMAIN root = 1 .. Len(root)
  BY LenProperties DEF DirInv, DirTypes, Entries
<1>1. n \in Shorts /\ e \in Entries /\ e.kind = "file" /\ e.name = n
  BY NamesShort DEF Entry, Entries
<1>2. inside' \in [Shorts -> SUBSET Shorts]
  BY DEF DirInv, DirTypes, WriteInRoot
<1>3. CASE k = 0
  <2>1. root' = Append(root, e) /\ Len(root) < RootSize /\ UNCHANGED <<cwd, lost>>
    BY <1>3 DEF WriteInRoot
  <2> QED
    BY <1>1, <1>2, <1>3, <2>1, Added
<1>4. CASE k # 0
  <2>1. k \in DOMAIN root /\ root[k].name = n
        /\ \A i \in DOMAIN root : root[i].name = n => k <= i
    BY <1>0, <1>4, EntryOfFirst
  <2>2. root' = [root EXCEPT ![k] = e] /\ cwd' = cwd
    BY <1>4 DEF WriteInRoot
  <2>3. lost' = IF root[k].kind = "dir" THEN lost \cup {n} ELSE lost
    BY <1>4 DEF WriteInRoot
  <2> HIDE DEF n, k, e
  <2>4. /\ root' \in Seq(Entries) /\ Len(root') = Len(root) /\ DOMAIN root' = DOMAIN root
        /\ \A i \in DOMAIN root : root'[i] = IF i = k THEN e ELSE root[i]
    BY <1>0, <1>1, <2>1, <2>2, ExceptSeq
  <2>5. DirTypes'
    BY <1>1, <1>2, <2>2, <2>3, <2>4 DEF DirInv, DirTypes, Entries
  <2>6. FileFirst'
    <3> SUFFICES ASSUME NEW i \in DOMAIN root', NEW j \in DOMAIN root',
                        root'[i].kind = "file", root'[j].name = root'[i].name
                 PROVE  i <= j
      BY DEF FileFirst
    <3>1. root'[j].name = root[j].name /\ root'[i].name = root[i].name
      BY <1>1, <2>1, <2>4
    <3>2. CASE i = k
      BY <1>0, <2>1, <2>4, <3>1, <3>2
    <3>3. CASE i # k
      BY <2>4, <3>1, <3>3 DEF DirInv, FileFirst
    <3> QED
      BY <3>2, <3>3
  <2>7. CwdThere'
    <3> SUFFICES ASSUME cwd # <<>>, Short[cwd[1]] \notin lost' PROVE IsDir(Short[cwd[1]])'
      BY <2>2 DEF CwdThere
    <3>1. IsDir(Short[cwd[1]])
      BY <2>3 DEF DirInv, CwdThere
    <3>2. PICK i \in DOMAIN root : root[i] = Entry("dir", Short[cwd[1]])
      BY <1>0, <3>1 DEF IsDir, Contains
    <3>3. root[i].kind = "dir" /\ root[i].name = Short[cwd[1]]
      BY <3>2 DEF Entry
    <3>4. i # k
      BY <2>1, <2>3, <3>3
    <3> QED
      BY <1>0, <2>2, <2>4, <3>2, <3>4 DEF IsDir, Contains
  <2> QED
    BY <2>5, <2>6, <2>7 DEF DirInv
<1> QED
  BY <1>3, <1>4

LEMMA WriteInsideKeeps ==
  ASSUME DirInv, NEW dir \in Typed, NEW name \in Inner, WriteInside(dir, name)
  PROVE  DirInv'
<1>1. Short[dir] \in Shorts /\ Short[name] \in Shorts
  BY NamesShort, ShellAssumption
<1>2. inside' \in [Shorts -> SUBSET Shorts]
  BY <1>1 DEF DirInv, DirTypes, WriteInside
<1> QED
  BY <1>2, SameDirs DEF WriteInside

LEMMA SetKeeps ==
  ASSUME DirInv, NEW c, Set(c)
  PROVE  DirInv'
<1>1. inside' \in [Shorts -> SUBSET Shorts]
  BY ShellAssumption DEF DirInv, DirTypes, Set, Save
<1> QED
  BY <1>1, SameDirs DEF Set

LEMMA ShellStutterKeeps ==
  ASSUME DirInv, UNCHANGED shellVars
  PROVE  DirInv'
<1>1. UNCHANGED <<root, inside, cwd, lost>>
  BY DEF shellVars
<1>2. inside \in [Shorts -> SUBSET Shorts]
  BY DEF DirInv, DirTypes
<1> QED
  BY <1>1, <1>2, SameDirs

LEMMA ShellStep == DirInv /\ [ShellNext]_shellVars => DirInv'
<1> SUFFICES ASSUME DirInv, [ShellNext]_shellVars PROVE DirInv'
  OBVIOUS
<1>1. ASSUME NEW target \in Typed \cup {"/", ".."}, Cd(target) PROVE DirInv'
  BY <1>1, CdKeeps
<1>2. ASSUME NEW name \in Typed, CdRoot(name) PROVE DirInv'
  BY <1>2, GoesThere DEF CdRoot
<1>3. ASSUME NEW name \in Typed, Mkdir(name) PROVE DirInv'
  BY <1>3, MkdirKeeps
<1>4. ASSUME NEW name \in Typed, WriteInRoot(name) PROVE DirInv'
  BY <1>4, WriteInRootKeeps
<1>5. ASSUME NEW dir \in Typed, NEW name \in Inner, WriteInside(dir, name) PROVE DirInv'
  BY <1>5, WriteInsideKeeps
<1>6. ASSUME NEW c, Set(c) PROVE DirInv'
  BY <1>6, SetKeeps
<1>7. CASE \/ \E arg \in Users : SetUser(arg)
           \/ \E arg \in Hosts : SetHost(arg)
           \/ \E arg \in Styles : SetStyle(arg)
           \/ \E arg \in Colors : SetColor(arg)
  BY <1>6, <1>7 DEF SetUser, SetHost, SetStyle, SetColor
<1>8. CASE Restart
  BY <1>8, GoesToRoot DEF Restart
<1>9. CASE UNCHANGED shellVars
  BY <1>9, ShellStutterKeeps
<1> QED
  BY <1>1, <1>2, <1>3, <1>4, <1>5, <1>7, <1>8, <1>9 DEF ShellNext

(* Unless a program wrote a file over it the current directory exists, and *)
(* a file that ls lists is the one that cat and the start of a program     *)
(* find, after any sequence of commands, writes and restarts.              *)
THEOREM DirectoriesAgree == ShellSpec => []HereIsHere
<1>1. ASSUME DirInv PROVE HereIsHere
  BY <1>1, ListedIsFound DEF DirInv, CwdThere, HereIsHere
<1> QED
  BY <1>1, DirInit, ShellStep, PTL DEF ShellSpec

(* The shell's loop behaves as Shell and as Exec: the theorems about both  *)
(* hold of it.                                                             *)
THEOREM PromptImplements == PromptSpec => ShellSpec /\ Spec
<1>1. PromptInit => ShellInit /\ Init
  BY DEF PromptInit
<1>2. [BuiltIn \/ Program]_<<vars, shellVars>> => [ShellNext]_shellVars /\ [Next]_vars
  BY DEF BuiltIn, Program
<1> QED
  BY <1>1, <1>2, PTL DEF PromptSpec, ShellSpec, Spec
=============================================================================
