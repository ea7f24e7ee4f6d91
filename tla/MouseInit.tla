----------------------------- MODULE MouseInit ------------------------------
(***************************************************************************)
(* mouse_init of kernel/drivers/mouse.c: the dialogue with the controller  *)
(* and the mouse, byte by byte.  Interrupts are off; the driver polls and  *)
(* gives up on a byte after a while, so that a reply may come when nobody  *)
(* waits for it any more, and a byte of the keyboard or of a mouse that is *)
(* moved may be where a reply is expected.  The controller and the mouse   *)
(* are modelled from how the driver uses them.                             *)
(***************************************************************************)
EXTENDS Mouse

CONSTANTS
  Configs,     \* what the firmware left in the controller's command byte
  Stray,       \* bytes that may turn up unasked
  MaxBusy,     \* bound: times the controller stays busy
  MaxRefusals, \* bound: commands the mouse answers with RESEND or not at all
  MaxStray,    \* bound: stray bytes
  Room         \* replies that can be on their way; more are lost

(* The values of bytes that matter.                                        *)
ACK == 250
RESEND == 254
SelfTestOK == 170
AuxOK == 0

Off(b, k) == IF Bit(b, k) THEN b - k ELSE b
On(b, k) == IF Bit(b, k) THEN b ELSE b + k

KbdIrq == 1
AuxIrq == 2
AuxClockOff == 32

(* The keyboard works with the interrupt that the firmware left enabled;   *)
(* nothing in the kernel sets its bit.                                     *)
ASSUME SetupAssumption ==
  /\ Configs \subseteq {b \in 0 .. 255 : Bit(b, KbdIrq)}
  /\ Stray \subseteq 0 .. 255
  /\ {MaxBusy, MaxRefusals, MaxStray, Room} \subseteq Nat

(***************************************************************************)
(* What mouse_init does, as a list: "ctl" is a command to the controller,  *)
(* with its data; "cmd" a command to the mouse, through mouse_cmd; "read"  *)
(* a byte.  A failure goes to "fail", to the next line, or, for the first  *)
(* half of mouse_cmd2, past the second.                                    *)
(***************************************************************************)
L(do, what, else) == [do |-> do, what |-> what, else |-> else]

Rate == <<L("cmd", "rate", "skip"), L("cmd", "argument", "next")>>

Dialogue ==
  << L("flush", "none", "none"), L("ctl", "enable_aux", "fail"),
     L("flush", "none", "none"),
     L("ctl", "read_cfg", "fail"), L("read", "cfg", "fail"),
     L("ctl", "write_cfg_off", "fail"),
     L("ctl", "test_aux", "fail"), L("read", "test", "fail"),
     L("cmd", "reset", "fail"), L("read", "selftest", "fail"),
     L("read", "any", "fail"), L("flush", "none", "none") >>
  \o Rate \o Rate \o Rate
  \o << L("cmd", "get_id", "fail"), L("read", "any", "fail"),
        L("flush", "none", "none") >>
  \o Rate \o Rate
  \o << L("ctl", "write_cfg_on", "fail"), L("cmd", "enable", "fail"),
        L("flush", "none", "none"), L("ready", "none", "none") >>

(* Definitions marked "Faulty" are wrong on purpose: a run that uses one in *)
(* place of the definition after it must fail, or the property is idle.    *)
FaultyFailPath ==
  << L("cmd", "disable", "fail"), L("flush", "none", "none"),
     L("ctl", "write_cfg_off", "next"), L("masked", "none", "none") >>

FailPath ==
  << L("cmd", "disable", "next"), L("flush", "none", "none"),
     L("ctl", "write_cfg_off", "next"), L("masked", "none", "none") >>

Script == Dialogue \o FailPath

FailAt == Len(Dialogue) + 1
Done == Len(Script) + 1

VARIABLES
  at,       \* the line of Script; Done when mouse_init has returned
  asked,    \* the command is out, mouse_cmd waits for the answer
  tries,    \* r of mouse_cmd
  cfg,      \* cfg
  ready, masked, \* ready; IRQ12 masked
  command,  \* the controller's command byte
  reports,  \* the mouse is enabled
  coming,   \* replies on their way
  out,      \* bytes to be read from port 0x60
  busy, refusals, strays, \* counters of the bounds
  stale,    \* history: a byte arrived unasked or after its wait was over
  known     \* history: cfg was read

driver == <<at, asked, tries, cfg, ready, masked>>
port == <<command, reports, coming, out>>
counts == <<busy, refusals, strays>>
setup == <<driver, port, counts, stale, known>>

-----------------------------------------------------------------------------
SetupInit ==
  /\ at = 1 /\ asked = FALSE /\ tries = 3 /\ cfg = 0
  /\ ready = FALSE /\ masked = TRUE
  /\ command \in Configs /\ reports \in BOOLEAN
  /\ coming = <<>> /\ out = <<>>
  /\ busy = 0 /\ refusals = 0 /\ strays = 0
  /\ stale = FALSE /\ known = FALSE

Line == Script[at]

Queued(replies) ==
  LET q == coming \o replies
  IN  IF Len(q) > Room THEN SubSeq(q, 1, Room) ELSE q

GoTo(n) == at' = n /\ asked' = FALSE /\ tries' = 3

NextLine == GoTo(at + 1)

Failed ==
  GoTo(CASE Line.else = "fail" -> FailAt
         [] Line.else = "skip" -> at + 2
         [] OTHER -> at + 1)

-----------------------------------------------------------------------------
(* The hardware: a reply arrives, a byte turns up that nobody asked for.   *)
Arrive ==
  /\ at # Done /\ coming # <<>> /\ out = <<>>
  /\ out' = <<Head(coming)>> /\ coming' = Tail(coming)
  /\ UNCHANGED <<driver, command, reports, counts, stale, known>>

StrayByte(b) ==
  /\ at # Done /\ strays < MaxStray /\ strays' = strays + 1
  /\ out = <<>> /\ out' = <<b>> /\ stale' = TRUE
  /\ UNCHANGED <<driver, command, reports, coming, busy, refusals, known>>

(* wait_write gives up.                                                    *)
Busy ==
  /\ at # Done /\ Line.do \in {"ctl", "cmd"} /\ ~asked
  /\ busy < MaxBusy /\ busy' = busy + 1
  /\ Failed
  /\ UNCHANGED <<cfg, ready, masked, port, refusals, strays, stale, known>>

(* wait_read gives up: nothing is there.  What is on its way comes later.  *)
Timeout ==
  /\ at # Done /\ (Line.do = "read" \/ asked) /\ out = <<>>
  /\ Failed
  /\ stale' = (stale \/ coming # <<>>)
  /\ UNCHANGED <<cfg, ready, masked, port, counts, known>>

-----------------------------------------------------------------------------
FaultyConfigOff == Off(Off(cfg, KbdIrq), AuxClockOff)

(* The command byte as the driver changes it.                              *)
ConfigOff == Off(Off(cfg, AuxIrq), AuxClockOff)
ConfigOn == Off(On(cfg, AuxIrq), AuxClockOff)

(* ctl_cmd and ctl_data.                                                   *)
Ctl ==
  /\ at # Done /\ Line.do = "ctl"
  /\ cfg' = CASE Line.what = "write_cfg_off" -> ConfigOff
              [] Line.what = "write_cfg_on" -> ConfigOn
              [] OTHER -> cfg
  /\ command' = IF Line.what \in {"write_cfg_off", "write_cfg_on"} THEN cfg'
                ELSE command
  /\ \E ok \in BOOLEAN :
       coming' = CASE Line.what = "read_cfg" -> Queued(<<command>>)
                   [] Line.what = "test_aux" ->
                        Queued(<<IF ok THEN AuxOK ELSE AuxOK + 1>>)
                   [] OTHER -> coming
  /\ NextLine
  /\ UNCHANGED <<ready, masked, reports, out, counts, stale, known>>

(* read_byte and what mouse_init makes of the byte.                        *)
Accepts(what, b) ==
  CASE what = "test" -> b = AuxOK
    [] what = "selftest" -> b = SelfTestOK
    [] OTHER -> TRUE

Read ==
  /\ at # Done /\ Line.do = "read" /\ out # <<>>
  /\ out' = Tail(out)
  /\ IF Line.what = "cfg" THEN cfg' = Head(out) /\ known' = ~stale
     ELSE UNCHANGED <<cfg, known>>
  /\ IF Accepts(Line.what, Head(out)) THEN NextLine ELSE Failed
  /\ UNCHANGED <<ready, masked, command, reports, coming, counts, stale>>

(* flush: what is there, and what comes meanwhile, is thrown away.         *)
Flush ==
  /\ at # Done /\ Line.do = "flush"
  /\ out' = <<>> /\ NextLine
  /\ \E n \in 0 .. Len(coming) : coming' = SubSeq(coming, n + 1, Len(coming))
  /\ UNCHANGED <<cfg, ready, masked, command, reports, counts, stale, known>>

-----------------------------------------------------------------------------
(* mouse_cmd: the command goes out, the mouse takes it or does not ...     *)
Reply(what) ==
  CASE what = "reset" -> <<ACK, SelfTestOK, 0>>
    [] what = "get_id" -> <<ACK, 0>>
    [] OTHER -> <<ACK>>

Command ==
  /\ at # Done /\ Line.do = "cmd" /\ ~asked
  /\ asked' = TRUE
  /\ \/ /\ coming' = Queued(Reply(Line.what))
        /\ reports' = CASE Line.what = "enable" -> TRUE
                        [] Line.what \in {"reset", "disable"} -> FALSE
                        [] OTHER -> reports
        /\ UNCHANGED refusals
     \/ /\ refusals < MaxRefusals /\ refusals' = refusals + 1
        /\ coming' \in {coming, Queued(<<RESEND>>)}
        /\ UNCHANGED reports
  /\ UNCHANGED <<at, tries, cfg, ready, masked, command, out, busy, strays, stale, known>>

FaultyAgreed(b) == b \in {ACK, RESEND}

Agreed(b) == b = ACK

(* ... and the answer is awaited; RESEND is obeyed, three times at most.   *)
Answer ==
  /\ at # Done /\ asked /\ out # <<>>
  /\ out' = Tail(out)
  /\ IF Agreed(Head(out)) THEN NextLine
     ELSE IF Head(out) = RESEND /\ tries > 1
          THEN asked' = FALSE /\ tries' = tries - 1 /\ UNCHANGED at
          ELSE Failed
  /\ UNCHANGED <<cfg, ready, masked, command, reports, coming, counts, stale, known>>

(* The ends of mouse_init.                                                 *)
Ready ==
  /\ at # Done /\ Line.do = "ready"
  /\ ready' = TRUE /\ masked' = FALSE /\ GoTo(Done)
  /\ UNCHANGED <<cfg, port, counts, stale, known>>

Masked ==
  /\ at # Done /\ Line.do = "masked"
  /\ ready' = FALSE /\ masked' = TRUE /\ GoTo(Done)
  /\ UNCHANGED <<cfg, port, counts, stale, known>>

DriverStep ==
  Busy \/ Timeout \/ Ctl \/ Read \/ Flush \/ Command \/ Answer \/ Ready \/ Masked

SetupNext == DriverStep \/ Arrive \/ \E b \in Stray : StrayByte(b)

-----------------------------------------------------------------------------
(* When mouse_init says the mouse is ready, the mouse is enabled, the      *)
(* controller passes its interrupts on and the line is open - unless a     *)
(* byte that was no reply was taken for one.                               *)
ReadyMeansReporting ==
  (ready /\ ~stale) => reports /\ Bit(command, AuxIrq) /\ ~masked

(* Whatever the mouse does, and also when it gives up, the keyboard's      *)
(* interrupt is left as the firmware set it, once the command byte has     *)
(* been read.                                                              *)
KeyboardIsKept == known => Bit(command, KbdIrq)

(* mouse_init returns.                                                     *)
InitReturns == <>(at = Done)
=============================================================================
