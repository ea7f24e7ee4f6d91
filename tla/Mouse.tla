------------------------------- MODULE Mouse --------------------------------
(***************************************************************************)
(* The PS/2 mouse driver once it is ready, kernel/drivers/mouse.c: the     *)
(* interrupt handler, which puts three bytes together and moves the        *)
(* pointer, between any two accesses of the thread that sets the position  *)
(* or the sensitivity.  The mouse sends a report at a time; bytes get lost *)
(* on the line, or while interrupts are off for a disk write through the   *)
(* BIOS.  The wheel and the callback are left out: pkt_len stays 3 and     *)
(* g_cb stays NULL.  mouse_set_bounds and mouse_set_callback have no       *)
(* caller.                                                                 *)
(***************************************************************************)
EXTENDS Integers, Sequences

CONSTANTS
  MaxX, MaxY,  \* max_x and max_y
  IntMax,      \* the largest int, 2^31 - 1 in the code
  Reports,     \* what the mouse may report
  Points,      \* where programs put the pointer
  Sens,        \* sensitivities programs set
  MaxReports,  \* bound: reports in a behaviour
  MaxCalls     \* bound: calls of the thread in a behaviour

(* A report: the buttons held (0 .. 7), the motion since the last one in   *)
(* nine bits, x to the right and y up, and whether it did not fit.         *)
ReportSet ==
  [buttons : 0 .. 7, mx : -256 .. 255, my : -256 .. 255, over : BOOLEAN]

IntSet == (-IntMax - 1) .. IntMax

ASSUME MouseAssumption ==
  /\ IntMax \in Nat /\ MaxX \in 0 .. IntMax /\ MaxY \in 0 .. IntMax
  /\ Reports \subseteq ReportSet
  /\ Points \subseteq IntSet \X IntSet /\ Sens \subseteq IntSet
  /\ MaxReports \in Nat /\ MaxCalls \in Nat

VARIABLES
  report,   \* the report the mouse is sending
  sent,     \* how many of its bytes have left the mouse
  intact,   \* history: none of them was lost
  pkt,      \* the bytes collected, pkt[0 .. pkt_pos - 1]
  x, y, buttons, \* g_mouse
  sens,     \* sens_x, sens_y
  todo,     \* what the thread's call has still to do, step by step
  calls,    \* calls so far
  number,   \* reports so far
  origin,   \* history: for each byte of pkt, its report and its place in it
  lost,     \* history: bytes lost
  junk      \* history: packets accepted that no report was

device == <<report, sent, intact, number>>
pointer == <<x, y, buttons>>
thread == <<sens, todo, calls>>
vars == <<device, pkt, pointer, thread, origin, lost, junk>>

-----------------------------------------------------------------------------
(* Bytes.                                                                  *)
Bit(b, k) == (b \div k) % 2 = 1

Always1(b) == Bit(b, 8)
Overflow(b) == Bit(b, 64) \/ Bit(b, 128)
ButtonBits(b) == b % 8

(* (int)(int8_t)b *)
Signed(b) == IF b >= 128 THEN b - 256 ELSE b

(* int addition of a displacement, which wraps as compiled: nothing keeps  *)
(* a program from asking for a point next to the largest int.              *)
Plus(v, d) ==
  IF v + d > IntMax THEN v + d - 2 * (IntMax + 1)
  ELSE IF v + d < -IntMax - 1 THEN v + d + 2 * (IntMax + 1)
  ELSE v + d

(* Division of C, towards zero.                                            *)
Quot(a, n) == IF a >= 0 THEN a \div n ELSE -((-a) \div n)

(* What the mouse puts on the line: flags with the two sign bits, x, y.    *)
Flag(c, k) == IF c THEN k ELSE 0

Bytes(r) ==
  << 8 + r.buttons + Flag(r.mx < 0, 16) + Flag(r.my < 0, 32) + Flag(r.over, 64),
     r.mx % 256, r.my % 256 >>

Clamp(v, m) == IF v < 0 THEN 0 ELSE IF v > m THEN m ELSE v

-----------------------------------------------------------------------------
Idle == [buttons |-> 0, mx |-> 0, my |-> 0, over |-> FALSE]

Init ==
  /\ report = Idle /\ sent = 3 /\ intact = TRUE /\ number = 0
  /\ pkt = <<>> /\ origin = <<>>
  /\ x = (MaxX + 1) \div 2 /\ y = (MaxY + 1) \div 2
  /\ buttons = 0 /\ sens = <<1, 1>>
  /\ todo = <<>> /\ calls = 0
  /\ lost = 0 /\ junk = 0

(* The mouse has something to report and the line is free.                 *)
Send(r) ==
  /\ sent = 3 /\ number < MaxReports
  /\ report' = r /\ sent' = 0 /\ intact' = TRUE /\ number' = number + 1
  /\ UNCHANGED <<pkt, pointer, thread, origin, lost, junk>>

Lose ==
  /\ sent < 3 /\ sent' = sent + 1 /\ intact' = FALSE /\ lost' = lost + 1
  /\ UNCHANGED <<report, number, pkt, pointer, thread, origin, junk>>

-----------------------------------------------------------------------------
(* mouse_handler, on the next byte of the mouse.                           *)
Byte == Bytes(report)[sent + 1]

From == <<number, sent + 1>>

Arrives ==
  /\ sent < 3 /\ sent' = sent + 1
  /\ UNCHANGED <<report, intact, number, thread, lost>>

(* Definitions marked "Faulty" are wrong on purpose: a run that uses one in *)
(* place of the definition after it must fail, or the property is idle.    *)
FaultyStarts(b) == pkt = <<>>
FaultyResync(b) == pkt = <<>> /\ Always1(b)

(* A byte that starts a packet, whatever has been collected before.        *)
Starts(b) == Always1(b)

Skip ==
  /\ Arrives /\ pkt = <<>> /\ ~Starts(Byte)
  /\ UNCHANGED <<pkt, pointer, origin, junk>>

Start ==
  /\ Arrives /\ Starts(Byte)
  /\ pkt' = <<Byte>> /\ origin' = <<From>>
  /\ UNCHANGED <<pointer, junk>>

Continue ==
  /\ Arrives /\ Len(pkt) = 1 /\ ~Starts(Byte)
  /\ pkt' = Append(pkt, Byte) /\ origin' = Append(origin, From)
  /\ UNCHANGED <<pointer, junk>>

(* The packet p is complete.                                               *)
MoveX(p) == Quot(Signed(p[2]), sens[1])
MoveY(p) == Quot(-Signed(p[3]), sens[2])

Whole(o) == \A i \in 1 .. 3 : o[i] = <<o[1][1], i>>

Complete ==
  /\ Arrives /\ Len(pkt) = 2 /\ ~Starts(Byte)
  /\ pkt' = <<>> /\ origin' = <<>>
  /\ LET p == Append(pkt, Byte)
     IN  IF Overflow(p[1]) THEN UNCHANGED <<pointer, junk>>
         ELSE /\ buttons' = ButtonBits(p[1])
              /\ x' = Clamp(Plus(x, MoveX(p)), MaxX)
              /\ y' = Clamp(Plus(y, MoveY(p)), MaxY)
              /\ junk' = IF Whole(Append(origin, From)) THEN junk ELSE junk + 1

MouseIRQ == Skip \/ Start \/ Continue \/ Complete

-----------------------------------------------------------------------------
(* The thread.  A call is a list of accesses to the shared fields, the     *)
(* interrupt handler free to run between any two: a store of a value, or a *)
(* test of the field as it is now, with a store of the bound to follow if  *)
(* it is beyond.                                                           *)
SensOf(s) == IF s < 1 THEN 1 ELSE IF s > 8 THEN 8 ELSE s

Call(steps) ==
  /\ todo = <<>> /\ calls < MaxCalls /\ calls' = calls + 1
  /\ todo' = steps
  /\ UNCHANGED <<device, pkt, pointer, sens, origin, lost, junk>>

FaultySetThenClamp(p) ==
  << <<"x", "below", 0>>, <<"y", "below", 0>>,
     <<"x", "above", MaxX>>, <<"y", "above", MaxY>>,
     <<"x", "store", p[1]>>, <<"y", "store", p[2]>> >>

(* The stores and then clamp(), which the thread runs with interrupts on.  *)
SetThenClamp(p) ==
  << <<"x", "store", p[1]>>, <<"y", "store", p[2]>>,
     <<"x", "below", 0>>, <<"y", "below", 0>>,
     <<"x", "above", MaxX>>, <<"y", "above", MaxY>> >>

(* As written, with the arguments visible until they are clamped, or as an *)
(* optimising compiler may have it, which keeps them in registers until    *)
(* they are: the race with the handler leaves it the choice.               *)
mouse_set_pos(p) ==
  \/ Call(SetThenClamp(p))
  \/ Call(<< <<"x", "store", Clamp(p[1], MaxX)>>, <<"y", "store", Clamp(p[2], MaxY)>> >>)

mouse_set_sensitivity(sx, sy) ==
  Call(<< <<"sens_x", "store", SensOf(sx)>>, <<"sens_y", "store", SensOf(sy)>> >>)

Store ==
  /\ todo # <<>> /\ Head(todo)[2] = "store" /\ todo' = Tail(todo)
  /\ LET field == Head(todo)[1]
         v     == Head(todo)[3]
     IN  /\ x' = IF field = "x" THEN v ELSE x
         /\ y' = IF field = "y" THEN v ELSE y
         /\ sens' = << IF field = "sens_x" THEN v ELSE sens[1],
                       IF field = "sens_y" THEN v ELSE sens[2] >>
  /\ UNCHANGED <<device, pkt, buttons, calls, origin, lost, junk>>

Beyond(v, test, bound) == IF test = "below" THEN v < bound ELSE v > bound

Test ==
  /\ todo # <<>> /\ Head(todo)[2] # "store"
  /\ LET field == Head(todo)[1]
         bound == Head(todo)[3]
     IN  todo' = IF Beyond(IF field = "x" THEN x ELSE y, Head(todo)[2], bound)
                 THEN [todo EXCEPT ![1] = <<field, "store", bound>>]
                 ELSE Tail(todo)
  /\ UNCHANGED <<device, pkt, pointer, sens, calls, origin, lost, junk>>

Next ==
  \/ \E r \in Reports : Send(r)
  \/ Lose
  \/ MouseIRQ
  \/ \E p \in Points : mouse_set_pos(p)
  \/ \E sx, sy \in Sens : mouse_set_sensitivity(sx, sy)
  \/ Store
  \/ Test

Spec == Init /\ [][Next]_vars

-----------------------------------------------------------------------------
Steps ==
  ({"x", "y"} \X {"store"} \X IntSet)
    \union ({"x", "y"} \X {"below"} \X {0})
    \union ({"x"} \X {"above"} \X {MaxX}) \union ({"y"} \X {"above"} \X {MaxY})
    \union ({"sens_x", "sens_y"} \X {"store"} \X (1 .. 8))

TypeOK ==
  /\ report \in Reports \union {Idle} /\ sent \in 0 .. 3 /\ intact \in BOOLEAN
  /\ number \in 0 .. MaxReports /\ calls \in 0 .. MaxCalls
  /\ pkt \in Seq(0 .. 255) /\ Len(pkt) < 3
  /\ origin \in Seq(Nat \X (1 .. 3)) /\ Len(origin) = Len(pkt)
  /\ buttons \in 0 .. 7 /\ sens \in (1 .. 8) \X (1 .. 8)
  /\ x \in IntSet /\ y \in IntSet /\ todo \in Seq(Steps)
  /\ lost \in Nat /\ junk \in Nat

(* Whatever point a program asked for and whenever the interrupt handler   *)
(* moved the pointer between the stores, the tests and the corrections of  *)
(* mouse_set_pos, the pointer is on the screen when the call is over, and  *)
(* from then on: so it is where a program, which has one thread, can read  *)
(* it with mouse_get_state.  Within the call it may be off the screen.     *)
InSetPos == \E i \in DOMAIN todo : todo[i][1] \in {"x", "y"}

OnScreen == x \in 0 .. MaxX /\ y \in 0 .. MaxY

PointerOnScreen == InSetPos \/ OnScreen

(* mouse_handler takes for packets only what the mouse reported, but for   *)
(* at most one packet for each byte that was lost: bit 3, which data bytes *)
(* may have as well, never puts bytes of two reports together unless a     *)
(* flags byte is missing between them.                                     *)
JunkIsBounded == junk <= lost

(* A report whose motion bytes do not look like flags and whose three      *)
(* bytes arrive is taken, whatever was lost, skipped or half collected     *)
(* before, with a call of the thread in any state: one such report is      *)
(* enough to be in step again.                                             *)
Clear(r) == ~Always1(Bytes(r)[2]) /\ ~Always1(Bytes(r)[3]) /\ ~r.over

LastByteArrives == sent = 2 /\ sent' = 3 /\ intact'

ClearReportsAreTaken ==
  [][LastByteArrives /\ Clear(report) =>
      /\ buttons' = report.buttons
      /\ x' = Clamp(Plus(x, MoveX(Bytes(report))), MaxX)
      /\ y' = Clamp(Plus(y, MoveY(Bytes(report))), MaxY)]_vars
=============================================================================
