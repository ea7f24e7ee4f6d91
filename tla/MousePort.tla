----------------------------- MODULE MousePort ------------------------------
(***************************************************************************)
(* The mouse driver from the start of the kernel on: mouse_init, with      *)
(* interrupts off and IRQ12 masked, and then the interrupt handler and the *)
(* calls of programs, if mouse_init found a mouse.  What the driver does   *)
(* then does not depend on how the dialogue went, so that a dialogue       *)
(* without difficulties is enough to go on from.                           *)
(***************************************************************************)
EXTENDS MouseInit

Smooth == busy = 0 /\ refusals = 0 /\ strays = 0 /\ ~stale

PortInit == SetupInit /\ Init

SettingUp == SetupNext /\ UNCHANGED vars

Running == ready /\ Smooth /\ Next /\ UNCHANGED setup

(* The driver's waits count down and end.                                  *)
PortSpec ==
  PortInit /\ [][SettingUp \/ Running]_<<vars, setup>> /\ WF_setup(DriverStep)
=============================================================================
