------------------------------- MODULE Runner -------------------------------
(***************************************************************************)
(* What running a program promises to the shell: a command is refused with *)
(* a message, or one program runs, the code it ends with is kept until the *)
(* shell has it, and the shell comes back, once, without a word.  Only a   *)
(* fault of the kernel itself stops the machine.                           *)
(***************************************************************************)
CONSTANT Codes \* what a program can end with

VARIABLES
  phase,  \* shell, loading, running, ended, down
  result, \* the code of the program that has ended
  told    \* the shell's last word on a command

vars == <<phase, result, told>>

NoResult == "none"
Refusals == {"read error", "command not found"}

Init == phase = "shell" /\ result = NoResult /\ told = "nothing"

Ask == phase = "shell" /\ phase' = "loading" /\ UNCHANGED <<result, told>>

Refuse(m) == phase = "loading" /\ phase' = "shell" /\ told' = m /\ UNCHANGED result

Begin == phase = "loading" /\ phase' = "running" /\ UNCHANGED <<result, told>>

Finish(c) == phase = "running" /\ phase' = "ended" /\ result' = c /\ UNCHANGED told

Back == phase = "ended" /\ phase' = "shell" /\ result' = NoResult /\ told' = "nothing"

Stop == phase = "running" /\ phase' = "down" /\ UNCHANGED <<result, told>>

Next ==
  \/ Ask \/ Begin \/ Back \/ Stop
  \/ \E c \in Codes : Finish(c)
  \/ \E m \in Refusals : Refuse(m)

Spec == Init /\ [][Next]_vars
=============================================================================
