------------------------------- MODULE Prompt --------------------------------
(***************************************************************************)
(* The shell's loop: a line at the prompt is a command built in (Shell) or *)
(* the name of a program (Exec).  The two keep different things, and the   *)
(* directory the shell is in only chooses the paths of the search, which   *)
(* Exec is given: going on to programs from the start is enough.           *)
(***************************************************************************)
EXTENDS Shell, Exec

PromptInit == ShellInit /\ Init

(* Bound: a volume without programs.                                       *)
BuiltIn ==
  /\ pc = "prompt" /\ typed = 0 /\ \A p \in DOMAIN files : files[p] = Absent
  /\ ShellNext /\ UNCHANGED vars

Program == ShellInit /\ Next /\ UNCHANGED shellVars

PromptSpec ==
  /\ PromptInit /\ [][BuiltIn \/ Program]_<<vars, shellVars>>
  /\ SF_vars(KernelStep) /\ WF_vars(IrqReturns)
=============================================================================
