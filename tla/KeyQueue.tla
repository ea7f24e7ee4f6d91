------------------------------ MODULE KeyQueue ------------------------------
(***************************************************************************)
(* What a key buffer promises: a bounded first-in first-out queue between  *)
(* the interrupt handler that fills it and the thread that empties it.  An *)
(* event is lost only when the queue is full or while it is being cleared, *)
(* and nothing queued before a clear is delivered after it.                *)
(***************************************************************************)
EXTENDS Naturals, Sequences

CONSTANTS
  Cap,     \* events the queue holds
  Events,  \* what is queued
  None     \* returned for an empty queue

VARIABLES
  q,        \* the queue
  out,      \* what the last read returned
  clearing, \* a clear is under way
  offered   \* events offered so far

kvars == <<q, out, clearing, offered>>

QInit == q = <<>> /\ out = None /\ clearing = FALSE /\ offered = 0

Put(e) ==
  /\ offered' = offered + 1
  /\ \/ Len(q) < Cap /\ q' = Append(q, e)
     \/ (Len(q) = Cap \/ clearing) /\ q' = q
  /\ UNCHANGED <<out, clearing>>

Get ==
  /\ q # <<>> /\ out' = Head(q) /\ q' = Tail(q)
  /\ UNCHANGED <<clearing, offered>>

GetNone ==
  /\ q = <<>> /\ out' = None
  /\ UNCHANGED <<q, clearing, offered>>

Clear ==
  /\ ~clearing /\ clearing' = TRUE /\ q' = <<>>
  /\ UNCHANGED <<out, offered>>

Cleared ==
  /\ clearing /\ clearing' = FALSE
  /\ UNCHANGED <<q, out, offered>>

QNext ==
  \/ \E e \in Events : Put(e)
  \/ Get \/ GetNone \/ Clear \/ Cleared

QSpec == QInit /\ [][QNext]_kvars
=============================================================================
