---------------------------- MODULE DurableStore ----------------------------
(***************************************************************************)
(* What the disk layer of Zinux promises to its callers: a store whose     *)
(* readers see every write at once, whose medium only ever receives values *)
(* that were written, and which may claim to be synced only when the       *)
(* medium holds all that the readers see.  A power loss rolls the view     *)
(* back to the medium.  For some sectors nothing is promised but that the  *)
(* damage stays in them.  BlockDev implements it.                          *)
(***************************************************************************)
CONSTANTS
  Sectors,   \* the sectors of the medium
  Values,    \* the possible contents of a sector
  Unstable   \* the sectors for which nothing is promised

VARIABLES
  view,      \* what a read returns now
  durable,   \* what the medium holds, and a power loss leaves
  out,       \* the contents the last successful read returned
  synced     \* the last call was a flush and it reported success

vars == <<view, durable, out, synced>>

Init ==
  /\ durable \in [Sectors -> Values]
  /\ view = durable
  /\ out \in Values
  /\ synced = FALSE

(* A write that stays in memory, or goes through to the medium.            *)
Put(s, v) ==
  /\ view' = [view EXCEPT ![s] = v]
  /\ durable' \in {durable, [durable EXCEPT ![s] = v]}
  /\ synced' = FALSE
  /\ UNCHANGED out

(* A read returns the view of its sector.                                  *)
Get(s) ==
  /\ out' = view[s]
  /\ synced' = FALSE
  /\ UNCHANGED <<view, durable>>

(* The medium catches up with the view on one sector.                      *)
Persist(s) ==
  /\ durable' = [durable EXCEPT ![s] = view[s]]
  /\ synced' = FALSE
  /\ UNCHANGED <<view, out>>

(* A flush returns success.                                                *)
Acknowledge ==
  /\ \A s \in Sectors \ Unstable : view[s] = durable[s]
  /\ synced' = TRUE
  /\ UNCHANGED <<view, durable, out>>

(* Any call that is not a successful flush.                                *)
Other ==
  /\ synced' = FALSE
  /\ UNCHANGED <<view, durable, out>>

(* An unstable sector changes by itself.                                   *)
Decay(s, v) ==
  /\ view' = [view EXCEPT ![s] = v]
  /\ UNCHANGED <<durable, out, synced>>

PowerLoss ==
  /\ view' = durable
  /\ synced' = FALSE
  /\ UNCHANGED <<durable, out>>

Next ==
  \/ \E s \in Sectors, v \in Values : Put(s, v)
  \/ \E s \in Sectors : Get(s) \/ Persist(s)
  \/ Acknowledge
  \/ \E s \in Unstable, v \in Values : Decay(s, v)
  \/ Other
  \/ PowerLoss

Spec == Init /\ [][Next]_vars
=============================================================================
