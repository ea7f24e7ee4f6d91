----------------------------- MODULE Allocator ------------------------------
(***************************************************************************)
(* What an allocator promises: every live block is a range of its own in   *)
(* the arena, at least as long as was asked for, and no call moves or      *)
(* shrinks a block it is not about.                                        *)
(***************************************************************************)
EXTENDS Integers

CONSTANTS Lo, Hi  \* the arena is Lo .. Hi - 1

VARIABLES live    \* the live blocks, [at, len, want]

Disjoint(a, b) == a.at + a.len <= b.at \/ b.at + b.len <= a.at

(* A block that may be handed out while the others are live.               *)
Fits(b, others) ==
  /\ Lo <= b.at /\ b.at + b.len <= Hi
  /\ b.want <= b.len
  /\ \A o \in others : Disjoint(b, o)

AInit == live = {}

Alloc == \E b \in live' : live' = live \union {b} /\ b \notin live /\ Fits(b, live)

Free == \E b \in live : live' = live \ {b}

(* Grow in place, or move.                                                 *)
Resize ==
  \E b \in live, n \in live' :
    live' = (live \ {b}) \union {n} /\ Fits(n, live \ {b})

ANext == Alloc \/ Free \/ Resize

ASpec == AInit /\ [][ANext]_live
=============================================================================
