------------------------------ MODULE Keyboard ------------------------------
(***************************************************************************)
(* The keyboard driver, kernel/drivers/keyboard.c: two ring buffers that   *)
(* the IRQ1 handler fills and the kernel thread empties, with no lock.     *)
(* The handler runs with interrupts off, so it is one step; the functions  *)
(* of the thread can be interrupted between any two accesses to the shared *)
(* indices, so each access is a step.  The compiled code keeps the order   *)
(* of the accesses in the source.                                          *)
(***************************************************************************)
EXTENDS Integers, Sequences

CONSTANTS
  KeySize,  \* KEYBOARD_BUFFER_SIZE
  RawSize,  \* RAW_KEY_BUF_SIZE
  Codes,    \* the scan codes the keyboard sends
  MaxEvents \* bound: key events in a behaviour

(* The classes of scan codes the handler tells apart.                      *)
Shifts  == {"lshift", "rshift"}
Arrows  == {"up", "down", "left", "right"}
Letters == {"a", "b"}    \* 0x10 .. 0x32: caps lock applies
Others  == {"1", "esc"}  \* other codes below 58 with a character
Silent  == {"alt", "f1"} \* no character in either table

ASSUME KeyboardAssumption ==
  /\ KeySize \in Nat \ {0, 1} /\ RawSize \in Nat \ {0, 1}
  /\ Codes \subseteq
       Shifts \union Arrows \union Letters \union Others \union Silent
         \union {"lctrl", "capslock"}

VARIABLES
  rings,  \* "key" and "raw": buffer, head and tail of each
  mods,   \* shift_pressed, ctrl_pressed, caps_lock
  at,     \* where the thread is; "run" is outside the driver
  which,  \* the ring its call is about
  c,      \* the local variable of the call
  got,    \* what the last call on each ring returned
  offered \* history: the events offered to each ring

vars == <<rings, mods, at, which, c, got, offered>>

-----------------------------------------------------------------------------
None == <<>>

Size == [key |-> KeySize, raw |-> RawSize]

(* Characters: the code and whether the upper table was used.              *)
Chars == {<<k, u>> : k \in Codes, u \in BOOLEAN}

RawEvents == {<<k, p>> : k \in Codes, p \in BOOLEAN}

EmptyRing(n) == [buf |-> [i \in 0 .. n - 1 |-> None], head |-> 0, tail |-> 0]

Inc(i, n) == (i + 1) % n

(* buffer_put and raw_put: the event is dropped when the ring is full.     *)
PutIn(r, n, e) ==
  IF Inc(r.head, n) = r.tail THEN r
  ELSE [r EXCEPT !.buf[r.head] = e, !.head = Inc(r.head, n)]

NonEmpty(r) == r.head # r.tail

Init ==
  /\ rings = [key |-> EmptyRing(KeySize), raw |-> EmptyRing(RawSize)]
  /\ mods = [shift |-> FALSE, ctrl |-> FALSE, caps |-> FALSE]
  /\ at = "run" /\ which = "key" /\ c = None
  /\ got = [key |-> None, raw |-> None]
  /\ offered = [key |-> 0, raw |-> 0]

(* The characters a key event puts in the key ring: none or one.           *)
UseShift(k) == IF mods.caps /\ k \in Letters THEN ~mods.shift ELSE mods.shift

CharOf(k, pressed) ==
  IF ~pressed THEN {}
  ELSE IF k \in Arrows THEN {<<k, FALSE>>}
  ELSE IF k \in Letters \union Others THEN {<<k, UseShift(k)>>}
  ELSE {}

ModsAfter(k, pressed) ==
  IF k \in Shifts THEN [mods EXCEPT !.shift = pressed]
  ELSE IF k = "lctrl" THEN [mods EXCEPT !.ctrl = pressed]
  ELSE IF k = "capslock" /\ pressed THEN [mods EXCEPT !.caps = ~@]
  ELSE mods

FaultyWoken == at
(* An interrupt ends a hlt; the loop then looks at the ring again.         *)
Woken == IF at = "halted" THEN "look" ELSE at

(* keyboard_handler and keyboard_callback: a key is pressed or released.   *)
KeyIRQ(k, pressed) ==
  /\ offered.raw < MaxEvents
  /\ LET ch == CharOf(k, pressed)
     IN  /\ rings' = [key |-> IF ch = {} THEN rings.key
                              ELSE PutIn(rings.key, KeySize, CHOOSE e \in ch : TRUE),
                      raw |-> PutIn(rings.raw, RawSize, <<k, pressed>>)]
         /\ offered' = [key |-> IF ch = {} THEN offered.key ELSE offered.key + 1,
                        raw |-> offered.raw + 1]
  /\ mods' = ModsAfter(k, pressed)
  /\ at' = Woken
  /\ UNCHANGED <<which, c, got>>

(* timer_handler, which matters here because it ends a hlt.                *)
TimerIRQ ==
  /\ at = "halted" /\ at' = Woken
  /\ UNCHANGED <<rings, mods, which, c, got, offered>>

-----------------------------------------------------------------------------
(* keyboard_getchar and keyboard_raw_get: check, read, advance.            *)
GetCall(r) ==
  /\ at = "run" /\ at' = "check" /\ which' = r
  /\ UNCHANGED <<rings, mods, c, got, offered>>

Check ==
  /\ at = "check"
  /\ IF NonEmpty(rings[which])
     THEN at' = "read" /\ UNCHANGED got
     ELSE at' = "run" /\ got' = [got EXCEPT ![which] = None]
  /\ UNCHANGED <<rings, mods, which, c, offered>>

Read ==
  /\ at = "read" /\ at' = "advance"
  /\ c' = rings[which].buf[rings[which].tail]
  /\ UNCHANGED <<rings, mods, which, got, offered>>

Advance ==
  /\ at = "advance" /\ at' = "run"
  /\ rings' = [rings EXCEPT ![which].tail = Inc(@, Size[which])]
  /\ got' = [got EXCEPT ![which] = c] /\ c' = None
  /\ UNCHANGED <<mods, which, offered>>

(* keyboard_wait_char: look, and hlt until there is a character.  A key    *)
(* that arrives between the look and the hlt does not end that hlt.        *)
WaitCall ==
  /\ at = "run" /\ at' = "look" /\ which' = "key"
  /\ UNCHANGED <<rings, mods, c, got, offered>>

Look ==
  /\ at = "look"
  /\ at' = IF NonEmpty(rings.key) THEN "check" ELSE "sleep"
  /\ UNCHANGED <<rings, mods, which, c, got, offered>>

Halt ==
  /\ at = "sleep" /\ at' = "halted"
  /\ UNCHANGED <<rings, mods, which, c, got, offered>>

(* keyboard_clear_buffer: two stores, the head first.                      *)
ClearHead ==
  /\ at = "run" /\ at' = "clear"
  /\ rings' = [rings EXCEPT !.key.head = 0]
  /\ UNCHANGED <<mods, which, c, got, offered>>

FaultyClearTail ==
  /\ at = "clear" /\ at' = "run"
  /\ rings' = [rings EXCEPT !.key.tail = 0, !.key.head = 0]
  /\ UNCHANGED <<mods, which, c, got, offered>>

ClearTail ==
  /\ at = "clear" /\ at' = "run"
  /\ rings' = [rings EXCEPT !.key.tail = 0]
  /\ UNCHANGED <<mods, which, c, got, offered>>

Inside == Check \/ Read \/ Advance \/ Look \/ Halt \/ ClearTail

Next ==
  \/ \E k \in Codes, pressed \in BOOLEAN : KeyIRQ(k, pressed)
  \/ TimerIRQ
  \/ \E r \in {"key", "raw"} : GetCall(r)
  \/ WaitCall
  \/ ClearHead
  \/ Inside

Spec == Init /\ [][Next]_vars

(* The thread runs when it is not halted, and the timer keeps ticking.     *)
FairSpec == Spec /\ WF_vars(Inside) /\ WF_vars(TimerIRQ)

-----------------------------------------------------------------------------
Ring(n, S) ==
  [buf : [0 .. n - 1 -> S \union {None}], head : 0 .. n - 1, tail : 0 .. n - 1]

TypeOK ==
  /\ rings \in [key : Ring(KeySize, Chars), raw : Ring(RawSize, RawEvents)]
  /\ mods \in [shift : BOOLEAN, ctrl : BOOLEAN, caps : BOOLEAN]
  /\ at \in {"run", "check", "read", "advance", "look", "sleep", "halted",
             "clear"}
  /\ which \in {"key", "raw"}
  /\ c \in Chars \union RawEvents \union {None}
  /\ got \in [key : Chars \union {None}, raw : RawEvents \union {None}]
  /\ offered \in [key : Nat, raw : Nat]

(* The queued events, oldest first.  Between the two stores of a clear the *)
(* tail is still the old one, but only what came since counts.             *)
Queued(r, n) ==
  [i \in 1 .. (r.head - r.tail) % n |-> r.buf[(r.tail + i - 1) % n]]

SinceClear(r) == [i \in 1 .. r.head |-> r.buf[i - 1]]

KeyQ == INSTANCE KeyQueue WITH
  Cap <- KeySize - 1, Events <- Chars,
  q <- IF at = "clear" THEN SinceClear(rings.key)
       ELSE Queued(rings.key, KeySize),
  out <- got.key, clearing <- at = "clear", offered <- offered.key

RawQ == INSTANCE KeyQueue WITH
  Cap <- RawSize - 1, Events <- RawEvents,
  q <- Queued(rings.raw, RawSize),
  out <- got.raw, clearing <- FALSE, offered <- offered.raw

(* However the handler interrupts the thread, the rings keep to their      *)
(* arrays, and the character ring is a first-in first-out queue of         *)
(* KeySize - 1 characters: none is delivered twice, out of order or after  *)
(* a clear, a read returns 0 only when the queue is empty, and a key is    *)
(* lost only when it is full or being cleared.  So is the ring of raw      *)
(* events, which nothing clears.                                           *)
ImplementsQueues == []TypeOK /\ KeyQ!QSpec /\ RawQ!QSpec

(* A program in keyboard_wait_char gets a character that is queued, also   *)
(* one that arrived after the look and before the hlt.                     *)
KeyEndsWait ==
  (at \in {"look", "sleep", "halted"} /\ NonEmpty(rings.key))
    ~> (at = "run" /\ got.key # None)
=============================================================================
