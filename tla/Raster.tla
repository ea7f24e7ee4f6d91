------------------------------- MODULE Raster -------------------------------
(***************************************************************************)
(* Pixel graphics: the primitives of kernel/drivers/video.c and the mouse  *)
(* cursor and title bars of kernel/api.c.                                  *)
(*                                                                         *)
(* A shape of one colour is the set of pixels written for it.  The loops   *)
(* that end on a condition of their own, of lines and circles, are steps.  *)
(* Only the cursor reads pixels back, so only it has their values.         *)
(***************************************************************************)
EXTENDS Integers, Sequences, FiniteSets, SequencesExt

CONSTANTS
  Width, Height,      \* g_vi.width, g_vi.height
  Depth,              \* g_vi.bpp
  Points, Radii,      \* bound: coordinates of shapes, and radii of circles
  Sizes,              \* bound: widths and heights
  BarXs, BarYs,       \* bound: places of title bars
  Background          \* bound: colours on the screen, from pixel to pixel

Brightest == 16777215  \* 0x00FFFFFF

ASSUME RasterAssumption ==
  /\ Width \in Nat \ {0} /\ Height \in Nat \ {0} /\ Depth \in {8, 15, 16, 24, 32}
  /\ Points \cup BarXs \cup BarYs \subseteq Int /\ Radii \cup Sizes \subseteq Nat
  /\ Background \in Seq(0 .. Brightest) /\ Background # <<>>

VARIABLES
  job,     \* the primitive that is drawn, with the variables of its loop
  ink,     \* the pixels it has written
  pixels,  \* the part of the framebuffer under the cursor, native values
  cursor   \* history: whether the cursor is drawn, and where

rvars == <<job, ink, pixels, cursor>>

Screen == (0 .. Width - 1) \X (0 .. Height - 1)

Abs(n) == IF n < 0 THEN -n ELSE n
Least(a, b) == IF a < b THEN a ELSE b
Greatest(a, b) == IF a < b THEN b ELSE a

-----------------------------------------------------------------------------
(* Straight shapes.                                                        *)
FaultyHline(x, y, len) ==
  IF y \in 0 .. Height - 1
  THEN {<<i, y>> : i \in Greatest(x, 0) .. Least(Greatest(x, 0) + len, Width) - 1} ELSE {}

Hline(x, y, len) ==
  IF y \in 0 .. Height - 1
  THEN {<<i, y>> : i \in Greatest(x, 0) .. Least(x + len, Width) - 1} ELSE {}

Vline(x, y, len) ==
  IF x \in 0 .. Width - 1
  THEN {<<x, i>> : i \in Greatest(y, 0) .. Least(y + len, Height) - 1} ELSE {}

Rect(x, y, w, h) ==
  Hline(x, y, w) \cup Hline(x, y + h - 1, w) \cup Vline(x, y, h) \cup Vline(x + w - 1, y, h)

Fillrect(x, y, w, h) == UNION {Hline(x, y + i, w) : i \in 0 .. h - 1}

Fillcircle(cx, cy, r) ==
  {<<cx + d[1], cy + d[2]>> : d \in {d \in (-r .. r) \X (-r .. r) :
                                      d[1] * d[1] + d[2] * d[2] <= r * r}} \cap Screen

Blit(x, y, w, h) == {<<x + col, y + row>> : col \in 0 .. w - 1, row \in 0 .. h - 1} \cap Screen

(* video_putchar and gfx_text: characters stand in cells of 8 by 16.       *)
Cell(n, size) == IF n < 0 THEN -((-n) \div size) ELSE n \div size

Putchars(col, row, n) ==
  ((col * 8 .. (col + n) * 8 - 1) \X (row * 16 .. row * 16 + 15)) \cap Screen

Titlebar(x, y, w, n) ==
  LET bx == x + w - 18
      by == y + 2
  IN  UNION {Fillrect(x, y, w, 6), Fillrect(x, y + 6, w, 6), Fillrect(x, y + 12, w, 18 - 12),
             Putchars(Cell(x + 4, 8), Cell(y + 1, 16), n),
             Fillrect(bx, by, 14, 14), Rect(bx, by, 14, 14),
             Putchars(Cell(bx + 3, 8), Cell(by + 1, 16), 1)}

-----------------------------------------------------------------------------
(* Pixel formats: color_pack, fb_read_pixel.  The masks are those the BIOS *)
(* reports for these depths.                                               *)
ColorPack(rgb) ==
  LET r == rgb \div 65536
      g == (rgb \div 256) % 256
      b == rgb % 256
  IN  CASE Depth \in {24, 32} -> rgb
        [] Depth = 16 -> (r \div 8) * 2048 + (g \div 4) * 32 + b \div 8
        [] Depth = 15 -> (r \div 8) * 1024 + (g \div 8) * 32 + b \div 8
        [] Depth = 8  -> (r \div 32) * 32 + (g \div 32) * 4 + b \div 64

FaultyInvert(native) == ColorPack(8421504 + native) % 16777216

(* cursor_xor_pixel takes the native value it reads for a colour.          *)
Invert(native) == ColorPack(Brightest - native)

(* The pixels ap_gui_draw_cursor inverts, some of them more than once.     *)
Row(i) == [c \in 1 .. (14 - i) \div 2 |-> <<c - 1, i - 1>>]

Arrow ==
  LET Twice == [k \in 1 .. 24 |-> <<(k - 1) % 2, (k - 1) \div 2>>]
      Body  == Row(1) \o Row(2) \o Row(3) \o Row(4) \o Row(5) \o Row(6) \o Row(7) \o Row(8)
                 \o Row(9) \o Row(10) \o Row(11) \o Row(12)
      Tail1 == <<<<2, 8>>, <<3, 9>>, <<2, 9>>, <<3, 10>>, <<4, 10>>, <<3, 11>>, <<4, 11>>,
                 <<5, 11>>, <<1, 8>>, <<2, 7>>, <<3, 8>>, <<2, 10>>, <<4, 9>>, <<5, 10>>, <<6, 11>>>>
  IN  Twice \o Body \o Tail1

(* cursor_xor_pixel, at a place of the arrow.                              *)
Flip(f, p) == IF p \in Screen THEN [f EXCEPT ![p] = Invert(@)] ELSE f

DrawArrow(f, x, y) ==
  LET after[i \in 0 .. Len(Arrow)] ==
        IF i = 0 THEN f ELSE Flip(after[i - 1], <<x + Arrow[i][1], y + Arrow[i][2]>>)
  IN  after[Len(Arrow)]

-----------------------------------------------------------------------------
Idle == [op |-> "idle"]
NoCursor == [on |-> FALSE, x |-> 0, y |-> 0]

Wallpaper == [p \in Screen |-> ColorPack(Background[1 + ((p[1] + p[2]) % Len(Background))])]

RasterInit ==
  /\ job = Idle /\ ink = {}
  /\ pixels = Wallpaper
  /\ cursor = NoCursor

Fresh == job = Idle /\ ink = {} /\ ~cursor.on /\ UNCHANGED <<pixels, cursor>>

Shape(op, x, y, w, h, set) ==
  /\ Fresh
  /\ job' = [op |-> op, x |-> x, y |-> y, w |-> w, h |-> h]
  /\ ink' = set

Straight ==
  \E x, y \in Points, w, h \in Sizes :
    \/ h = 1 /\ Shape("hline", x, y, w, 1, Hline(x, y, w))
    \/ w = 1 /\ Shape("vline", x, y, 1, h, Vline(x, y, h))
    \/ Shape("rect", x, y, w, h, Rect(x, y, w, h))
    \/ Shape("fillrect", x, y, w, h, Fillrect(x, y, w, h))
    \/ Shape("blit", x, y, w, h, Blit(x, y, w, h))

Discs == \E x, y \in Points, r \in Radii : Shape("disc", x, y, r, r, Fillcircle(x, y, r))

TitleBars == \E x \in BarXs, y \in BarYs, w \in {24, 30} : Shape("bar", x, y, w, 18, Titlebar(x, y, w, 1))

StartLine(x0, y0, x1, y1) ==
  [op |-> "line", from |-> <<x0, y0>>, to |-> <<x1, y1>>, x |-> x0, y |-> y0,
   dx |-> Abs(x1 - x0), dy |-> Abs(y1 - y0), err |-> Abs(x1 - x0) - Abs(y1 - y0)]

BeginLine ==
  /\ Fresh /\ UNCHANGED ink
  /\ \E x0, y0, x1, y1 \in Points : job' = StartLine(x0, y0, x1, y1)

FaultyNextPoint(j) ==
  IF 2 * j.err > -j.dy
  THEN [j EXCEPT !.err = @ - j.dy, !.x = IF j.from[1] < j.to[1] THEN @ + 1 ELSE @ - 1]
  ELSE j

NextPoint(j) ==
  LET right == 2 * j.err > -j.dy
      down  == 2 * j.err < j.dx
  IN  [j EXCEPT !.err = @ - (IF right THEN j.dy ELSE 0) + (IF down THEN j.dx ELSE 0),
         !.x = IF ~right THEN @ ELSE IF j.from[1] < j.to[1] THEN @ + 1 ELSE @ - 1,
         !.y = IF ~down THEN @ ELSE IF j.from[2] < j.to[2] THEN @ + 1 ELSE @ - 1]

(* One iteration of video_line.                                            *)
LineStep ==
  /\ job.op = "line"
  /\ ink' = ink \cup ({<<job.x, job.y>>} \cap Screen)
  /\ job' = IF <<job.x, job.y>> = job.to THEN [job EXCEPT !.op = "line drawn"] ELSE NextPoint(job)
  /\ UNCHANGED <<pixels, cursor>>

BeginCircle ==
  /\ Fresh /\ UNCHANGED ink
  /\ \E cx, cy \in Points, r \in Radii :
       job' = [op |-> "circle", cx |-> cx, cy |-> cy, r |-> r, px |-> 0, py |-> r, d |-> 3 - 2 * r]

NextOctant(j) ==
  IF j.d > 0
  THEN [j EXCEPT !.px = @ + 1, !.py = @ - 1, !.d = @ + 4 * (j.px + 1 - j.py) + 10]
  ELSE [j EXCEPT !.px = @ + 1, !.d = @ + 4 * (j.px + 1) + 6]

(* The same pixel in the eight octants.                                    *)
Octants(j) ==
  {<<j.cx + s * q[1], j.cy + t * q[2]>> :
     s, t \in {-1, 1}, q \in {<<j.px, j.py>>, <<j.py, j.px>>}} \cap Screen

(* One iteration of video_circle.                                          *)
CircleStep ==
  /\ job.op = "circle"
  /\ IF job.py >= job.px
     THEN ink' = ink \cup Octants(job) /\ job' = NextOctant(job)
     ELSE job' = [job EXCEPT !.op = "circle drawn"] /\ UNCHANGED ink
  /\ UNCHANGED <<pixels, cursor>>

(* The program clears the screen for the next.                             *)
ClearScreen ==
  /\ job.op \notin {"idle", "line", "circle"}
  /\ job' = Idle /\ ink' = {}
  /\ UNCHANGED <<pixels, cursor>>

(* A program shows the cursor and takes it away by drawing it again.       *)
ShowCursor ==
  /\ job = Idle /\ ~cursor.on
  /\ \E x, y \in Points :
       /\ pixels' = DrawArrow(pixels, x, y)
       /\ cursor' = [on |-> TRUE, x |-> x, y |-> y]
  /\ UNCHANGED <<job, ink>>

HideCursor ==
  /\ job = Idle /\ cursor.on
  /\ pixels' = DrawArrow(pixels, cursor.x, cursor.y)
  /\ cursor' = NoCursor
  /\ UNCHANGED <<job, ink>>

RasterNext ==
  \/ Straight \/ Discs \/ TitleBars
  \/ BeginLine \/ LineStep \/ BeginCircle \/ CircleStep
  \/ ClearScreen \/ ShowCursor \/ HideCursor

-----------------------------------------------------------------------------
Box(x, y, w, h) == (x .. x + w - 1) \X (y .. y + h - 1)

(* Twice the distance of a pixel from the line is at most the length of    *)
(* its longer side: it is the nearest pixel of its row or column.          *)
NearLine(p) ==
  LET d == <<job.to[1] - job.from[1], job.to[2] - job.from[2]>>
      cross == d[1] * (p[2] - job.from[2]) - d[2] * (p[1] - job.from[1])
  IN  2 * Abs(cross) <= Greatest(job.dx, job.dy)

(* Within a pixel of the circle: not a whole one outside, and one step      *)
(* outward, diagonally, is no longer inside.                               *)
NearCircle(p) ==
  LET a == Abs(p[1] - job.cx)
      b == Abs(p[2] - job.cy)
  IN  a * a + b * b < (job.r + 1) * (job.r + 1) /\ job.r * job.r <= (a + 1) * (a + 1) + (b + 1) * (b + 1)

(* What is on the screen of a shape is its visible part, whatever hangs    *)
(* over an edge: of rectangles and bitmaps exactly, of title bars on whole *)
(* character cells no pixel beside the bar, unless it begins above the     *)
(* screen.  A line on the screen has one pixel in each column (or row),    *)
(* each the nearest to the ideal line.  A circle has only pixels within    *)
(* one of the ideal circle, and one in every column.                       *)
ShapeIsDrawn ==
  /\ ink \subseteq Screen
  /\ job.op \in {"hline", "vline", "fillrect", "blit"} =>
       ink = Box(job.x, job.y, job.w, job.h) \cap Screen
  /\ job.op = "rect" /\ job.w > 0 /\ job.h > 0 =>
       ink = (Box(job.x, job.y, job.w, job.h)
               \ Box(job.x + 1, job.y + 1, job.w - 2, job.h - 2)) \cap Screen
  /\ job.op = "bar" /\ job.x % 8 = 0 /\ job.y % 16 = 0 /\ job.y >= 0 =>
       ink = Box(job.x, job.y, job.w, job.h) \cap Screen
  /\ job.op = "line drawn" =>
       /\ \A p \in ink : NearLine(p)
       /\ {job.from, job.to} \subseteq Screen =>
            Cardinality(ink) = Greatest(job.dx, job.dy) + 1
  /\ job.op = "circle drawn" =>
       /\ \A p \in ink : NearCircle(p)
       /\ Box(job.cx - job.r, job.cy - job.r, 2 * job.r + 1, 2 * job.r + 1) \subseteq Screen =>
            \A x \in job.cx - job.r .. job.cx + job.r : \E p \in ink : p[1] = x

(* Where a program had shown the cursor and has taken it away, the screen  *)
(* is as before, also for the pixels that are inverted more than once and  *)
(* where the arrow hangs over an edge.  At 16, 15 and 8 bits it is not:    *)
(* a native value is inverted as if it were a colour.                      *)
CursorLeavesNoTrace == Depth \in {24, 32} /\ ~cursor.on => pixels = Wallpaper

(* The loop of a line ends only when it hits the end point exactly: it     *)
(* always does.                                                            *)
DrawingEnds == job.op \in {"line", "circle"} ~> job.op \in {"line drawn", "circle drawn"}
=============================================================================
