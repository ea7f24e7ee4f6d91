------------------------------ MODULE Widgets ------------------------------
(***************************************************************************)
(* The text widgets of kernel/api.c.  A widget is the sequence of calls it *)
(* makes of the console; one call of one widget is a step, on a screen     *)
(* full of other text.                                                     *)
(***************************************************************************)
EXTENDS Console

CONSTANTS
  MenuWidth,         \* the 80 columns gui_menubar fills
  Xs, Ys, Ws, Hs,    \* bound: positions and sizes programs pass
  Texts, Lists,      \* bound: texts and lists of items
  Percents, Numbers  \* bound: what progress bars and print_int get

VARIABLE drawn  \* history: the widget drawn last, with its arguments

ASSUME WidgetAssumption ==
  /\ MenuWidth \in Nat /\ Xs \cup Ys \cup Numbers \subseteq Int
  /\ Ws \cup Hs \cup Percents \subseteq Nat
  /\ Texts \subseteq Seq(1 .. 255) /\ Lists \subseteq Seq(Seq(1 .. 255))

Blue == 2  Green == 3  LightGrey == 4  DarkGrey == 5  LightGreen == 6  LightCyan == 7

TopLeft == 218  TopRight == 191  BottomLeft == 192  BottomRight == 217
Flat == 196  Upright == 179  Shade == 176  Block == 219  Tick == 251
UpArrow == 30  DownArrow == 31

Put(x, y, c) == <<At(x, y), Char(c)>>

Each(n, F(_)) == IF n < 1 THEN <<>> ELSE FlattenSeq([i \in 1 .. n |-> F(i)])

(* Division of C: towards zero.                                            *)
Quotient(a, b) == IF a < 0 THEN -((-a) \div b) ELSE a \div b

-----------------------------------------------------------------------------
(* The drawing functions, in the order of api.c.                           *)
Minus == 45
PrintInt(v) == IF v < 0 THEN <<Char(Minus)>> \o PutDec(-v) ELSE PutDec(v)

FaultyDrawBox(x, y, w, h, fg, bg) ==
  <<Color(fg, bg)>> \o Put(x, y, TopLeft) \o Put(x + w, y, TopRight)
    \o Put(x, y + h - 1, BottomLeft) \o Put(x + w, y + h - 1, BottomRight)

DrawBox(x, y, w, h, fg, bg) ==
  LET right == x + w - 1
      bottom == y + h - 1
      Horizontal(i) == Put(x + i, y, Flat) \o Put(x + i, bottom, Flat)
      Vertical(i) == Put(x, y + i, Upright) \o Put(right, y + i, Upright)
  IN  <<Color(fg, bg)>> \o Put(x, y, TopLeft) \o Put(right, y, TopRight)
        \o Put(x, bottom, BottomLeft) \o Put(right, bottom, BottomRight)
        \o Each(w - 2, Horizontal) \o Each(h - 2, Vertical)

Title(x, y, w, title, fg, bg) ==
  IF title = <<>> THEN <<>>
  ELSE <<At(x + Quotient(w - Len(title) - 2, 2), y), Color(fg, bg), Char(Space)>>
         \o Text(title) \o <<Char(Space)>>

DrawBoxTitled(x, y, w, h, title, fg, bg) ==
  DrawBox(x, y, w, h, fg, bg) \o Title(x, y, w, title, fg, bg)

FillRect(x, y, w, h, c, fg, bg) ==
  LET Row(i) == <<At(x, y + i - 1)>> \o Times(w, c) IN <<Color(fg, bg)>> \o Each(h, Row)

DrawHline(x, y, len, fg, bg) == <<Color(fg, bg), At(x, y)>> \o Times(len, Flat)

DrawVline(x, y, len, fg, bg) ==
  LET Cell(i) == Put(x, y + i - 1, Upright) IN <<Color(fg, bg)>> \o Each(len, Cell)

DrawWindow(x, y, w, h, title) ==
  FillRect(x + 2, y + 1, w, h, Shade, DarkGrey, Black)
    \o FillRect(x, y, w, h, Space, White, Blue)
    \o DrawBoxTitled(x, y, w, h, title, White, Blue)

OpenBracket == 91  CloseBracket == 93  Percent == 37

DrawButton(x, y, text, selected) ==
  (IF selected THEN <<Color(Black, White)>> ELSE <<Color(White, Blue)>>)
    \o <<At(x, y)>> \o Text(<<OpenBracket, Space>> \o text \o <<Space, CloseBracket>>)

(* The field is filled from the number of bytes, not of characters.        *)
DrawInput(x, y, w, text, active) ==
  (IF active THEN <<Color(Black, LightGrey)>> ELSE <<Color(LightGrey, Black)>>)
    \o <<At(x, y)>> \o Text(text) \o Times(w - Len(text), Space)
    \o (IF active THEN <<At(x + Len(text), y)>> ELSE <<>>)

DrawProgress(x, y, w, percent) ==
  LET filled == Quotient((w - 2) * percent, 100)
      Cell(i) == IF i <= filled THEN <<Color(White, Green), Char(Block)>>
                 ELSE <<Color(DarkGrey, Black), Char(Shade)>>
  IN  <<At(x, y), Color(LightGrey, Black), Char(OpenBracket)>> \o Each(w - 2, Cell)
        \o <<Color(LightGrey, Black), Char(CloseBracket), Char(Space)>>
        \o PutDec(percent) \o <<Char(Percent)>>

GuiLabel(x, y, text, color) == <<At(x, y), Color(color, Black)>> \o Text(text)

GuiCheckbox(x, y, label, checked) ==
  <<At(x, y), Color(White, Black), Char(OpenBracket),
    Color(IF checked THEN LightGreen ELSE DarkGrey, Black),
    Char(IF checked THEN Tick ELSE Space),
    Color(White, Black), Char(CloseBracket), Char(Space)>> \o Text(label)

GuiMenubar(y, items, selected) ==
  LET Item(i) == <<IF i - 1 = selected THEN Color(White, Blue) ELSE Color(Black, LightGrey),
                   Char(Space)>> \o Text(items[i]) \o <<Char(Space)>>
  IN  <<At(0, y), Color(Black, LightGrey)>> \o Times(MenuWidth, Space) \o <<At(0, y)>>
        \o Each(Len(items), Item) \o <<Color(White, Black)>>

(* Column at which tab i begins.                                           *)
TabX(x, tabs, i) == FoldLeft(LAMBDA n, t : n + Len(t) + 2, x, SubSeq(tabs, 1, i - 1))

GuiTabbar(x, y, w, tabs, active) ==
  LET end == TabX(x, tabs, Len(tabs) + 1)
      Tab(i) ==
        <<IF i - 1 = active THEN Color(White, Blue) ELSE Color(DarkGrey, Black),
          At(TabX(x, tabs, i), y), Char(Space)>> \o Text(tabs[i]) \o <<Char(Space)>>
        \o (IF i - 1 = active THEN <<>>
            ELSE <<Color(DarkGrey, Black), At(TabX(x, tabs, i), y + 1)>>
                   \o Times(Len(tabs[i]) + 2, Flat))
  IN  Each(Len(tabs), Tab) \o <<Color(DarkGrey, Black), At(end, y + 1)>>
        \o Times(x + w - end, Flat) \o <<Color(White, Black)>>

(* Items are printed byte by byte, without utf8_to_cp866.                  *)
Cut(text, w) ==
  [j \in 1 .. w |-> Char(IF j <= Len(text) THEN text[j] ELSE Space)]

GuiListbox(x, y, w, h, items, selected) ==
  LET Row(i) ==
        (IF i <= Len(items) /\ i - 1 = selected THEN <<Color(Black, LightCyan)>>
         ELSE <<Color(White, Black)>>)
        \o <<At(x, y + i - 1)>> \o Cut(IF i <= Len(items) THEN items[i] ELSE <<>>, w)
  IN  Each(h, Row) \o <<Color(White, Black)>>

FaultyThumb(h, total, visible, pos) ==
  LET height == ((h - 2) * visible) \div total
  IN  [y |-> 1 + ((h - 2 - height) * pos) \div (total - visible), height |-> height]

Thumb(h, total, visible, pos) ==
  LET track == h - 2
      share == (track * visible) \div total
      height == IF share < 1 THEN 1 ELSE share
  IN  [y |-> 1 + Quotient((track - height) * pos, total - visible), height |-> height]

(* The arrows are control characters: print_char drops them.               *)
GuiScrollbar(x, y, h, total, visible, pos) ==
  LET Track(i) == Put(x, y + i, Shade)
      thumb == Thumb(h, total, visible, pos)
      Cell(i) == Put(x, y + thumb.y + i - 1, Block)
  IN  <<Color(DarkGrey, Black)>> \o Put(x, y, UpArrow) \o Each(h - 2, Track)
        \o Put(x, y + h - 1, DownArrow)
        \o (IF total > visible /\ h > 2
            THEN <<Color(LightGrey, DarkGrey)>> \o Each(thumb.height, Cell) ELSE <<>>)
        \o <<Color(White, Black)>>

PopupWidth(items) ==
  LET l == {Len(items[i]) + 4 : i \in DOMAIN items} \cup {6}
  IN  CHOOSE w \in l : \A v \in l : v <= w

(* An item is one cell wider than the inside of the frame: its last blank  *)
(* falls on the right side.                                                *)
GuiPopupMenu(x, y, items, selected) ==
  LET w == PopupWidth(items)
      Shadow(i) == Put(x + w, y + i, Space) \o Put(x + w + 1, y + i, Space)
      Item(i) ==
        (IF i - 1 = selected THEN <<Color(Black, LightGrey)>> ELSE <<Color(White, Black)>>)
        \o <<At(x + 1, y + i), Char(Space)>> \o Cut(items[i], w - 3) \o <<Char(Space)>>
  IN  <<Color(DarkGrey, Black)>> \o Each(Len(items) + 2, Shadow)
        \o DrawBox(x, y, w, Len(items) + 2, White, Black)
        \o Each(Len(items), Item) \o <<Color(White, Black)>>

-----------------------------------------------------------------------------
Nothing == [name |-> "nothing"]
Old == 35

(* The console after a program has cleared the screen and filled it.       *)
Full == Draw(Clear(Start), Times(Cols * Rows - 1, Old))

WidgetInit == drawn = Nothing

Show(call, calls) ==
  /\ con = Full
  /\ con' = Draw(con, calls)
  /\ drawn' = call

Rectangle(name, x, y, w, h, text) ==
  [name |-> name, x |-> x, y |-> y, w |-> w, h |-> h, text |-> text]

Rectangles ==
  \E x \in Xs, y \in Ys, w \in Ws, h \in Hs :
    \/ Show(Rectangle("box", x, y, w, h, <<>>), DrawBox(x, y, w, h, White, Blue))
    \/ Show(Rectangle("fill", x, y, w, h, <<>>), FillRect(x, y, w, h, Shade, White, Blue))
    \/ \E text \in Texts :
         Show(Rectangle("window", x, y, w, h, text), DrawWindow(x, y, w, h, text))
    \/ \E list \in Lists, selected \in 0 .. 1 :
         Show([name |-> "listbox", x |-> x, y |-> y, w |-> w, h |-> h, items |-> list,
               selected |-> selected], GuiListbox(x, y, w, h, list, selected))

Bars ==
  \E x \in Xs, y \in Ys, w \in Ws :
    \/ Show(Rectangle("hline", x, y, w, 1, <<>>), DrawHline(x, y, w, White, Blue))
    \/ Show(Rectangle("vline", x, y, 1, w, <<>>), DrawVline(x, y, w, White, Blue))
    \/ \E percent \in Percents :
         Show([name |-> "progress", x |-> x, y |-> y, w |-> w, percent |-> percent],
              DrawProgress(x, y, w, percent))
    \/ \E h \in Hs, total \in Ws, pos \in 0 .. 4 :
         /\ pos <= total
         /\ Show([name |-> "scrollbar", x |-> x, y |-> y, h |-> h, total |-> total + w,
                  visible |-> w, pos |-> pos], GuiScrollbar(x, y, h, total + w, w, pos))
    \/ \E list \in Lists :
         Show([name |-> "tabbar", x |-> x, y |-> y, w |-> w, items |-> list, selected |-> 0],
              GuiTabbar(x, y, w, list, 0))

Labels ==
  \E x \in Xs, y \in Ys :
    \/ \E text \in Texts, on \in BOOLEAN :
         LET call(name) == [name |-> name, x |-> x, y |-> y, text |-> text, on |-> on]
         IN  \/ Show(call("button"), DrawButton(x, y, text, on))
             \/ Show(call("checkbox"), GuiCheckbox(x, y, text, on))
             \/ on /\ Show(call("label"), GuiLabel(x, y, text, Green))
             \/ \E w \in Ws : Show([name |-> "input", x |-> x, y |-> y, w |-> w, text |-> text,
                                    on |-> on], DrawInput(x, y, w, text, on))
    \/ \E v \in Numbers :
         Show([name |-> "int", x |-> x, y |-> y, value |-> v],
              <<At(x, y)>> \o PrintInt(v))
    \/ \E v \in Numbers \cap Nat :
         Show([name |-> "hex", x |-> x, y |-> y, value |-> v], <<At(x, y)>> \o PutHex(v))
    \/ \E list \in Lists, selected \in 0 .. 1 :
         Show([name |-> "popup", x |-> x, y |-> y, items |-> list, selected |-> selected],
              GuiPopupMenu(x, y, list, selected))

Menubars ==
  \E y \in Ys, list \in Lists, selected \in 0 .. 1 :
    Show([name |-> "menubar", x |-> 0, y |-> y, items |-> list, selected |-> selected],
         GuiMenubar(y, list, selected))

(* The program clears the screen and fills it with text.                   *)
Fill ==
  /\ con # Full
  /\ con' = Full /\ drawn' = Nothing

WidgetNext == Rectangles \/ Bars \/ Labels \/ Menubars \/ Fill

-----------------------------------------------------------------------------
(* The cells a program means a widget to cover.                            *)
Area(x, y, w, h) == (x .. x + w - 1) \X (y .. y + h - 1)

DigitsOf(v) == Len(Digits(v, 10))

TabsLength(items) == TabX(0, items, Len(items) + 1)

AreaOf(d) ==
  CASE d.name = "box" ->
         Area(d.x, d.y, d.w, d.h) \ Area(d.x + 1, d.y + 1, d.w - 2, d.h - 2)
    [] d.name = "window" -> Area(d.x, d.y, d.w, d.h) \cup Area(d.x + 2, d.y + 1, d.w, d.h)
    [] d.name \in {"fill", "hline", "vline", "listbox"} -> Area(d.x, d.y, d.w, d.h)
    [] d.name = "progress"  -> Area(d.x, d.y, d.w + 2 + DigitsOf(d.percent), 1)
    [] d.name = "scrollbar" -> Area(d.x, d.y, 1, d.h)
    [] d.name = "tabbar"    ->
         Area(d.x, d.y, TabsLength(d.items), 1)
           \cup Area(d.x + Len(d.items[1]) + 2, d.y + 1, d.w - Len(d.items[1]) - 2, 1)
    [] d.name \in {"button", "checkbox"} -> Area(d.x, d.y, Len(Decoded(d.text)) + 4, 1)
    [] d.name = "label"     -> Area(d.x, d.y, Len(Decoded(d.text)), 1)
    [] d.name = "input"     -> Area(d.x, d.y, d.w, 1)
    [] d.name = "int"       -> Area(d.x, d.y, IF d.value < 0 THEN 1 + DigitsOf(-d.value)
                                              ELSE DigitsOf(d.value), 1)
    [] d.name = "hex"       -> Area(d.x, d.y, 10, 1)
    [] d.name = "menubar"   -> Area(0, d.y, MenuWidth, 1)
    [] d.name = "popup"     -> LET w == PopupWidth(d.items) n == Len(d.items) + 2
                               IN  Area(d.x, d.y, w, n) \cup Area(d.x + w, d.y + 1, 2, n)

(* The arguments make sense: a frame has corners and a middle, a text is   *)
(* not wider than its place, and the widget is on the screen and away from *)
(* its last cell, behind which the console scrolls.                        *)
Fits(d) ==
  /\ d # Nothing
  /\ AreaOf(d) \subseteq Cells \ {<<Cols - 1, Rows - 1>>}
  /\ d.name \in {"box", "window", "progress"} => d.w > 1
  /\ d.name \in {"box", "window", "scrollbar"} => d.h > 1
  /\ d.name = "window" => Len(d.text) + 2 <= d.w
  /\ d.name = "input" => Len(d.text) <= d.w
  /\ d.name \in {"tabbar", "menubar"} =>
       TabsLength(d.items) <= IF d.name = "tabbar" THEN d.w ELSE MenuWidth

(* The ends of a scrollbar are missing, and a text with letters of two     *)
(* bytes fills its field or its tab too little (smaller disagreements in   *)
(* the README).                                                            *)
Wide(text) == Len(Decoded(text)) < Len(text)

Gaps(d) ==
  CASE d.name = "scrollbar" -> {<<d.x, d.y>>, <<d.x, d.y + d.h - 1>>}
    [] d.name = "input"     -> IF Wide(d.text) THEN Cells ELSE {}
    [] d.name = "tabbar"    -> IF \E i \in DOMAIN d.items : Wide(d.items[i]) THEN Cells ELSE {}
    [] OTHER                -> {}

(* Widgets that fit do not disturb each other: a call changes no cell      *)
(* outside the area its arguments name, and nothing scrolls.               *)
StaysInside ==
  [][Fits(drawn') => \A cell \in Cells \ AreaOf(drawn') :
       con'.cells[cell[2]][cell[1]] = con.cells[cell[2]][cell[1]]]_<<con, drawn>>

(* A widget drawn over others leaves nothing of them to be seen: every     *)
(* cell of its area is written, whatever its sizes, its texts and the part *)
(* of it that is selected.                                                 *)
CoversItsArea ==
  Fits(drawn) => \A cell \in AreaOf(drawn) \ Gaps(drawn) : Glyph(con, cell) # Old

(* The thumb of a scrollbar is never lost: it lies within the track, is at *)
(* the top and at the bottom of it for the first and the last position,    *)
(* and the further down the list, the further down the thumb.              *)
ThumbIsInTrack ==
  drawn.name = "scrollbar" /\ Fits(drawn) /\ drawn.h > 2 /\ drawn.pos <= drawn.total - drawn.visible =>
    LET blocks == {i \in 0 .. drawn.h - 1 : Glyph(con, <<drawn.x, drawn.y + i>>) = Block}
    IN  /\ blocks # {} /\ blocks \subseteq 1 .. drawn.h - 2
        /\ drawn.pos = 0 => 1 \in blocks
        /\ drawn.pos = drawn.total - drawn.visible => drawn.h - 2 \in blocks
        /\ (drawn.pos < drawn.total - drawn.visible /\ Cardinality(blocks) < drawn.h - 2)
             => drawn.h - 2 \notin blocks

(* Both: a widget that was drawn is all there.                             *)
WidgetsAreWhole == CoversItsArea /\ ThumbIsInTrack
=============================================================================
