------------------------------ MODULE Console ------------------------------
(***************************************************************************)
(* The text console, kernel/drivers/video.c, and the two functions that    *)
(* read a line with it: read_line of the shell and ap_read_line of the     *)
(* system calls.                                                           *)
(*                                                                         *)
(* A cell stands for the 8 by 16 pixels of a character.  The modes in      *)
(* which the screen is a whole number of cells are modelled: 1024 by 768   *)
(* and 640 by 480.  A character is its code in CP866; a string is a        *)
(* sequence of bytes.                                                      *)
(***************************************************************************)
EXTENDS Integers, Sequences, FiniteSets, SequencesExt

CONSTANTS
  Cols, Rows,  \* VIDEO_TEXT_COLS, VIDEO_TEXT_ROWS
  BufferSize,  \* SHELL_BUFFER_SIZE
  Styles,      \* bound: current_config.prompt_style
  MaxLens,     \* bound: the max_len programs pass to input()
  Keys,        \* bound: the characters typed
  MaxKeys      \* bound: how many

ASSUME ConsoleAssumption ==
  /\ {Cols, Rows, BufferSize} \subseteq Nat \ {0}
  /\ MaxLens \subseteq Nat /\ Styles \subseteq Int /\ MaxKeys \in Nat
  /\ Keys \subseteq 0 .. 255

VARIABLES
  con,  \* the cells, g_cur_x, g_cur_y, g_fg, g_bg
  line, \* the running read_line: what it is, input_buffer up to input_pos,
        \* and as history where it began, how long it has been, and whether
        \* the text still lies in one row
  keys  \* bound: keys typed so far

Space == 32  Newline == 10  Return == 13  Backspace == 8

Black == 0  White == 1

Lines   == 0 .. Rows - 1
Columns == 0 .. Cols - 1
Cells   == Columns \X Lines

-----------------------------------------------------------------------------
(* What a character looks like: of a blank only the background is seen.    *)
Picture(c, fg, bg) == IF c = Space THEN <<Space, bg, bg>> ELSE <<c, fg, bg>>

Glyph(s, cell) == s.cells[cell[2]][cell[1]][1]

(* Pixels outside the screen are skipped one by one.                       *)
PutCharAt(s, col, row, c) ==
  IF <<col, row>> \in Cells
  THEN [s EXCEPT !.cells[row][col] = Picture(c, s.fg, s.bg)]
  ELSE s

ScrollUp(s) ==
  [s EXCEPT !.cells = [r \in Lines |->
     IF r + 1 \in Lines THEN s.cells[r + 1]
     ELSE [k \in Columns |-> Picture(Space, s.fg, s.bg)]]]

NextRow(s) ==
  IF s.y + 1 >= Rows
  THEN [ScrollUp(s) EXCEPT !.x = 0, !.y = Rows - 1]
  ELSE [s EXCEPT !.x = 0, !.y = @ + 1]

FaultyErase(s) == [s EXCEPT !.x = @ - 1]

Erase(s) == [PutCharAt(s, s.x - 1, s.y, Space) EXCEPT !.x = @ - 1]

PrintChar(s, c) ==
  CASE c = Newline   -> NextRow(s)
    [] c = Backspace -> IF s.x > 0 THEN Erase(s) ELSE s
    [] c = Return    -> [s EXCEPT !.x = 0]
    [] c >= Space    -> LET put == PutCharAt(s, s.x, s.y, c)
                        IN  IF s.x + 1 >= Cols THEN NextRow(put)
                            ELSE [put EXCEPT !.x = @ + 1]
    [] OTHER         -> s

BlankScreen == [r \in Lines |-> [k \in Columns |-> Picture(Space, Black, Black)]]

Clear(s) == [s EXCEPT !.cells = BlankScreen]

(* As video_init leaves it.                                                *)
Start == [cells |-> BlankScreen, x |-> 0, y |-> 0, fg |-> White, bg |-> Black]

-----------------------------------------------------------------------------
(* UTF-8 to CP866, as video_print and video_puts do.                       *)
Cyrillic(lead, b) ==
  IF lead = 208 /\ b = 129 THEN 240
  ELSE IF lead = 208 /\ b \in 144 .. 175 THEN 128 + (b - 144)
  ELSE IF lead = 208 /\ b \in 176 .. 191 THEN 160 + (b - 176)
  ELSE IF lead = 209 /\ b = 145 THEN 241
  ELSE IF lead = 209 /\ b \in 128 .. 143 THEN 224 + (b - 128)
  ELSE 63

Decode(acc, b) ==
  IF acc.lead # 0 THEN [out |-> Append(acc.out, Cyrillic(acc.lead, b)), lead |-> 0]
  ELSE IF b \in {208, 209} THEN [acc EXCEPT !.lead = b]
  ELSE [acc EXCEPT !.out = Append(@, IF b < 128 THEN b ELSE 63)]

Decoded(bytes) ==
  LET after[i \in 0 .. Len(bytes)] ==
        IF i = 0 THEN [out |-> <<>>, lead |-> 0] ELSE Decode(after[i - 1], bytes[i])
      end == after[Len(bytes)]
  IN  IF end.lead = 0 THEN end.out ELSE Append(end.out, 63)

(* Calls of the console, so that a drawing is the sequence of calls it     *)
(* makes.                                                                  *)
At(x, y)      == <<"set_cursor", x, y>>
Color(fg, bg) == <<"set_color", fg, bg>>
Char(c)       == <<"print_char", c>>
Text(bytes)   == [i \in DOMAIN Decoded(bytes) |-> Char(Decoded(bytes)[i])]
Times(n, c)   == IF n < 1 THEN <<>> ELSE [i \in 1 .. n |-> Char(c)]

Do(s, c) ==
  CASE c[1] = "set_cursor" -> [s EXCEPT !.x = c[2], !.y = c[3]]
    [] c[1] = "set_color"  -> [s EXCEPT !.fg = c[2], !.bg = c[3]]
    [] c[1] = "print_char" -> PrintChar(s, c[2])

Draw(s, calls) ==
  LET after[i \in 0 .. Len(calls)] == IF i = 0 THEN s ELSE Do(after[i - 1], calls[i])
  IN  after[Len(calls)]

(* video_put_dec and video_put_hex.                                        *)
Digits(n, base) ==
  LET Digit(d) == IF d < 10 THEN 48 + d ELSE 55 + d
      digits[k \in Nat] == IF k < base THEN <<Digit(k)>>
                           ELSE Append(digits[k \div base], Digit(k % base))
  IN  digits[n]

PutDec(n) == Text(Digits(n, 10))

PutHex(n) ==
  LET d == Digits(n, 16) IN Text(<<48, 120>>) \o Times(8 - Len(d), 48) \o Text(d)

-----------------------------------------------------------------------------
(* Reading a line.                                                         *)
NoLine ==
  [on |-> FALSE, buf |-> <<>>, max |-> 0, x |-> 0, y |-> 0, most |-> 0, flat |-> TRUE]

ConsoleInit == con = Start /\ line = NoLine /\ keys = 0

(* shell_prompt and read_line (max = 0), or ap_read_line of a program.     *)
Begin(max, prompt) ==
  /\ ~line.on
  /\ con' = Draw(con, prompt)
  /\ line' = [on |-> TRUE, buf |-> <<>>, max |-> max,
              x |-> con'.x, y |-> con'.y, most |-> 0, flat |-> TRUE]
  /\ UNCHANGED keys

Type(c) ==
  /\ line.on /\ c \in Keys
  /\ keys < MaxKeys
  /\ keys' = keys + 1

EndLine == line' = [line EXCEPT !.on = FALSE]

Longer(c) ==
  [line EXCEPT !.buf = Append(@, c), !.most = IF @ > Len(line.buf) THEN @ ELSE @ + 1,
               !.flat = @ /\ c >= Space /\ con.x + 1 < Cols]

(* Characters below 32 are stored and not shown.                           *)
ShellKey(c) ==
  /\ Type(c) /\ line.max = 0
  /\ CASE c = Newline   -> con' = PrintChar(con, Newline) /\ EndLine
       [] c = Backspace ->
            IF line.buf # <<>>
            THEN con' = PrintChar(con, Backspace) /\ line' = [line EXCEPT !.buf = Front(@)]
            ELSE UNCHANGED <<con, line>>
       [] OTHER         ->
            IF Len(line.buf) < BufferSize - 1
            THEN /\ con' = PrintChar(con, c)
                 /\ line' = Longer(c)
            ELSE UNCHANGED <<con, line>>

(* Ends with Enter, or when the buffer is full.                            *)
ProgramKey(c) ==
  /\ Type(c) /\ Len(line.buf) < line.max - 1
  /\ CASE c = Newline   -> con' = PrintChar(con, Newline) /\ EndLine
       [] c = Backspace ->
            IF line.buf # <<>>
            THEN con' = PrintChar(con, Backspace) /\ line' = [line EXCEPT !.buf = Front(@)]
            ELSE UNCHANGED <<con, line>>
       [] c >= Space    ->
            /\ con' = PrintChar(con, c)
            /\ line' = Longer(c)
       [] OTHER         -> UNCHANGED <<con, line>>

BufferFull ==
  /\ line.on /\ line.max > 0 /\ Len(line.buf) >= line.max - 1
  /\ EndLine /\ UNCHANGED <<con, keys>>

(* shell_prompt, with names of one letter.                                 *)
Prompt(style) ==
  LET user == <<117>>
      host == <<64, 104>>
  IN  CASE style = 1 -> Text(user \o host \o <<Space, 62, Space>>)
        [] style = 2 -> Text(user \o <<35, Space>>)
        [] style = 3 -> Text(user \o <<200>>)
        [] OTHER     -> Text(user \o host \o <<58, 126, 36, Space>>)

ConsoleNext ==
  \/ \E style \in Styles : Begin(0, Prompt(style))
  \/ \E max \in MaxLens \ {0} : Begin(max, <<>>)
  \/ \E c \in Keys : ShellKey(c) \/ ProgramKey(c)
  \/ BufferFull

-----------------------------------------------------------------------------
(* What a user edits is what will be executed: while the text stays within *)
(* the row it began in and has no control characters, the characters of    *)
(* the buffer are on the screen, in place, the cursor is behind the last,  *)
(* and what was erased is gone from the screen.  After a wrap it fails:    *)
(* Backspace cannot go back to the row above (video.c:318).                *)
LineIsShown ==
  line.on /\ line.flat =>
    /\ <<con.x, con.y>> = <<line.x + Len(line.buf), line.y>>
    /\ \A i \in 1 .. line.most :
         Glyph(con, <<line.x + i - 1, line.y>>) =
           IF i \in DOMAIN line.buf THEN line.buf[i] ELSE Space
=============================================================================
