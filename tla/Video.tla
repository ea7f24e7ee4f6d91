------------------------------- MODULE Video -------------------------------
(***************************************************************************)
(* The display as programs use it: lines read from the keyboard, text      *)
(* widgets, and pixel graphics.  One at a time: each begins on a screen    *)
(* the others have left.                                                   *)
(***************************************************************************)
EXTENDS Widgets, Raster

videoVars == <<con, line, keys, drawn, rvars>>

VideoInit == ConsoleInit /\ WidgetInit /\ RasterInit

Typing  == drawn = Nothing /\ job = Idle /\ ~cursor.on
             /\ ConsoleNext /\ UNCHANGED <<drawn, rvars>>
Drawing == keys = 0 /\ ~line.on /\ job = Idle /\ ~cursor.on
             /\ WidgetNext /\ UNCHANGED <<line, keys, rvars>>
Painting == keys = 0 /\ ~line.on /\ drawn = Nothing
              /\ RasterNext /\ UNCHANGED <<con, line, keys, drawn>>

VideoNext == Typing \/ Drawing \/ Painting

(* The loop of a primitive runs to its end: nothing waits in it.           *)
Looping == (LineStep \/ CircleStep) /\ UNCHANGED <<con, line, keys, drawn>>

VideoSpec == VideoInit /\ [][VideoNext]_videoVars /\ WF_videoVars(Looping)
=============================================================================
