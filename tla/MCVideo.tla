------------------------------ MODULE MCVideo ------------------------------
(***************************************************************************)
(* Video for TLC.  A small screen, with sizes and places on which widgets  *)
(* end at, wrap at and hang over its edges; a text of one and one of two   *)
(* bytes per letter; a line that fills its buffer.                         *)
(***************************************************************************)
EXTENDS Video

MCStyles  == {0, 3}
MCMaxLens == {0, 3}
MCKeys    == {97, 98, Backspace, Newline, 27}
MCXs      == {-1, 0, 4, 7}
MCYs      == {0, 1, 4}
MCWs      == 1 .. 5
MCHs      == 1 .. 4
MCTexts   == {<<>>, <<97>>, <<97, 98>>, <<208, 144>>}
MCLists   == {<<<<97>>>>, <<<<97>>, <<98, 98, 98>>>>, <<<<97>>, <<208, 144>>>>}
MCPercents == {0, 33, 99, 100}
MCNumbers == {0, 7, -10, 160}

MCPoints     == {-3, 0, 5, 23}
MCRadii      == {0, 1, 2, 4, 9, 30}
MCSizes      == {0, 1, 2, 7}
MCBarXs      == {-8, 0, 5, 8}
MCBarYs      == {-16, -3, 0, 16}
MCBackground == <<0, 16711680, 1193046>>
=============================================================================
