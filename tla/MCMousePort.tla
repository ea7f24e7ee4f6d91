---------------------------- MODULE MCMousePort -----------------------------
(***************************************************************************)
(* MousePort for TLC: firmware that left the mouse's interrupt off or on,  *)
(* a scan code and an ACK as stray bytes; a small screen and five reports: *)
(* one whose motion bytes are clear, one with bit 3 in both, one with bit  *)
(* 3 in the first only, one that overflowed, one that needs its ninth bit. *)
(***************************************************************************)
EXTENDS MousePort

R(b, mx, my, over) == [buttons |-> b, mx |-> mx, my |-> my, over |-> over]

MCReports == {R(1, 2, 3, FALSE), R(0, -1, 8, FALSE), R(2, 9, -64, FALSE),
              R(4, 1, 1, TRUE), R(0, 192, 0, FALSE)}

MCPoints == {<<-1, 3>>, <<9, 9>>, <<511, -512>>}
MCSens == {0, 3}

MCConfigs == {69, 71}
MCStray == {30, ACK}
=============================================================================
