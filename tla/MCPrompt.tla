------------------------------ MODULE MCPrompt ------------------------------
(***************************************************************************)
(* Prompt for TLC.  A directory and the file of the configuration, names   *)
(* in two spellings, a name cut short and one that ends a line.  Two lines *)
(* typed that name a program of the current directory or of BIN, or a      *)
(* path; every file is absent, a program, too short for a header, refused  *)
(* by zxe_validate, or unreadable half way.                                *)
(***************************************************************************)
EXTENDS Prompt

MCTyped == {"docs", "DOCS", "conf", "config"}
MCShort == [n \in MCTyped |-> CASE n = "conf" -> "CONF" [] n = "config" -> "CONFIG"
                                [] OTHER -> "DOCS"]
MCInner == {"docs"}
(* one letter too many                                                     *)
MCUsers == {<<97, 98, 99>>}
(* a name that ends a line                                                 *)
MCHosts == {<<97, 10>>}
(* -1                                                                      *)
MCStyles == {<<45, 49>>}
(* d2                                                                      *)
MCColors == {<<100, 50>>}
MCDefault == [user |-> <<117>>, host |-> <<>>, style |-> 0, color |-> 10]

Cwd == <<"cwd", "edit">>
Bin == <<"BIN", "edit">>

Content(h, ok) == [head |-> h, reads |-> ok]

Held(name) == {Absent, Content(name, TRUE), Content(name, FALSE), Content("none", TRUE),
               Content("bad", TRUE), Content("large", TRUE)}

MCVolumes == {v \in [{Cwd, Bin} -> Held("edit") \union Held("calc")] :
                v[Cwd] \in Held("edit") /\ v[Bin] \in Held("calc")}
MCCommands == {<<Cwd, Bin>>, <<Bin>>}
MCExitCodes == {0, 7}
MCFaults == {13, 14}
=============================================================================
