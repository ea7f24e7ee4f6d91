------------------------------- MODULE Shell -------------------------------
(***************************************************************************)
(* What the shell keeps: the current directory and the configuration, with *)
(* the commands and system calls that change them (kernel/shell/shell.c,   *)
(* kernel/api.c), over the directories of a volume as fat16.c searches     *)
(* them.  A key of the configuration file with its = is one character.     *)
(***************************************************************************)
EXTENDS Text

CONSTANTS
  Typed,       \* bound: the names users and programs use
  Short,       \* the 8.3 name of each: upper case, and cut
  Conf, Config,\* the 8.3 names of the directory and the file of the configuration
  RootSize,    \* the entries of the root directory
  NameMax,     \* the longest user or host name: 31
  ColorBits,   \* the bits of a colour that are saved: 24
  Inner,       \* bound: the names of files written inside a directory
  Users, Hosts, Styles, Colors,   \* bound: the values set, as typed
  Default      \* config_default

Shorts == {Short[n] : n \in Typed}

ASSUME ShellAssumption ==
  /\ Short \in [Typed -> Shorts] /\ Conf \in Shorts /\ Config \in Shorts
  /\ RootSize \in Nat \ {0} /\ NameMax \in Nat /\ ColorBits \in Nat
  /\ Inner \subseteq Typed

VARIABLES
  root,     \* the root directory: its entries in order
  inside,   \* the files of each directory of the root
  text,     \* the contents of CONF/CONFIG
  cwd,      \* current_dir: <<>> for the root, else <<a name as typed>>
  conf,     \* current_config
  kept,     \* history: the last save of the configuration worked
  lost      \* history: the directories a file took the place of

shellVars == <<root, inside, text, cwd, conf, kept, lost>>

-----------------------------------------------------------------------------
(* Directories.  A name without a slash is looked for in the root, and the *)
(* first entry counts; the name before a slash only among directories.     *)
Entry(kind, name) == [kind |-> kind, name |-> name]
EntryOf(name) == SelectInSeq(root, LAMBDA e : e.name = name)
IsDir(name) == Contains(root, Entry("dir", name))

Missing == [kind |-> "none", name |-> Conf]

Found(path) ==
  IF Len(path) = 2
  THEN IF IsDir(path[1]) /\ path[2] \in inside[path[1]] THEN Entry("file", path[2])
       ELSE Missing
  ELSE IF EntryOf(path[1]) = 0 THEN Missing ELSE root[EntryOf(path[1])]

(* cmd_ls, fat16_list_dir: the files it lists.                             *)
Listed ==
  IF cwd = <<>> THEN {n \in Shorts : Contains(root, Entry("file", n))}
  ELSE IF IsDir(Short[cwd[1]]) THEN inside[Short[cwd[1]]] ELSE {}

FaultyHere(name) == <<Short[name]>>

(* cmd_cat and try_run: a name without a slash.                            *)
Here(name) == IF cwd = <<>> THEN <<Short[name]>> ELSE <<Short[cwd[1]], Short[name]>>

(* cmd_cd.  A target of two names is no directory: none has directories.   *)
Cd(target) ==
  /\ cwd' = CASE target = "/" \/ target = ".." -> <<>>
              [] target \in Typed /\ cwd = <<>> /\ Found(<<Short[target]>>).kind = "dir"
                   -> <<target>>
              [] OTHER -> cwd
  /\ UNCHANGED <<root, inside, text, conf, kept, lost>>

(* cd /name, from anywhere.                                                *)
CdRoot(name) ==
  /\ Found(<<Short[name]>>).kind = "dir"
  /\ cwd' = <<name>>
  /\ UNCHANGED <<root, inside, text, conf, kept, lost>>

(* cmd_mkdir, fat16_mkdir: in the root, wherever the shell is, and next to *)
(* a file of that name.                                                    *)
Mkdir(name) ==
  /\ ~IsDir(Short[name]) /\ Len(root) < RootSize
  /\ root' = Append(root, Entry("dir", Short[name]))
  /\ inside' = [inside EXCEPT ![Short[name]] = {}]
  /\ lost' = lost \ {Short[name]}
  /\ UNCHANGED <<text, cwd, conf, kept>>

(* ap_fwrite of a program.  A name without a slash takes the first entry   *)
(* of that name, also a directory with all that is in it.                  *)
WriteInRoot(name) ==
  LET n == Short[name]
      k == EntryOf(n)
      over == k # 0 /\ root[k].kind = "dir"
  IN  /\ IF k # 0 THEN root' = [root EXCEPT ![k] = Entry("file", n)]
         ELSE Len(root) < RootSize /\ root' = Append(root, Entry("file", n))
      /\ inside' = IF over THEN [inside EXCEPT ![n] = {}] ELSE inside
      /\ lost' = IF over THEN lost \cup {n} ELSE lost
      /\ kept' = (kept /\ ~(over /\ n = Conf))
      /\ text' = IF over /\ n = Conf THEN <<>> ELSE text
      /\ UNCHANGED <<cwd, conf>>

WriteInside(dir, name) ==
  /\ IsDir(Short[dir]) /\ <<Short[dir], Short[name]>> # <<Conf, Config>>
  /\ inside' = [inside EXCEPT ![Short[dir]] = @ \cup {Short[name]}]
  /\ UNCHANGED <<root, text, cwd, conf, kept, lost>>

-----------------------------------------------------------------------------
(* The configuration file.                                                 *)
Newline == 10
Return == 13
UserKey == 301
HostKey == 302
StyleKey == 303
ColorKey == 304

Configurations == [user : Seq(Nat), host : Seq(Nat), style : Int, color : Nat]

Masked(color) == color % 2 ^ ColorBits

FaultyConfigText(c) ==
  <<UserKey>> \o c.user \o <<Newline, HostKey>> \o c.host
  \o <<Newline, StyleKey>> \o Itoa(c.style, 10)
  \o <<Newline, ColorKey>> \o Utoa(Masked(c.color), 10) \o <<Newline>>

(* shell_save_config: the text it writes.                                  *)
ConfigText(c) ==
  <<UserKey>> \o c.user \o <<Newline, HostKey>> \o c.host
  \o <<Newline, StyleKey>> \o Itoa(c.style, 10)
  \o <<Newline, ColorKey>> \o Utoa(Masked(c.color), 16) \o <<Newline>>

Clipped(name) == StringAt(Strncpy(name, NameMax) \o <<Nul>>, 1)

(* parse_kv.                                                               *)
ParseKv(c, line) ==
  LET val == SubSeq(line, 2, SelectLastInSeq(line, LAMBDA x : x \notin {Return, Newline}))
  IN  CASE line[1] = UserKey  -> [c EXCEPT !.user = Clipped(val)]
        [] line[1] = HostKey  -> [c EXCEPT !.host = Clipped(val)]
        [] line[1] = StyleKey -> [c EXCEPT !.style = Atoi(val)]
        [] line[1] = ColorKey -> [c EXCEPT !.color = Strtoul(val, 16)]
        [] OTHER              -> c

(* shell_load_config: its loop, from a place in the buffer on.             *)
Parsed(c, buf, save) ==
  LET from[d \in Configurations, b \in Seq(Nat), s \in Nat] ==
        LET r == Strtok(b, s, <<Newline>>)
        IN  IF r.start = 0 THEN d
            ELSE from[ParseKv(d, StringAt(r.buf, r.start)), r.buf, r.save]
  IN  from[c, buf, save]

LoadedConf ==
  IF Found(<<Conf, Config>>) = Missing \/ text = <<>> THEN Default
  ELSE Parsed(Default, text \o <<Nul>>, 1)

(* shell_save_config: the file stays as it was, or is damaged, when the    *)
(* write fails; it always fails without the directory.                     *)
Save(c) ==
  \/ /\ IsDir(Conf)
     /\ text' = ConfigText(c) /\ kept' = TRUE
     /\ inside' = [inside EXCEPT ![Conf] = @ \cup {Config}]
  \/ /\ text' \in {text, <<>>} /\ kept' = FALSE
     /\ UNCHANGED inside

(* cmd_set and ap_set_username, ap_set_hostname.                           *)
Set(c) ==
  /\ conf' = c
  /\ Save(c)
  /\ UNCHANGED <<root, cwd, lost>>

SetUser(arg)  == Set([conf EXCEPT !.user = Clipped(arg)])
SetHost(arg)  == Set([conf EXCEPT !.host = Clipped(arg)])
SetStyle(arg) == Set([conf EXCEPT !.style = Atoi(arg)])
SetColor(arg) == Set([conf EXCEPT !.color = Strtoul(arg, 16)])

(* reboot: the volume is what it was, the rest starts anew.                *)
Restart ==
  /\ conf' = LoadedConf
  /\ cwd' = <<>>
  /\ UNCHANGED <<root, inside, text, kept, lost>>

ShellInit ==
  /\ root = <<Entry("dir", Conf)>>
  /\ inside = [n \in Shorts |-> {}]
  /\ text = <<>> /\ cwd = <<>> /\ conf = Default
  /\ kept = FALSE /\ lost = {}

ShellNext ==
  \/ \E target \in Typed \cup {"/", ".."} : Cd(target)
  \/ \E name \in Typed : CdRoot(name) \/ Mkdir(name) \/ WriteInRoot(name)
  \/ \E dir \in Typed, name \in Inner : WriteInside(dir, name)
  \/ \E arg \in Users : SetUser(arg)
  \/ \E arg \in Hosts : SetHost(arg)
  \/ \E arg \in Styles : SetStyle(arg)
  \/ \E arg \in Colors : SetColor(arg)
  \/ Restart

ShellSpec == ShellInit /\ [][ShellNext]_shellVars

-----------------------------------------------------------------------------
DirTypes ==
  /\ root \in Seq([kind : {"dir", "file"}, name : Shorts]) /\ Len(root) <= RootSize
  /\ inside \in [Shorts -> SUBSET Shorts] /\ lost \subseteq Shorts
  /\ cwd = <<>> \/ cwd \in {<<n>> : n \in Typed}

(* The configuration fits its variables - a name its buffer, a number its  *)
(* word - whatever is typed, set by a program or read back from the file.  *)
ConfigFits ==
  /\ conf \in Configurations
  /\ Len(conf.user) <= NameMax /\ Len(conf.host) <= NameMax
  /\ conf.style \in -(2 ^ (Width - 1)) .. 2 ^ (Width - 1) - 1
  /\ conf.color \in 0 .. 2 ^ Width - 1
  /\ text \in Seq(Nat) /\ kept \in BOOLEAN

(* The names a file of the configuration can hold: a line is one name.     *)
Plain(name) == Newline \notin ToSet(name) /\ (name # <<>> => Last(name) # Return)

(* A restart brings back what was set, colours to the bits that are saved, *)
(* if the last save worked and a program gave no name that breaks a line;  *)
(* and the configuration fits its variables all the time.                  *)
ConfigComesBack ==
  /\ []ConfigFits
  /\ [][kept /\ Plain(conf.user) /\ Plain(conf.host) /\ Restart
          => conf' = [conf EXCEPT !.color = Masked(@)]]_shellVars

(* The shell is somewhere: unless a program wrote a file over it, the      *)
(* current directory exists, and a file that ls lists there is the one     *)
(* that cat and the start of a program find, by whatever spelling.         *)
HereIsHere ==
  /\ DirTypes
  /\ cwd # <<>> /\ Short[cwd[1]] \notin lost => IsDir(Short[cwd[1]])
  /\ \A name \in Typed : Short[name] \in Listed =>
       Found(Here(name)) = Entry("file", Short[name])
=============================================================================
