----------------------------- MODULE MCStorage ------------------------------
(***************************************************************************)
(* Storage for TLC: four clusters of one sector in two FAT sectors of      *)
(* three entries, one root sector of three slots, all of it in the window. *)
(* The volume holds a file B with its links in both FAT sectors and a free *)
(* cluster between its two.                                                *)
(***************************************************************************)
EXTENDS Storage

MCFiles == {"A", "B"}
MCDirs  == {"D"}
MCSizes == {0, 2}

(* The FAT links, the root entries and the data sectors of an image.       *)
Image(links, root, data, exp) ==
  [disk |-> [l \in Lbas |->
     CASE l \in FatStart .. RootStart - 1 ->
            [i \in 0 .. EPS - 1 |->
               LET c == ((l - FatStart) % FatSize) * EPS + i
               IN  IF c \in DOMAIN links THEN links[c]
                   ELSE IF c < 2 THEN EOC ELSE 0]
       [] l = RootStart ->
            [entries |-> [i \in 0 .. DPS - 1 |->
               IF i < Len(root) THEN root[i + 1] ELSE FREE]]
       [] l \in DOMAIN data -> data[l]
       [] OTHER -> Zeroed],
   expect |-> [p \in Paths |-> IF p \in DOMAIN exp THEN exp[p] ELSE Absent]]

MCImages ==
  {Image([c \in {2, 4} |-> IF c = 2 THEN 4 ELSE EOC], <<File("B", 2, 2)>>,
         [l \in {clus_lba(2), clus_lba(4)} |->
            Data(<<"B">>, 0, IF l = clus_lba(2) THEN 0 ELSE 1)],
         [p \in {<<"B">>} |-> <<0, 2>>])}
=============================================================================
