------------------------------ MODULE MCFat16 -------------------------------
(***************************************************************************)
(* Small volumes for Fat16: two FAT sectors of four entries, so that the   *)
(* five data clusters 2 .. 6 straddle them, one root sector of four slots, *)
(* two sectors to a cluster, and a window that ends in the middle of       *)
(* cluster 6.  The sizes are files of one, two and three clusters.         *)
(***************************************************************************)
EXTENDS Fat16

MCFiles == {"A", "B"}
MCDirs  == {"D"}
MCSizes == {0, 3, 5}

(* A volume with the given FAT links and root entries and all else free.   *)
Image(links, root, sub, exp) ==
  [disk |-> [l \in Lbas |->
     CASE l \in FatStart .. RootStart - 1 ->
            [i \in 0 .. EPS - 1 |->
               LET c == ((l - FatStart) % FatSize) * EPS + i
               IN  IF c = 0 THEN 65528 ELSE IF c = 1 THEN EOC
                   ELSE IF c \in DOMAIN links THEN links[c] ELSE 0]
       [] l = RootStart ->
            [entries |-> [i \in 0 .. DPS - 1 |->
               IF i < Len(root) THEN root[i + 1] ELSE FREE]]
       [] l \in DOMAIN sub -> sub[l]
       [] OTHER -> Zeroed],
   expect |-> [p \in Paths |-> IF p \in DOMAIN exp THEN exp[p] ELSE Absent]]

Nothing == [x \in {} |-> 0]

(* A fresh volume, and one the host has worked on: a deleted entry, then a *)
(* file A in two clusters that cross the FAT sectors, and a directory D.   *)
MCImages ==
  {Image(Nothing, <<>>, Nothing, Nothing),
   Image([c \in {2, 3, 4} |-> IF c = 3 THEN 4 ELSE EOC],
         <<DELETED, File("A", 3, 3), Dir("D", 2)>>,
         [l \in ClusterLbas(3) \union ClusterLbas(4) |->
            Data(<<"A">>, 0, l - clus_lba(3))],
         [p \in {<<"A">>} |-> <<0, 3>>])}
=============================================================================
