------------------------------ MODULE MCMaptbl ------------------------------
(***************************************************************************)
(* Stripes of 20 PEBs and pages of 41 LEBs (476 and 1016 in the code, the  *)
(* same ratio), one copy of the superblock, and counts of 16 and 32 bits   *)
(* that end at 101 and 1000.                                               *)
(***************************************************************************)
EXTENDS Maptbl

Volumes(pebs, perSeg, stripes, dies, zns) ==
  [pebs : pebs, tail : {0}, perSeg : perSeg, stripes : stripes, portions : {1, 4}, dies : dies,
   bmapSegs : {1}, bmapLebs : {1}, pairs : {3}, erase : BOOLEAN, backup : {FALSE},
   zns : zns]

(* Block devices with one to three PEBs per segment and numbers of stripes *)
(* that lead to one, two and three; two NAND dies, with a cache of one     *)
(* fragment and of several; many NAND dies, whose LEBs collide, or reach   *)
(* the end of the volume or a page behind their portion; a backup copy;    *)
(* portions that do not fit; zoned devices of one to five stripes.  Then   *)
(* the counts at their limits: pre-erased PEBs, portions, portions of a    *)
(* segment, fragments of the cache, indexes in a portion, and the stripes  *)
(* and the portion of a zoned device.                                      *)
MCLayouts ==
  Volumes(12 .. 50, {1}, {1, 3, 7}, {1}, {FALSE})
  \cup { l \in Volumes(24 .. 60, {2, 3}, {1, 3}, {1}, {FALSE}) : l.pebs % l.perSeg = 0 }
  \cup [pebs : {24, 26, 48, 60}, tail : {0, 1}, perSeg : {2}, stripes : {1, 2}, portions : {1, 4},
        dies : {2}, bmapSegs : {1, 2}, bmapLebs : {1, 2}, pairs : {3, 8, 20},
        erase : BOOLEAN, backup : {FALSE}, zns : {FALSE}]
  \cup [pebs : {40, 44}, tail : {0}, perSeg : {2}, stripes : {1, 3}, portions : {4}, dies : {1},
        bmapSegs : {5}, bmapLebs : {1, 2}, pairs : {3}, erase : BOOLEAN,
        backup : {FALSE}, zns : {FALSE}]
  \cup Volumes({36}, {3}, {2}, {2}, {FALSE})
  \cup Volumes({24, 60}, {2}, {1}, {4, 12, 16, 30}, {FALSE})
  \cup { [l EXCEPT !.pairs = 60] : l \in Volumes({80}, {2}, {8}, {2}, {FALSE})
                                       \cup Volumes({104}, {8}, {1}, {7, 8}, {FALSE}) }
  \cup Volumes(12 .. 90, {1}, {1}, {1}, {TRUE})
  \cup [pebs : {24}, tail : {0}, perSeg : {1, 2}, stripes : {1, 30}, portions : {1, 4}, dies : {1},
        bmapSegs : {1, 2}, bmapLebs : {1}, pairs : {3}, erase : {TRUE},
        backup : BOOLEAN, zns : {FALSE}]
  \cup Volumes({101, 102, 107, 108, 110}, {1}, {1}, {1}, {FALSE})
  \cup Volumes({5000, 50000}, {1}, {1}, {1}, {FALSE})
  \cup { [l EXCEPT !.portions = 4] : l \in Volumes({444}, {37}, {1}, {1}, {FALSE}) }
  \cup { [l EXCEPT !.bmapSegs = 100, !.pairs = 1] : l \in Volumes({240}, {1}, {1}, {1}, {FALSE}) }
  \cup { [l EXCEPT !.pairs = 8] : l \in Volumes({444}, {37}, {13}, {1}, {FALSE}) }
  \cup Volumes({104, 2020, 2040}, {1}, {1}, {1}, {TRUE})

(* Zoned devices with default options. *)
ZonedLayouts == Volumes(40 .. 50, {1}, {1}, {1}, {TRUE})
=============================================================================
