--------------------------- MODULE MaptblGeometry ---------------------------
(***************************************************************************)
(* The size of the PEB mapping table: what maptbl_mkfs_allocation_policy   *)
(* derives from the volume and the options.                                *)
(***************************************************************************)
EXTENDS Rounding

CONSTANTS
  PebDesc,     \* SSDFS_PEB_DESC_PER_FRAGMENT(PAGE_CACHE_SIZE)
  LebDesc,     \* SSDFS_LEB_DESC_PER_FRAGMENT(PAGE_CACHE_SIZE)
  ErasePages   \* pages of a PEB

(* The stripes are made a multiple or a divisor of the NAND dies. *)
Corrected(stripes, dies) ==
  IF stripes > dies THEN stripes - (stripes % dies)
  ELSE IF stripes < dies THEN stripes - (dies % stripes)
  ELSE stripes

(* A portion's LEBs fill whole pages; a zoned volume has one portion. *)
Stripes(l) ==
  LET s == Corrected(l.stripes, l.dies)
      perPortion == PebDesc * s
  IN  IF l.zns THEN CeilDiv(l.pebs, perPortion)
      ELSE IF LebDesc >= perPortion THEN LebDesc \div PebDesc
      ELSE perPortion \div LebDesc

(* Stripes of segments with more PEBs than stripes hold whole groups. *)
PebDescPerStripe(l) ==
  IF l.perSeg > Stripes(l)
  THEN LET group == CeilDiv(l.perSeg, Stripes(l)) IN (PebDesc \div group) * group
  ELSE PebDesc

PortionPages(l) ==
  Stripes(l) + CeilDiv(PebDescPerStripe(l) * Stripes(l), LebDesc)

(* As many portions in a PEB as asked for, if they fit. *)
PortionsPerFragment(l) ==
  LET fit == ErasePages \div PortionPages(l)
      asked == l.portions * PortionPages(l)
      excess == CeilDiv(asked - ErasePages, PortionPages(l))
  IN  IF asked > ErasePages
      THEN IF fit > l.portions - excess THEN fit ELSE l.portions - excess
      ELSE l.portions

Geometry(l) ==
  LET perPortion == PebDescPerStripe(l) * Stripes(l)
      perFragment == PortionsPerFragment(l)
      used == CeilDiv(CeilDiv(l.pebs, perPortion), perFragment)
      segs == CeilDiv(used, l.perSeg)
  IN  [stripes |-> Stripes(l),
       perPortion |-> perPortion,
       mempages |-> CeilDiv(perPortion, LebDesc),
       perFragment |-> perFragment,
       pebs |-> segs * l.perSeg,
       portions |-> segs * l.perSeg * perFragment,
       segs |-> IF l.backup THEN 2 * segs ELSE segs]
=============================================================================
