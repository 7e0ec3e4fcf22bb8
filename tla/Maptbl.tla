------------------------------- MODULE Maptbl -------------------------------
(***************************************************************************)
(* The PEB mapping table that mkfs.ssdfs creates, and its cache.  The size *)
(* of the table is derived from the volume, its portions are prepared, the *)
(* LEBs of all metadata segments are mapped to PEBs (each pair also goes   *)
(* to the cache), the other PEBs are marked as pre-erased, and the         *)
(* superblock learns where everything is.  Block and zoned devices.        *)
(***************************************************************************)
EXTENDS MaptblGeometry, FiniteSets, SequencesExt

CONSTANTS
  SbCopies,    \* SSDFS_SB_SEG_COPY_MAX
  Layouts,     \* volumes and options
  U16Limit,    \* U16_MAX
  U32Limit,    \* U32_MAX
  U64Max

(***************************************************************************)
(* A layout: PEBs of the volume and those behind its last whole segment,   *)
(* PEBs per segment, stripes and portions asked for, NAND dies, segments   *)
(* of the segment bitmap and LEBs of each, pairs in a fragment of the      *)
(* cache (it follows from the page size), need_erase_device,               *)
(* has_backup_copy and whether the device is zoned.  A stripe that cannot  *)
(* hold its share of a segment is a division by zero (see MkfsCreate); the *)
(* options allow no U16_MAX portions.  Left out: a number of portions that *)
(* passes 32 bits only by rounding up to whole segments.                   *)
(***************************************************************************)
ASSUME MaptblAssumption ==
  /\ PebDesc \in Nat \ {0} /\ LebDesc \in Nat /\ ErasePages \in Nat
  /\ LebDesc \div PebDesc = 2       \* a BUG_ON of the allocation policy
  /\ SbCopies \in Nat \ {0}
  /\ U16Limit \in Nat /\ U32Limit \in Nat /\ U64Max \in Nat /\ U16Limit < U64Max
  /\ \A l \in Layouts :
       /\ l.perSeg \in Nat \ {0} /\ l.pebs \in Nat /\ l.tail \in 0 .. l.perSeg - 1
       /\ l.pebs >= l.perSeg /\ l.pebs % l.perSeg = 0
       /\ l.stripes \in Nat \ {0} /\ l.portions \in 1 .. U16Limit - 1
       /\ l.dies \in Nat \ {0} /\ l.pairs \in Nat \ {0}
       /\ l.bmapSegs \in Nat /\ l.bmapLebs \in 1 .. l.perSeg
       /\ l.pebs < U64Max - 1
       /\ l.zns => l.perSeg = 1
       /\ PebDescPerStripe(l) > 0

VARIABLES
  lay,      \* the layout
  geo,      \* layout->maptbl: what the allocation policy derives
  pc,
  cur,      \* loops over segments and their PEBs: <<segment, index>>
  segPeb,   \* layout->segs[].pebs[].peb_id
  phys,     \* physical_index of each LEB descriptor
  state,    \* state of each PEB descriptor
  cache,    \* layout->maptbl_cache.fragments_array
  bytes,    \* layout->maptbl_cache.bytes_count
  move,     \* moving_pair and the fragment it goes to
  mark,     \* leb_id, peb_id and stripe of the marking of pre-erased PEBs
  sb        \* what the volume header records

tables == <<segPeb, phys, state>>
cacheVars == <<cache, bytes, move>>
vars == <<lay, geo, pc, cur, tables, cacheVars, mark, sb>>

NoGeo == [stripes |-> 0, perPortion |-> 0, mempages |-> 0, perFragment |-> 0,
          pebs |-> 0, portions |-> 0, segs |-> 0]

-----------------------------------------------------------------------------
(* The segments: initial snapshot, superblocks (current, next, reserved),  *)
(* segment bitmap, mapping table.                                          *)
SbSegs == 3 * SbCopies
SegsCapacity == 1 + SbSegs + lay.bmapSegs + geo.segs
Segs == 0 .. SegsCapacity - 1

\* A plausible bug: the segment's index does not move on with the chain.
SbSegStuck(slot, copy) == 1 + copy

SbSeg(slot, copy) == 1 + slot * SbCopies + copy

(* The table's quota is a tenth of the segments, that of all metadata a half. *)
TableFits(l) == Geometry(l).segs <= ((l.pebs \div l.perSeg) * 10) \div 100
MetadataFits(l) ==
  1 + SbSegs + l.bmapSegs + Geometry(l).segs <= (l.pebs \div l.perSeg) \div 2

-----------------------------------------------------------------------------
(* The tables a portion starts with. *)

Pebs == 0 .. lay.pebs - 1
Portions == 0 .. geo.portions - 1
StripeIds == 0 .. geo.stripes - 1

\* maptbl_prepare_leb_table: LEBs of a page of a portion's LEB table.
StartLeb(p, page) == geo.perPortion * p + LebDesc * page
LebsCount(p, page) ==
  IF lay.pebs <= StartLeb(p, page) THEN 0
  ELSE Least(lay.pebs - StartLeb(p, page), Least(geo.perPortion, LebDesc))

\* maptbl_prepare_peb_table: the subtraction wraps for a portion beyond the volume.
RestPebs(p) ==
  IF lay.pebs >= geo.perPortion * p
  THEN Least(lay.pebs - geo.perPortion * p, geo.perPortion)
  ELSE geo.perPortion

StartPeb(p, s) == geo.perPortion * p + CeilDiv(RestPebs(p), geo.stripes) * s

\* A plausible bug: the last PEB of an odd volume is dropped.
PebsCountDown(p, s) ==
  IF lay.pebs <= StartPeb(p, s) THEN 0
  ELSE Least(RestPebs(p) \div geo.stripes, lay.pebs - StartPeb(p, s))

PebsCount(p, s) ==
  IF lay.pebs <= StartPeb(p, s) THEN 0
  ELSE Least((RestPebs(p) + (RestPebs(p) % geo.stripes)) \div geo.stripes,
             lay.pebs - StartPeb(p, s))

StripePebs(p, s) == { StartPeb(p, s) + j : j \in 0 .. PebsCount(p, s) - 1 }

-----------------------------------------------------------------------------
NoIndex == U64Max

(* define_leb_id: LEBs of segment s, whose id is its index (the segment    *)
(* bitmap hands out the first clean segment).                              *)
LebsOfSeg(s) ==
  CASE s = 0 -> 1
    [] s \in 1 + SbSegs .. SbSegs + lay.bmapSegs -> lay.bmapLebs
    [] OTHER -> lay.perSeg

LebsPerPebIndex ==
  IF lay.perSeg > 1 /\ lay.dies > 1 THEN (lay.pebs + lay.tail) \div lay.dies ELSE 1

LebId(s, j) ==
  IF j >= LebsOfSeg(s) THEN NoIndex
  ELSE (IF LebsPerPebIndex = 1 THEN s * lay.perSeg ELSE s) + j * LebsPerPebIndex

SegPebs == { <<s, j>> : s \in Segs, j \in 0 .. lay.perSeg - 1 }
LebsTotal == { x \in SegPebs : LebId(x[1], x[2]) # NoIndex }

EmptyFragment == [pairs |-> << >>, items |-> 0, start |-> U64Max, end |-> U64Max]
NoMove == [to |-> 0, leb |-> U64Max, peb |-> U64Max]

Init ==
  /\ lay \in Layouts
  /\ geo = NoGeo
  /\ pc = "policy"
  /\ cur = <<0, 0>>
  /\ segPeb = << >> /\ phys = << >> /\ state = << >>
  /\ cache = << >> /\ bytes = 0 /\ move = NoMove
  /\ mark = [leb |-> 0, peb |-> 0, stripe |-> 0, preErased |-> 0]
  /\ sb = [preErase |-> U64Max, perFragment |-> 0, perStripe |-> 0,
           extent |-> << >>, pebs |-> << >>]

(***************************************************************************)
(* A portion larger than a PEB is to be corrected by fewer stripes, but    *)
(* the difference wraps, and the BUG_ON on it fails.  There are BUG_ONs on *)
(* the number of portions and, after the table's quota, on the PEBs of a   *)
(* portion.  (The one on portions_per_fragment never fails: at most as     *)
(* many as asked for are left.)                                            *)
(***************************************************************************)
PortionTooLarge == PortionPages(lay) > ErasePages
TooManyPortions == CeilDiv(lay.pebs, PebDescPerStripe(lay) * Stripes(lay)) >= U32Limit
TooManyStripes == lay.zns /\ Stripes(lay) > U16Limit
PortionTooWide == PebDescPerStripe(lay) * Stripes(lay) >= U16Limit

AllocationPolicy ==
  /\ pc = "policy"
  /\ IF TooManyStripes
     THEN pc' = "failed" /\ geo' = geo
     ELSE IF PortionTooLarge \/ TooManyPortions
     THEN pc' = "abort" /\ geo' = geo
     ELSE /\ geo' = Geometry(lay)
          /\ pc' = IF TableFits(lay) /\ PortionTooWide THEN "abort"
                   ELSE IF TableFits(lay) /\ MetadataFits(lay) THEN "prepare" ELSE "failed"
  /\ UNCHANGED <<lay, cur, tables, cacheVars, mark, sb>>

(* maptbl_mkfs_prepare *)
Prepare ==
  /\ pc = "prepare"
  /\ geo.portions < U16Limit
  /\ segPeb' = [x \in SegPebs |-> NoIndex]
  /\ phys' = [leb \in Pebs |-> NoIndex]
  /\ state' = [peb \in Pebs |-> "unknown"]
  /\ pc' = "cache"
  /\ UNCHANGED <<lay, geo, cur, cacheVars, mark, sb>>

CacheFragments == CeilDiv(Cardinality(LebsTotal), lay.pairs)

(* maptbl_cache_mkfs_prepare *)
PrepareCache ==
  /\ pc = "cache"
  /\ CacheFragments < U16Limit
  /\ cache' = [f \in 1 .. CacheFragments |-> EmptyFragment]
  /\ pc' = "map"
  /\ UNCHANGED <<lay, geo, cur, tables, bytes, move, mark, sb>>

(* The BUG_ONs on the number of portions and of the cache's fragments. *)
PrepareBug ==
  /\ \/ pc = "prepare" /\ geo.portions >= U16Limit
     \/ pc = "cache" /\ CacheFragments >= U16Limit
  /\ pc' = "abort"
  /\ UNCHANGED <<lay, geo, cur, tables, cacheVars, mark, sb>>

(***************************************************************************)
(* Either array of buffers may not be allocated (an error), or one of its  *)
(* buffers; then the loop that frees the others has an unsigned counter    *)
(* and runs out of the array.                                              *)
(***************************************************************************)
PrepareFails ==
  /\ pc \in {"prepare", "cache"}
  /\ pc' \in {"failed", "crash"}
  /\ UNCHANGED <<lay, geo, cur, tables, cacheVars, mark, sb>>
-----------------------------------------------------------------------------
(* map_allocated_lebs2pebs *)

PortionOf(leb) == leb \div geo.perPortion
PageOf(leb) == (leb % geo.perPortion) \div LebDesc

\* A plausible bug: the LEBs of a segment go to the stripes one by one.
GetStripeIndexWide(leb) == leb % lay.perSeg

GetStripeIndex(leb) ==
  LET index == leb % lay.perSeg
  IN  IF geo.stripes = 1
      THEN (leb - StartLeb(PortionOf(leb), PageOf(leb))) \div PebDesc
      ELSE IF lay.perSeg > geo.stripes
           THEN index \div CeilDiv(lay.perSeg, geo.stripes)
           ELSE index \div lay.perSeg

(* find_unused_peb: the items of a stripe that are not used yet. *)
UnusedItems(p, s) ==
  { j \in 0 .. PebsCount(p, s) - 1 : state[StartPeb(p, s) + j] = "unknown" }

LeastOf(S) == CHOOSE x \in S : \A y \in S : x <= y

\* A plausible bug: the index counts the PEBs that the stripes really hold.
PhysicalIndexPacked(stripe, item) == PebsCount(0, 0) * stripe + item

\* DEFINE_PEB_INDEX_IN_PORTION
PhysicalIndex(stripe, item) == PebDesc * stripe + item

(* find_fragment_index *)
Takes(f, leb) ==
  \/ f.start = U64Max
  \/ leb >= f.start /\ leb <= f.end
  \/ leb > f.end /\ f.items < lay.pairs

FindFragment(leb) ==
  LET takes == { f \in DOMAIN cache : Takes(cache[f], leb) }
  IN  IF takes = {} THEN Len(cache) + 1 ELSE LeastOf(takes)

NextPeb == IF cur[2] + 1 < lay.perSeg THEN <<cur[1], cur[2] + 1>> ELSE <<cur[1] + 1, 0>>

(* A PEB of a segment without LEB. *)
SkipPeb ==
  /\ pc = "map" /\ cur \in SegPebs
  /\ LebId(cur[1], cur[2]) = NoIndex
  /\ cur' = NextPeb
  /\ UNCHANGED <<lay, geo, pc, tables, cacheVars, mark, sb>>

(***************************************************************************)
(* map_leb2peb takes the first unused PEB of the LEB's stripe.  (The       *)
(* segment's peb_id is set when the pair is cached; nobody reads it        *)
(* before.)                                                                *)
(***************************************************************************)
MapLeb ==
  /\ pc = "map" /\ cur \in SegPebs
  /\ LET leb == LebId(cur[1], cur[2])
         stripe == GetStripeIndex(leb)
         unused == UnusedItems(PortionOf(leb), stripe)
         peb == StartPeb(PortionOf(leb), stripe) + LeastOf(unused)
     IN  /\ leb \in Pebs
         /\ unused # {}
         /\ PhysicalIndex(stripe, LeastOf(unused)) < U16Limit
         /\ state' = [state EXCEPT ![peb] = "using"]
         /\ phys' = [phys EXCEPT ![leb] = PhysicalIndex(stripe, LeastOf(unused))]
         /\ segPeb' = [segPeb EXCEPT ![cur] = peb]
         /\ move' = [to |-> FindFragment(leb), leb |-> leb, peb |-> peb]
  /\ pc' = "pair"
  /\ UNCHANGED <<lay, geo, cur, cache, bytes, mark, sb>>

(* No unused PEB in the stripe is an error, a LEB outside the table or an  *)
(* index in the portion of more than 16 bits a BUG.                        *)
MapLebFails ==
  /\ pc = "map" /\ cur \in SegPebs
  /\ LET leb == LebId(cur[1], cur[2])
         stripe == GetStripeIndex(leb)
         unused == UnusedItems(PortionOf(leb), stripe)
     IN  /\ leb # NoIndex
         /\ \/ leb \notin Pebs /\ pc' = "abort"
            \/ leb \in Pebs /\ unused = {} /\ pc' = "failed"
            \/ /\ leb \in Pebs /\ unused # {}
               /\ PhysicalIndex(stripe, LeastOf(unused)) >= U16Limit
               /\ pc' = "abort"
  /\ UNCHANGED <<lay, geo, cur, tables, cacheVars, mark, sb>>

CacheHdrBytes == 36    \* header and the magic of the state area
PairBytes == 20        \* a pair and its state

\* A plausible bug: the pairs are taken to come in order.
ItemIndexEnd(f, leb) == Len(f.pairs)

\* The pairs that stay before a new one.
ItemIndex(f, leb) ==
  LET before == { k \in DOMAIN f.pairs : f.pairs[k].leb <= leb }
  IN  IF before = {} THEN 0 ELSE CHOOSE k \in before : \A x \in before : x <= k

\* A plausible bug: the last pair of a full fragment moves on and stays.
AddedGrowing(f, pair) ==
  LET pairs == InsertAt(f.pairs, ItemIndex(f, pair.leb) + 1, pair)
  IN  [pairs |-> pairs, items |-> f.items + 1,
       start |-> pairs[1].leb, end |-> pairs[Len(pairs)].leb]

(***************************************************************************)
(* add_leb2peb_pair.  A full fragment gives up its last pair, yet counts   *)
(* one more, and its end is read behind the pairs, where the magic and a   *)
(* state make a number larger than any LEB.                                *)
(***************************************************************************)
Added(f, pair) ==
  LET pairs == InsertAt(f.pairs, ItemIndex(f, pair.leb) + 1, pair)
      full == f.items = lay.pairs
  IN  [pairs |-> IF full THEN SubSeq(pairs, 1, lay.pairs) ELSE pairs,
       items |-> f.items + 1,
       start |-> pairs[1].leb,
       end |-> IF full THEN U64Max - 1 ELSE pairs[Len(pairs)].leb]

(* cache_leb2peb_pair: one turn of its loop. *)
CachePair ==
  /\ pc = "pair"
  /\ move.to \in DOMAIN cache
  /\ LET f == cache[move.to]
         pair == [leb |-> move.leb, peb |-> move.peb]
         last == f.pairs[Len(f.pairs)]
     IN  /\ f.items <= lay.pairs
         /\ cache' = [cache EXCEPT ![move.to] = Added(f, pair)]
         /\ bytes' = bytes + PairBytes + IF f.items = 0 THEN CacheHdrBytes ELSE 0
         /\ IF f.items = lay.pairs
            THEN /\ move' = [to |-> move.to + 1, leb |-> last.leb, peb |-> last.peb]
                 /\ UNCHANGED <<pc, cur>>
            ELSE pc' = "map" /\ cur' = NextPeb /\ move' = NoMove
  /\ UNCHANGED <<lay, geo, tables, mark, sb>>

(* The BUG_ONs on the fragment's index and on its number of items. *)
CacheBug ==
  /\ pc = "pair"
  /\ move.to \in DOMAIN cache => cache[move.to].items > lay.pairs
  /\ pc' = "abort"
  /\ UNCHANGED <<lay, geo, cur, tables, cacheVars, mark, sb>>

-----------------------------------------------------------------------------
(* mark_unallocated_pebs_as_pre_erased *)

\* A plausible bug: the last mapped LEB is counted.
UnallocatedToo(leb) == lay.pebs - leb

Unallocated(leb) == lay.pebs - (leb + 1)

LastPeb == <<SegsCapacity - 1, lay.perSeg - 1>>

MarkStart ==
  /\ pc = "map" /\ cur \notin SegPebs
  /\ IF lay.erase
     THEN pc' = "header" /\ mark' = mark
     ELSE LET leb == LebId(LastPeb[1], LastPeb[2])
          IN  /\ mark' = [leb |-> leb + 1, peb |-> segPeb[LastPeb] + 1, stripe |-> 0,
                          preErased |-> Unallocated(leb)]
              /\ pc' = "mark_leb"
  /\ UNCHANGED <<lay, geo, cur, tables, cacheVars, sb>>

MarkLeb ==
  /\ pc = "mark_leb"
  /\ IF mark.leb < lay.pebs
     THEN pc' = "mark_stripe" /\ mark' = [mark EXCEPT !.stripe = GetStripeIndex(mark.leb)]
     ELSE pc' = "header" /\ mark' = mark
  /\ UNCHANGED <<lay, geo, cur, tables, cacheVars, sb>>

(* The PEBs of a stripe from peb_id on. *)
MarkStripe ==
  /\ pc = "mark_stripe"
  /\ mark.stripe < geo.stripes
  /\ LET p == PortionOf(mark.leb)
         start == StartPeb(p, mark.stripe)
         count == PebsCount(p, mark.stripe)
         rest == mark.peb .. start + count - 1
     IN  IF \/ mark.peb < start
            \/ count > 0 /\ mark.peb >= start + count
            \/ \E peb \in rest : state[peb] # "unknown"
         THEN pc' = "abort" /\ UNCHANGED <<state, mark>>
         ELSE /\ state' = [peb \in Pebs |-> IF peb \in rest THEN "pre_erase" ELSE state[peb]]
              /\ mark' = [mark EXCEPT !.stripe = @ + 1, !.peb = start + count]
              /\ pc' = pc
  /\ UNCHANGED <<lay, geo, cur, segPeb, phys, cacheVars, sb>>

NextPage(leb) ==
  StartLeb(PortionOf(leb), PageOf(leb)) + LebsCount(PortionOf(leb), PageOf(leb))

MarkNextPage ==
  /\ pc = "mark_stripe"
  /\ mark.stripe >= geo.stripes
  /\ mark' = [mark EXCEPT !.leb = NextPage(mark.leb)]
  /\ pc' = "mark_leb"
  /\ UNCHANGED <<lay, geo, cur, tables, cacheVars, sb>>

-----------------------------------------------------------------------------
(***************************************************************************)
(* init_maptbl_sb_header and define_maptbl_extents.  The header's counts   *)
(* have 16 bits: that of the pre-erased PEBs saturates, the PEBs of a      *)
(* fragment are the smaller of a portion and the volume's last 16 bits.    *)
(* The check of the number of segments has a second branch that a backup   *)
(* copy always takes.                                                      *)
(***************************************************************************)
PortionsPerSeg == lay.perSeg * geo.perFragment

PebsPerFragment == Least(geo.perPortion, lay.pebs % (U16Limit + 1))

InitSbHeader ==
  /\ pc = "header"
  /\ LET perCopy == CeilDiv(geo.portions, PortionsPerSeg)
     IN  IF PortionsPerSeg >= U16Limit THEN pc' = "abort" /\ sb' = sb
         ELSE IF perCopy # geo.segs THEN pc' = "failed" /\ sb' = sb
         ELSE /\ sb' = [sb EXCEPT !.preErase = Least(mark.preErased, U16Limit),
                                  !.perFragment = PebsPerFragment,
                                  !.perStripe = CeilDiv(PebsPerFragment, geo.stripes),
                                  !.extent = <<SegsCapacity - geo.segs, perCopy>>]
              /\ pc' = "sb_segs"
  /\ UNCHANGED <<lay, geo, cur, tables, cacheVars, mark>>

InitSbSegs ==
  /\ pc = "sb_segs"
  /\ sb' = [sb EXCEPT !.pebs =
              [x \in (0 .. 2) \X (0 .. SbCopies - 1) |->
                 [leb |-> LebId(SbSeg(x[1], x[2]), 0),
                  peb |-> segPeb[<<SbSeg(x[1], x[2]), 0>>]]]]
  /\ pc' = "done"
  /\ UNCHANGED <<lay, geo, cur, tables, cacheVars, mark>>

Ended == pc \in {"done", "failed", "abort", "crash"}

Idle == Ended /\ UNCHANGED vars

Step ==
  \/ AllocationPolicy \/ Prepare \/ PrepareCache \/ PrepareBug \/ PrepareFails
  \/ SkipPeb \/ MapLeb \/ MapLebFails \/ CachePair \/ CacheBug
  \/ MarkStart \/ MarkLeb \/ MarkStripe \/ MarkNextPage
  \/ InitSbHeader \/ InitSbSegs

Next == Step \/ Idle

Spec == Init /\ [][Next]_vars /\ WF_vars(Step)

-----------------------------------------------------------------------------
Prepared == pc \notin {"policy", "prepare"} /\ phys # << >>

(* The PEB that the LEB table and the PEB tables give for a LEB. *)
Resolved(leb) ==
  StartPeb(PortionOf(leb), phys[leb] \div PebDesc) + (phys[leb] % PebDesc)

Mapped == { leb \in DOMAIN phys : phys[leb] # NoIndex }

CachePairs == FlattenSeq([f \in DOMAIN cache |-> cache[f].pairs])

(* Types; no fragment of the cache holds more pairs than fit into it. *)
TypeOK ==
  /\ pc \in {"policy", "prepare", "cache", "map", "pair", "mark_leb", "mark_stripe",
             "header", "sb_segs", "done", "failed", "abort", "crash"}
  /\ cur \in Nat \X Nat
  /\ phys # << >> =>
       /\ phys \in [Pebs -> Nat]
       /\ state \in [Pebs -> {"unknown", "using", "pre_erase"}]
       /\ segPeb \in [SegPebs -> Pebs \cup {NoIndex}]
  /\ \A f \in DOMAIN cache : Len(cache[f].pairs) <= lay.pairs /\ cache[f].items <= lay.pairs + 1

(***************************************************************************)
(* maptbl_prepare_portion: the tables of all portions describe every LEB   *)
(* and every PEB of the volume exactly once, whatever the last portion     *)
(* holds, as long as a portion has one page of LEBs and at most two        *)
(* stripes; with more stripes no PEB is described twice, but a volume may  *)
(* lose some.                                                              *)
(***************************************************************************)
TablesTile ==
  pc = "cache" =>
    LET stripes == Portions \X StripeIds
        pages == Portions \X (0 .. geo.mempages - 1)
    IN  /\ \A x, y \in stripes :
             x # y => StripePebs(x[1], x[2]) \cap StripePebs(y[1], y[2]) = {}
        /\ UNION { StripePebs(x[1], x[2]) : x \in stripes } \subseteq Pebs
        /\ geo.stripes <= 2 =>
             /\ UNION { StripePebs(x[1], x[2]) : x \in stripes } = Pebs
             /\ \A leb \in Pebs :
                  Cardinality({ x \in pages : leb \in StartLeb(x[1], x[2]) ..
                     StartLeb(x[1], x[2]) + LebsCount(x[1], x[2]) - 1 }) = 1

(* Two PEBs of the metadata never get the same LEB: with more NAND dies    *)
(* than the metadata leaves LEBs to each, define_leb_id hands out some of  *)
(* them twice.                                                             *)
LebsApart == LebsPerPebIndex = 1 \/ SegsCapacity <= LebsPerPebIndex

(***************************************************************************)
(* map_leb2peb: no two LEBs share a PEB, the used PEBs are the mapped      *)
(* ones, and the physical index of a LEB leads to the PEB that its segment *)
(* will be written to.                                                     *)
(***************************************************************************)
MappingResolves ==
  Prepared /\ LebsApart =>
    LET assigned == { x \in SegPebs : segPeb[x] # NoIndex }
    IN  /\ \A x \in assigned : Resolved(LebId(x[1], x[2])) = segPeb[x]
        /\ \A a, b \in Mapped : Resolved(a) = Resolved(b) => a = b
        /\ { Resolved(leb) : leb \in Mapped } = { peb \in Pebs : state[peb] = "using" }

(***************************************************************************)
(* cache_leb2peb_pair: once all LEBs are mapped, the fragments hold their  *)
(* pairs in order, in whatever order the segments came, every header tells *)
(* its number, first and last LEB, and bytes_count is the size of the      *)
(* fragments in use.                                                       *)
(***************************************************************************)
CacheRight ==
  pc \in {"mark_leb", "mark_stripe", "header", "sb_segs", "done"} /\ LebsApart =>
    /\ { pair.leb : pair \in ToSet(CachePairs) } = Mapped
    /\ \A pair \in ToSet(CachePairs) : pair.peb = Resolved(pair.leb)
    /\ \A k \in 1 .. Len(CachePairs) - 1 : CachePairs[k].leb < CachePairs[k + 1].leb
    /\ \A f \in DOMAIN cache :
         LET pairs == cache[f].pairs
         IN  /\ cache[f].items = Len(pairs)
             /\ pairs # << >> => /\ cache[f].start = pairs[1].leb
                                 /\ cache[f].end = pairs[Len(pairs)].leb
    /\ bytes = PairBytes * Len(CachePairs)
               + CacheHdrBytes * Cardinality({ f \in DOMAIN cache : cache[f].items > 0 })

(* The marking of pre-erased PEBs follows LEBs and PEBs side by side.  A   *)
(* page of LEBs that reaches past its portion (three stripes and more), or *)
(* NAND dies that move the last LEB to the volume's end, let it stop early.*)
SideBySide == lay.dies = 1 \/ (geo.stripes <= 2 /\ lay.perSeg <= lay.dies)

(***************************************************************************)
(* mark_unallocated_pebs_as_pre_erased: on a created volume that mkfs does *)
(* not erase, the pre-erased PEBs are exactly those behind the last mapped *)
(* one, none was left out or marked in use; with one PEB per segment the   *)
(* superblock's count of them is right, up to the most that its 16 bits    *)
(* hold.                                                                   *)
(***************************************************************************)
PreErasedBehind ==
  pc = "done" /\ ~lay.erase /\ SideBySide =>
    /\ { peb \in Pebs : state[peb] = "pre_erase" } = segPeb[LastPeb] + 1 .. lay.pebs - 1
    /\ lay.perSeg = 1 =>
         sb.preErase = Least(Cardinality({ peb \in Pebs : state[peb] = "pre_erase" }),
                             U16Limit)

(***************************************************************************)
(* init_sb_segs, init_maptbl_sb_header: the superblock names distinct PEBs *)
(* of superblock segments, where the mapping table finds them too, and an  *)
(* extent that is all the mapping table's segments; its PEBs per fragment  *)
(* and per stripe lead to the portion of every LEB and to the stripes of   *)
(* the first portion, if the number of the volume's PEBs has 16 bits.      *)
(***************************************************************************)
SuperblockResolves ==
  pc = "done" =>
    /\ LebsApart => \A x \in DOMAIN sb.pebs : sb.pebs[x].peb = Resolved(sb.pebs[x].leb)
    /\ \A x, y \in DOMAIN sb.pebs : sb.pebs[x].peb = sb.pebs[y].peb => x = y
    /\ sb.extent[1] + sb.extent[2] = SegsCapacity
    /\ sb.extent[2] * lay.perSeg * geo.perFragment * geo.perPortion >= lay.pebs
    /\ lay.pebs <= U16Limit =>
         /\ \A leb \in Pebs : leb \div sb.perFragment = PortionOf(leb)
         /\ \A s \in StripeIds : sb.perStripe * s = StartPeb(0, s)

(* What the assertions of mkfs do not survive. *)
LebOutside == \E x \in LebsTotal : LebId(x[1], x[2]) >= lay.pebs
CacheOverflow == \E f \in DOMAIN cache : cache[f].items > lay.pairs
PebsLost == \E peb \in Pebs : \A p \in Portions, s \in StripeIds : peb \notin StripePebs(p, s)
PortionsDiffer ==
  PortionOf(LebId(LastPeb[1], LastPeb[2]) + 1) # PortionOf(segPeb[LastPeb] + 1)
StripeFull == \E p \in Portions : PebsCount(p, 0) > 0 /\ UnusedItems(p, 0) = {}

IndexTooWide == PhysicalIndex(geo.stripes - 1, PebsCount(0, geo.stripes - 1)) > U16Limit

(***************************************************************************)
(* The BUG_ONs of mapping_table.c and mapping_table_cache.c fail only if a *)
(* portion is larger than a PEB, a count does not fit its width (portions, *)
(* PEBs of a portion, fragments of the cache, a PEB's index in its portion *)
(* but never the portions of a segment), the NAND dies lead to LEBs out of *)
(* the volume or to an insertion into a full fragment of the cache, or, as *)
(* PEBs are marked as pre-erased, the volume has more than two stripes and *)
(* more LEBs than a page or PEBs in no stripe, segments of more PEBs than  *)
(* stripes, a stripe without a free PEB, or the LEB and the PEB behind the *)
(* last mapped ones in different portions.                                 *)
(***************************************************************************)
AssertionsFailOnlyIf ==
  pc = "abort" =>
    \/ PortionTooLarge \/ TooManyPortions \/ PortionTooWide
    \/ geo.portions >= U16Limit \/ CacheFragments >= U16Limit \/ IndexTooWide
    \/ lay.dies > 1 /\ (LebOutside \/ CacheOverflow)
    \/ /\ ~lay.erase
       /\ \/ geo.stripes > 2 /\ (lay.pebs > LebDesc \/ PebsLost)
          \/ geo.stripes > 1 /\ lay.perSeg > geo.stripes
          \/ StripeFull \/ PortionsDiffer

(* No BUG_ON of mapping_table.c or mapping_table_cache.c fails. *)
NoAssertionFails == pc # "abort"
=============================================================================
