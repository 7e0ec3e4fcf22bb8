--------------------------- MODULE SegbmapLayout ----------------------------
(***************************************************************************)
(* The segment bitmap of a new volume (segment_bitmap.c): how many         *)
(* fragments it has, how they are spread over segments and PEBs, and what  *)
(* the fragments' headers and the volume header say about that.            *)
(* "l" is the volume: its segments (segs), the PEBs of a segment (perSeg), *)
(* the pages of a PEB (pages), the fragments asked for in a PEB (asked)    *)
(* and whether a second copy was asked for (copy).                         *)
(***************************************************************************)
EXTENDS Rounding, Integers

PageBytes == 4096            \* PAGE_CACHE_SIZE
FragmentHdr == 32            \* sizeof(struct ssdfs_segbmap_fragment_header)
MaxChain == 8                \* SSDFS_SEGBMAP_SEGS

BmapBytes(segs) == CeilDiv(segs, 2)

(* The headers are counted for the pages of the bare bitmap, not for the   *)
(* fragments that result.                                                  *)
BmapFragments(segs) ==
  CeilDiv(BmapBytes(segs) + FragmentHdr * CeilDiv(BmapBytes(segs), PageBytes), PageBytes)

ItemsPerFragment == (PageBytes - FragmentHdr) * 2

(* Segments of the chain, kept in eight bits.  With no fragment in a       *)
(* segment the division raises SIGFPE: see BadShare.                       *)
SegmentShare(l, perPeb) == U16(perPeb * l.perSeg)
ChainSegs(l, perPeb) == CeilDiv(BmapFragments(l.segs), SegmentShare(l, perPeb)) % 256

\* A plausible bug: the fallback leaves no page to the log's own metadata.
PerPebWhole(l) ==
  IF l.pages < l.asked \/ ChainSegs(l, l.asked) > MaxChain
  THEN Least(l.pages, BmapFragments(l.segs)) ELSE l.asked

(* Fragments of a PEB: as asked, or half of its pages if that is too many  *)
(* for a PEB or needs too long a chain.                                    *)
PerPeb(l) ==
  IF l.pages < l.asked \/ ChainSegs(l, l.asked) > MaxChain
  THEN Least(Most((l.pages - 2) \div 2, 1), BmapFragments(l.segs))
  ELSE l.asked

BadShare(l) ==
  \/ SegmentShare(l, l.asked) = 0
  \/ SegmentShare(l, PerPeb(l)) = 0
  \/ ChainSegs(l, PerPeb(l)) = 0
TooLong(l) == ChainSegs(l, PerPeb(l)) > MaxChain

\* A plausible bug: the quotients are rounded down.
PolicyRoundsDown(l) ==
  LET chain == ChainSegs(l, PerPeb(l))
      perSeg == Most(BmapFragments(l.segs) \div chain, 1)
      perPeb == Most(perSeg \div l.perSeg, 1)
  IN  [fragments |-> BmapFragments(l.segs), chain |-> chain, perPeb |-> perPeb,
       pebs |-> CeilDiv(perSeg, perPeb), segs |-> IF l.copy THEN 2 * chain ELSE chain,
       copy |-> l.copy]

(* segbmap_mkfs_allocation_policy: the fragments are spread evenly over    *)
(* the segments of the chain and over the PEBs of a segment.               *)
Policy(l) ==
  LET chain == ChainSegs(l, PerPeb(l))
      perSeg == CeilDiv(BmapFragments(l.segs), chain)
      perPeb == CeilDiv(perSeg, l.perSeg)
  IN  [fragments |-> BmapFragments(l.segs), chain |-> chain, perPeb |-> perPeb,
       pebs |-> CeilDiv(perSeg, perPeb), segs |-> IF l.copy THEN 2 * chain ELSE chain,
       copy |-> l.copy]

-----------------------------------------------------------------------------
(* "b" is a policy. *)

Buffers(b) == b.chain * b.pebs
UsedBuffers(b) == CeilDiv(b.fragments, b.perPeb)

\* ssdfs_segbmap_define_first_fragment_item
FirstItem(f) == f * ItemsPerFragment

(* segbmap_prepare_fragment.  The index of the PEB is the difference the   *)
(* wrong way round, right in the first PEB of a segment only.              *)
Fragment(b, f, segs) ==
  LET seg == f \div (b.pebs * b.perPeb)
      behind == f - seg * b.pebs * b.perPeb
  IN  [buffer |-> f \div b.perPeb, slot |-> f % b.perPeb,
       seg |-> seg, peb |-> U16(-(behind \div b.perPeb)),
       start |-> FirstItem(f),
       bytes |-> Least(BmapBytes(segs) + (b.fragments - f) * FragmentHdr
                         - f * (PageBytes - FragmentHdr), PageBytes),
       total |-> Least(ItemsPerFragment, segs - FirstItem(f))]

(* segbmap_mkfs_define_layout takes the buffers in order, one for a PEB,   *)
(* while it has placed fewer than there are FRAGMENTS.                     *)
PlacedPebs(b) == Least(b.segs * b.pebs, b.fragments)
PlacesBeyondBuffers(b) == PlacedPebs(b) > Buffers(b)

(* segbmap_mkfs_commit stops, in every segment, at the first PEB whose     *)
(* buffer holds no fragment.                                               *)
CommittedPebs(b) == { p \in 0 .. PlacedPebs(b) - 1 : p < UsedBuffers(b) }

(* init_segbmap_sb_header: the segment of the bitmap that copy c of        *)
(* segment s of the chain is said to be in.                                *)
HeaderSegment(b, s, c) == IF b.copy THEN 2 * s + c ELSE s

(* define_seg_id looks into the first buffer only. *)
RoomForMetadata(b, segs, needed) == needed <= Least(b.perPeb * ItemsPerFragment, segs)
=============================================================================
