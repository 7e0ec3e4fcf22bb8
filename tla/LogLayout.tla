------------------------------ MODULE LogLayout -----------------------------
(***************************************************************************)
(* What a log created by mkfs.ssdfs looks like (common.c): the sizes and   *)
(* the offsets of its extents, the pages it declares, and how its block    *)
(* bitmap, its offset table and its block descriptors name the blocks of   *)
(* the payload.  Bytes are those of the on-disk format.                    *)
(***************************************************************************)
EXTENDS Rounding, FiniteSetsExt

PageCache == 4096       \* PAGE_CACHE_SIZE
HdrSize == 2048         \* sizeof(struct ssdfs_segment_header)
FooterSize == 2048      \* of a log footer or a partial log header
LogMaxPages == 256      \* SSDFS_LOG_MAX_PAGES
LogsPerPeb == 8         \* SSDFS_LOGS_PER_PEB_DEFAULT

(* A log is the bytes of its extents; an extent that is absent has none.   *)
Extents == {"header", "bitmap", "offsets", "descs", "cache", "payload",
            "footer", "bitmapCopy", "offsetsCopy"}
BareLog == [[x \in Extents |-> 0] EXCEPT !["header"] = HdrSize, !["footer"] = FooterSize]

(* The mapping table's cache follows the header inside of its page if it fits. *)
Outside(b, page) == IF b["cache"] > page - HdrSize THEN b["cache"] ELSE 0

-----------------------------------------------------------------------------
\* A plausible bug: the cache between the header and the footer is forgotten.
StartOffsetsNoCache(b, at, page) ==
  LET body == RoundUp(at + b["header"] + b["bitmap"] + b["offsets"] + b["descs"], page)
      footer == RoundUp(body + b["payload"], page)
      copies == footer + b["footer"]
  IN  [header |-> at,
       bitmap |-> at + b["header"],
       offsets |-> at + b["header"] + b["bitmap"],
       descs |-> at + b["header"] + b["bitmap"] + b["offsets"],
       cache |-> body,
       payload |-> body,
       footer |-> footer,
       bitmapCopy |-> RoundUp(copies, page),
       offsetsCopy |-> RoundUp(copies + b["bitmapCopy"], page)]

(* Where set_extent_start_offset puts the extents of a log whose header is *)
(* at "at": the tables are packed, the rest starts on pages.               *)
StartOffsets(b, at, page) ==
  LET body == RoundUp(at + b["header"] + b["bitmap"] + b["offsets"] + b["descs"], page)
      footer == RoundUp(RoundUp(body + b["payload"], page) + Outside(b, page), page)
      copies == footer + b["footer"]
  IN  [header |-> at,
       bitmap |-> at + b["header"],
       offsets |-> at + b["header"] + b["bitmap"],
       descs |-> at + b["header"] + b["bitmap"] + b["offsets"],
       cache |-> body,
       payload |-> RoundUp(body + Outside(b, page), page),
       footer |-> footer,
       bitmapCopy |-> RoundUp(copies, page),
       offsetsCopy |-> RoundUp(copies + b["bitmapCopy"], page)]

Copies(b) == b["footer"] + b["bitmapCopy"] + b["offsetsCopy"]

(* calculate_log_pages, in bytes: the copies are packed behind the footer. *)
LogBytes(b, page) ==
  LET tables == b["header"] + b["bitmap"] + b["offsets"] + b["descs"]
      cache == (IF Outside(b, page) > 0 THEN RoundUp(tables, page) ELSE tables) + b["cache"]
  IN  RoundUp(RoundUp(RoundUp(cache, page) + b["payload"], page) + Copies(b), page)

(* calculate_metadata_blks, in bytes: the block descriptors are left out. *)
MetadataBytes(b, page) ==
  LET tables == RoundUp(b["header"] + b["bitmap"] + b["offsets"], page)
  IN  RoundUp(tables + b["cache"], page) + Copies(b) + page - 1

-----------------------------------------------------------------------------
(* The block bitmap: two bits for a page, in fragments of 4 KB. *)

BlkBmapBytes(pages) == CeilDiv(pages, 4)
BlkBmapFragments(pages) == CeilDiv(BlkBmapBytes(pages), PageCache)
BlkBmapHeaders(pages) == 16 + 32 + 16 * BlkBmapFragments(pages)

(* Bytes of the fragments.  A fragment of less than 64 bytes is never      *)
(* compressed; what the compression returns is "packed", a share of the    *)
(* bitmap in percent.                                                      *)
BlkBmapContent(pages, compression, packed) ==
  LET bytes == BlkBmapBytes(pages)
  IN  IF compression = 0 \/ bytes < 64 THEN bytes ELSE CeilDiv(bytes * packed, 100)

(* ssdfs_blkbmap_set_area does not know the end of the bitmap. *)
AreaOutside(start, valid, pages) == CeilDiv(start + valid, 4) > BlkBmapBytes(pages)

-----------------------------------------------------------------------------
(* The offset table: a header and an extent for every six fragments, and   *)
(* 253 offset descriptors in a fragment.                                   *)

OffDescPerFragment == 253
OffsetFragments(valid) ==
  LET items == CeilDiv(valid, OffDescPerFragment) IN items + CeilDiv(items, 6)

OffsetTableBytes(valid) ==
  LET portions == CeilDiv(OffsetFragments(valid), 6)
      items == OffsetFragments(valid) - portions
  IN  (128 + 8) * portions + 32 * items
        + (items - 1) * OffDescPerFragment * 16 + (valid % OffDescPerFragment) * 16

(* prepare_offsets_table_fragment writes a header and every descriptor. *)
OffsetTableWritten(valid) ==
  LET items == CeilDiv(valid, OffDescPerFragment)
  IN  128 * CeilDiv(OffsetFragments(valid), 6) + 8 + 32 * items + 16 * valid

(* The block descriptors: areas of a header and up to 14 fragments of 60. *)
BlkDescPerFragment == 60
BlkDescSize == 64
AreaHdrSize == 256
AreaFragments == 14

\* define_block_descriptor_offset
BlockDescriptorOffset(blk) ==
  (blk \div (BlkDescPerFragment * AreaFragments) + 1) * AreaHdrSize + blk * BlkDescSize

BlkDescTableBytes(valid) ==
  LET fragments == CeilDiv(valid, BlkDescPerFragment)
  IN  CeilDiv(fragments, AreaFragments) * AreaHdrSize
        + (fragments - 1) * BlkDescPerFragment * BlkDescSize
        + (valid % BlkDescPerFragment) * BlkDescSize

(* An item of the offset table and the block descriptor it leads to, of    *)
(* block i of a log that starts with block "start" of its segment.         *)
OffsetItem(i, start, firstPage) ==
  [blk |-> start + i, page |-> firstPage + i, at |-> BlockDescriptorOffset(i)]

\* A plausible bug: the byte offset starts again with every fragment.
BlockDescriptorRestart(i, start, payloadBytes, page) ==
  [blk |-> start + i, page |-> (payloadBytes + i * page) \div page,
   at |-> AreaHdrSize + i * BlkDescSize, byte |-> (i % BlkDescPerFragment) * page]

BlockDescriptor(i, start, payloadBytes, page) ==
  [blk |-> start + i, page |-> (payloadBytes + i * page) \div page,
   at |-> AreaHdrSize + i * BlkDescSize, byte |-> i * page]

(* The blocks of the first area that get a descriptor: the last fragment   *)
(* takes what the division by 60 leaves, nothing if it leaves nothing.     *)
DescribedBlocks(valid) ==
  LET fragments == CeilDiv(valid, BlkDescPerFragment)
  IN  0 .. (fragments - 1) * BlkDescPerFragment + (valid % BlkDescPerFragment) - 1

-----------------------------------------------------------------------------
(* segbmap_set_log_pages and maptbl_set_log_pages. *)

AlignedUp(n, pages) == Min({ d \in n .. pages : pages % d = 0 })

(* The loop that looks for a divisor of the PEB's pages beyond them ends   *)
(* in a division by zero, once the product with the page size is 2^32.     *)
AskedPages(blks, given) ==
  IF given = U16Max \/ given < Least(blks, LogMaxPages)
  THEN Least(blks, LogMaxPages) ELSE given
NoDivisor(blks, given, pages) ==
  AskedPages(blks, given) <= pages =>
    LET first == AlignedUp(AskedPages(blks, given), pages)
    IN  /\ first # pages
        /\ first - Least(blks, LogMaxPages) < 3
        /\ first + 3 > pages

SetLogPages(blks, given, pages) ==
  LET first == AlignedUp(AskedPages(blks, given), pages)
      roomy == IF first = pages \/ first - Least(blks, LogMaxPages) >= 3
               THEN first ELSE AlignedUp(first + 3, pages)
  IN  Least(Most(roomy, pages \div LogsPerPeb), LogMaxPages)

(* sb_set_lnodes_log_pages, sb_set_hnodes_log_pages, sb_set_inodes_log_pages *)
NodeLogPages(given, pages) ==
  LET own == IF given = U16Max \/ given > pages THEN Least(pages, LogMaxPages) ELSE given
  IN  Least(Most(own, pages \div LogsPerPeb), LogMaxPages)

PowersOfTwo == {1, 2, 4, 8, 16, 32, 64, 128, 256, 512, 1024, 2048, 4096, 8192, 16384, 32768}
PowerBelow(n) == CHOOSE p \in PowersOfTwo : p <= n /\ n < 2 * p

(* user_data_mkfs_define_layout; erase is in KB. *)
UserDataPages(given, pages, erase) ==
  LET default == IF erase < 1024 THEN pages ELSE Least(pages \div LogsPerPeb, LogMaxPages)
      asked == IF given = U16Max THEN default ELSE given
  IN  IF asked > pages THEN Least(pages, LogMaxPages) ELSE asked
UserDataLogPages(given, pages, erase) ==
  LET n == UserDataPages(given, pages, erase)
  IN  IF pages % n = 0 THEN n ELSE Least(PowerBelow(n), LogMaxPages)
=============================================================================
