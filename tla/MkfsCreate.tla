----------------------------- MODULE MkfsCreate -----------------------------
(***************************************************************************)
(* mkfs.ssdfs from its command line to its exit status (mkfs.c): the       *)
(* checks, the allocation of segments, and the four passes of mkfs_create  *)
(* over the metadata structures, which prepare, validate, lay out and      *)
(* commit the logs of the new volume.                                      *)
(*                                                                         *)
(* What happens inside of the validation of the mapping table is the       *)
(* module Maptbl, how the logs are written is the module MkfsWrite: here   *)
(* they succeed, fail or die.  Sizes are in KB, those of logs in bytes.    *)
(***************************************************************************)
EXTENDS MkfsOptions, LogLayout, SegbmapLayout, Sequences

CONSTANTS
  Commands,   \* command lines: functions from options to values
  Devices,    \* [zns, size, zone]
  Packed      \* shares, in percent, a block bitmap is compressed to

(* Options have integer values; a number of dies is stored without a sign. *)
ASSUME CommandAssumption ==
  \A o \in Commands : \A x \in DOMAIN o : o[x] \in Int /\ (x = "dies" => o[x] >= 0)

(* A zone's bytes fit the 32 bits they are kept in. *)
ZoneLimit == 4194303
ASSUME InputAssumption ==
  /\ \A d \in Devices : d.size \in Nat \ {0} /\ d.zone \in 1 .. ZoneLimit
  /\ Packed \subseteq 1 .. 100

VARIABLES
  opt, dev,   \* the inputs
  pc,         \* the step being done, or the one mkfs ended in
  status,     \* running, exit0, exit1, or died: killed by an assertion or a signal
  host,       \* what the host says of the device and its user answers
  vol,        \* the validated sizes
  bmap, tbl,  \* allocation policies of the segment bitmap and the mapping table
  sb,         \* what the superblock keeps
  first,      \* index of a structure's first segment
  logs,       \* structure -> its logs, which differ in their first block only
  written     \* none, partly or all of the volume is on the device; erasing
              \* a part of what was there counts as partly

made == <<vol, bmap, tbl, sb, first, logs>>
vars == <<opt, dev, pc, status, host, made, written>>

Steps ==
  <<"parse", "open", "validate", "mounted", "overwrite", "alloc",
    "prepare snapshot", "prepare superblock", "prepare segbmap", "prepare maptbl",
    "validate superblock", "validate segbmap", "validate maptbl", "validate data",
    "define snapshot", "define superblock", "define segbmap", "define maptbl", "define data",
    "commit snapshot", "commit superblock", "commit segbmap", "commit maptbl", "write">>

At(step) == status = "running" /\ Steps[pc] = step
inputs == <<opt, dev>>
Done == pc' = pc + 1 /\ UNCHANGED <<status, inputs>>
Ends(how) == status' = how /\ UNCHANGED <<inputs, pc, host, made, written>>

Added(f, s, value) == [x \in DOMAIN f \cup {s} |-> IF x = s THEN value ELSE f[x]]

layout == Layout(opt)
PageLen == vol.page * 1024
EraseLen == vol.erase * 1024

-----------------------------------------------------------------------------
(* The session. *)

ParseOptions ==
  /\ At("parse")
  /\ \/ Given(opt, "help") /\ Ends("exit0")
     \/ ~AcceptsOptions(opt) /\ Ends("exit1")
     \/ ~Given(opt, "help") /\ AcceptsOptions(opt) /\ Done /\ UNCHANGED <<host, made, written>>

\* open_device fails for what is not a device or is in use.
OpenDevice ==
  /\ At("open")
  /\ Ends("exit1") \/ (Done /\ UNCHANGED <<host, made, written>>)

BadSizes(l, d) ==
  \/ l.page >= l.erase \/ l.erase % l.page # 0
  \/ l.seg < l.erase \/ l.seg % l.erase # 0
  \/ d.size <= l.seg
  \/ l.erase = 128 /\ l.page = 32

(* A zoned device's zones replace the sizes asked for. *)
Validated(l, d) ==
  LET erase == IF d.zns THEN d.zone ELSE l.erase
      seg == IF d.zns THEN d.zone ELSE l.seg
      perSeg == seg \div erase
  IN  [page |-> l.page, erase |-> erase, segs |-> d.size \div seg, perSeg |-> perSeg,
       pages |-> erase \div l.page,
       scattered |-> perSeg > 1 /\ l.dies > 1,
       threshold |-> IF l.threshold = U16Max THEN perSeg ELSE Least(l.threshold, perSeg)]

ValidateOptions ==
  /\ At("validate")
  /\ \/ (BadSizes(layout, dev) \/ dev.zns) /\ Ends("exit1")
     \/ /\ ~BadSizes(layout, dev)
        /\ vol' = Validated(layout, dev)
        /\ Done /\ UNCHANGED <<host, bmap, tbl, sb, first, logs, written>>

\* A plausible bug: the answer is read and not used.
IsDeviceMountedIgnored ==
  /\ At("mounted")
  /\ \E m \in BOOLEAN : host' = [host EXCEPT !.mounted = m]
  /\ Done /\ UNCHANGED <<made, written>>

(* A mounted device, or a list of mounts that cannot be read, ends mkfs    *)
(* with "err" still zero.                                                  *)
IsDeviceMounted ==
  /\ At("mounted")
  /\ \E m \in BOOLEAN :
       /\ host' = [host EXCEPT !.mounted = m]
       /\ IF m THEN status' = "exit0" /\ UNCHANGED <<inputs, pc>> ELSE Done
       /\ UNCHANGED <<made, written>>

(* A probe that fails, or a signature that is neither a file system's nor  *)
(* a partition table's ("weird"), lets mkfs continue.                      *)
ProbeDevice ==
  /\ At("overwrite") /\ host.found = "unknown"
  /\ \/ layout.force /\ Done /\ UNCHANGED <<host, made, written>>
     \/ /\ ~layout.force
        /\ \E f \in {"failed", "nothing", "weird", "signature"} :
             /\ host' = [host EXCEPT !.found = f]
             /\ IF f = "signature" THEN UNCHANGED <<inputs, pc, status>> ELSE Done
        /\ UNCHANGED <<made, written>>

(* A line is taken by its first character; an "n" must stand alone, an     *)
(* empty line or the end of the input is a refusal, others are asked again. *)
AnswerQuestion ==
  /\ At("overwrite") /\ host.found = "signature"
  /\ \/ host' = [host EXCEPT !.answer = "yes"] /\ Done /\ UNCHANGED <<made, written>>
     \/ host' = [host EXCEPT !.answer = "no"] /\ status' = "exit0" /\ UNCHANGED <<inputs, pc, made, written>>
     \/ UNCHANGED vars

-----------------------------------------------------------------------------
(* alloc_segs_array: the allocation policies and the quota. *)

Table(ErasePages) == INSTANCE MaptblGeometry WITH PebDesc <- 476, LebDesc <- 1016

BmapInput ==
  [segs |-> vol.segs, perSeg |-> vol.perSeg, pages |-> vol.pages,
   asked |-> layout.fragments, copy |-> layout.bmapCopy]
TblInput ==
  [pebs |-> vol.segs * vol.perSeg, perSeg |-> vol.perSeg, stripes |-> layout.stripes,
   portions |-> layout.portions, dies |-> layout.dies, backup |-> layout.maptblCopy,
   zns |-> dev.zns]

(* Divisions by zero, and a portion that a PEB cannot hold. *)
TblDivides(t) == (t.stripes = 0) # (t.dies = 0) \/ (t.stripes = 0 /\ t.zns)
TblUnsound(t) ==
  \/ Table(vol.pages)!PebDescPerStripe(t) = 0
  \/ Table(vol.pages)!PortionPages(t) > vol.pages
  \/ t.portions = 0

(* How an allocation policy ends: the first of its checks that fails. *)
MaptblOutcome(t) ==
  IF TblDivides(t) THEN "died"
  ELSE IF t.zns /\ Table(vol.pages)!Stripes(t) > U16Max THEN "exit1"
  ELSE IF TblUnsound(t) THEN "died"
  ELSE LET g == Table(vol.pages)!Geometry(t)
       IN  IF g.segs > (vol.segs * 10) \div 100 THEN "exit1"
           ELSE IF g.perPortion >= U16Max THEN "died" ELSE "running"
SegbmapOutcome(l) ==
  IF BmapFragments(l.segs) >= U16Max \/ BadShare(l) THEN "died"
  ELSE IF TooLong(l) THEN "exit1" ELSE "running"

SbSegs == 6   \* current, next and reserved superblock segments, two copies each
Capacity(b, t) == 1 + SbSegs + b.segs + t.segs

AllocOutcome ==
  IF SegbmapOutcome(BmapInput) # "running" THEN SegbmapOutcome(BmapInput)
  ELSE IF MaptblOutcome(TblInput) # "running" THEN MaptblOutcome(TblInput)
  ELSE IF Capacity(Policy(BmapInput), Table(vol.pages)!Geometry(TblInput)) > vol.segs \div 2
  THEN "exit1" ELSE "running"

AllocSegsArray ==
  /\ At("alloc")
  /\ \/ AllocOutcome \in {"died", "exit1"} /\ Ends(AllocOutcome)
     \/ /\ AllocOutcome = "running"
        /\ bmap' = Policy(BmapInput)
        /\ tbl' = Table(vol.pages)!Geometry(TblInput)
        /\ Done /\ UNCHANGED <<host, vol, sb, first, logs, written>>

(* Any step that needs memory may not get it.  Where the mapping table is  *)
(* prepared the loop that frees its buffers counts below zero.             *)
NoMemory ==
  /\ \E step \in {"alloc", "prepare segbmap", "prepare maptbl", "validate maptbl",
                  "define snapshot", "define superblock", "define segbmap", "define maptbl"} :
       At(step)
  /\ Ends("exit1") \/ (At("prepare maptbl") /\ Ends("died"))

-----------------------------------------------------------------------------
(* The first pass: prepare. *)

SegsOf(s) ==
  [snapshot |-> 1, superblock |-> SbSegs, segbmap |-> bmap.segs, maptbl |-> tbl.segs][s]

(* reserve_segments takes the next segments of the array, which has room   *)
(* for all of them.                                                        *)
Reserve(s) == first' = Added(first, s, MapThenSumSet(SegsOf, DOMAIN first))

PrepareSnapshot ==
  /\ At("prepare snapshot") /\ Reserve("snapshot")
  /\ Done /\ UNCHANGED <<host, vol, bmap, tbl, sb, logs, written>>

(* Every tree checks the size of a node, corrects it to a page if that is  *)
(* all it can be, and checks the smallest index area against it.           *)
NodeSize == IF layout.node < vol.page \/ layout.node % vol.page # 0 THEN vol.page ELSE layout.node
MinIndexArea == IF layout.minIndex = 0 THEN 256 ELSE layout.minIndex
BadNode ==
  \/ layout.node >= 64
  \/ NodeSize >= vol.erase \/ vol.erase % NodeSize # 0
  \/ MinIndexArea <= IndexKeyBytes \/ MinIndexArea % IndexKeyBytes # 0
  \/ MinIndexArea >= NodeSize * 512

PrepareSuperblock ==
  /\ At("prepare superblock")
  /\ \/ vol.perSeg >= U16Max /\ Ends("exit1")
     \/ vol.perSeg < U16Max /\ 0 \in layout.nodePages /\ Ends("died")
     \/ vol.perSeg < U16Max /\ 0 \notin layout.nodePages /\ BadNode /\ Ends("exit1")
     \/ /\ vol.perSeg < U16Max /\ 0 \notin layout.nodePages /\ ~BadNode
        /\ Reserve("superblock")
        /\ sb' = [sb EXCEPT !.nodePages = { NodeLogPages(g, vol.pages) : g \in layout.nodePages }]
        /\ Done /\ UNCHANGED <<host, vol, bmap, tbl, logs, written>>

PrepareSegbmap ==
  /\ At("prepare segbmap") /\ Reserve("segbmap")
  /\ Done /\ UNCHANGED <<host, vol, bmap, tbl, sb, logs, written>>

PrepareMaptbl ==
  /\ At("prepare maptbl")
  /\ \/ tbl.portions >= U16Max /\ Ends("died")
     \/ tbl.portions < U16Max /\ Reserve("maptbl")
        /\ Done /\ UNCHANGED <<host, vol, bmap, tbl, sb, logs, written>>

-----------------------------------------------------------------------------
(* The second pass: validate. *)

Threshold(s) ==
  LET given == layout.thresholds[s]
  IN  IF given = U16Max THEN vol.threshold ELSE Least(given, vol.perSeg)

ValidateSuperblock ==
  /\ At("validate superblock")
  /\ sb' = [sb EXCEPT !.freeSegs = vol.segs - Capacity(bmap, tbl)]
  /\ Done /\ UNCHANGED <<host, vol, bmap, tbl, first, logs, written>>

(* The segments of the array get the ids 0, 1, 2...; the volume header     *)
(* says where the bitmap's segments are.                                   *)
ValidateSegbmap ==
  /\ At("validate segbmap")
  /\ \/ ~RoomForMetadata(bmap, vol.segs, Capacity(bmap, tbl)) /\ Ends("exit1")
     \/ /\ RoomForMetadata(bmap, vol.segs, Capacity(bmap, tbl))
        /\ sb' = [sb EXCEPT
             !.bmapSegs = [s \in 0 .. bmap.chain - 1 |-> first["segbmap"] + HeaderSegment(bmap, s, 0)],
             !.perSeg = bmap.perPeb * bmap.pebs, !.perPeb = bmap.perPeb,
             !.thresholds["segbmap"] = Threshold("segbmap")]
        /\ Done /\ UNCHANGED <<host, vol, bmap, tbl, first, logs, written>>

(* The mapping table's cache holds a pair for every LEB of the metadata;   *)
(* pairs may be repeated at the borders of its fragments when the LEBs of  *)
(* a segment are not neighbours.                                           *)
PairsPerFragment == (PageLen - 32 - 4) \div 20
MetadataLebs == 1 + SbSegs * vol.perSeg + bmap.segs * bmap.pebs + tbl.segs * vol.perSeg
CacheFragments == CeilDiv(MetadataLebs, PairsPerFragment)
CacheSizes ==
  { 36 * CacheFragments + 20 * (MetadataLebs + again) :
      again \in IF vol.scattered THEN 0 .. CacheFragments - 1 ELSE {0} }

(* Maptbl tells when this fails or dies.  A backup copy is never accepted. *)
ValidateMaptbl ==
  /\ At("validate maptbl")
  /\ \/ Ends("exit1")
     \/ Ends("died")
     \/ /\ ~layout.maptblCopy
        /\ \E bytes \in CacheSizes :
             sb' = [sb EXCEPT !.cache = bytes, !.thresholds["maptbl"] = Threshold("maptbl")]
        /\ Done /\ UNCHANGED <<host, vol, bmap, tbl, first, logs, written>>

ValidateUserData ==
  /\ At("validate data")
  /\ sb' = [sb EXCEPT !.thresholds["data"] = Threshold("data")]
  /\ Done /\ UNCHANGED <<host, vol, bmap, tbl, first, logs, written>>

-----------------------------------------------------------------------------
(* The third pass: define_layout. *)

(* A log: its extents, the blocks and the bytes of its payload, the bytes  *)
(* by which the offset table's logical offset grows from PEB to PEB, the   *)
(* PEBs that have one, and, from the commit on, its length.                *)
NewLog(bytes, at, page) ==
  [bytes |-> bytes, off |-> StartOffsets(bytes, at, page), page |-> page,
   valid |-> 0, unit |-> 0, perSeg |-> 1, pebs |-> 1, pages |-> 0, length |-> 0]
Pages(l) == LogBytes(l.bytes, l.page) \div l.page

DefineSnapshot ==
  /\ At("define snapshot")
  /\ logs' = Added(logs, "snapshot", NewLog(BareLog, 1024, PageCache))
  /\ Done /\ UNCHANGED <<host, vol, bmap, tbl, sb, first, written>>

(* The cache shares the header's page if it fits into a page of the volume. *)
SbLog ==
  LET l == NewLog([BareLog EXCEPT !["cache"] = sb.cache], 0, PageCache)
  IN  [l EXCEPT !.off["cache"] = IF sb.cache <= PageLen - HdrSize THEN HdrSize ELSE @,
                !.pages = Least(Pages(l), LogMaxPages)]

DefineSuperblock ==
  /\ At("define superblock")
  /\ \/ (LogBytes(SbLog.bytes, PageCache) > EraseLen \/ SbLog.pages \div 2 > vol.pages)
        /\ Ends("died")
     \/ /\ LogBytes(SbLog.bytes, PageCache) <= EraseLen /\ SbLog.pages \div 2 <= vol.pages
        /\ logs' = Added(logs, "superblock", SbLog)
        /\ Done /\ UNCHANGED <<host, vol, bmap, tbl, sb, first, written>>

(* The tables of a log and, where asked for, their backup copies. *)
pre_commit_block_bitmap(bytes, packed) ==
  LET size == BlkBmapHeaders(vol.pages) + BlkBmapContent(vol.pages, layout.blkbmap, packed)
  IN  [bytes EXCEPT !["bitmap"] = size, !["bitmapCopy"] = IF layout.blkbmapCopy THEN size ELSE 0]
pre_commit_offset_table(bytes, valid) ==
  LET size == OffsetTableBytes(valid)
  IN  [bytes EXCEPT !["offsets"] = size, !["offsetsCopy"] = IF layout.tableCopy THEN size ELSE 0]
pre_commit_block_descriptors(bytes, valid) ==
  [bytes EXCEPT !["descs"] = BlkDescTableBytes(valid)]

(* The logs of a structure with "payload" bytes in every PEB. *)
TableLog(payload, unit, perSeg, pebs, packed) ==
  LET valid == CeilDiv(payload, PageLen)
      tables == pre_commit_block_descriptors(
                  pre_commit_offset_table(pre_commit_block_bitmap(BareLog, packed), valid), valid)
  IN  [NewLog([tables EXCEPT !["payload"] = payload], 0, PageLen) EXCEPT
         !.valid = valid, !.unit = unit, !.perSeg = perSeg, !.pebs = pebs]

UsedBlocks(l) == l.perSeg * l.valid
TooManyBlocks(l) == UsedBlocks(l) > Least(vol.perSeg * vol.pages, OffDescPerFragment)

(* The blocks of a segment's later PEBs are marked in a bitmap of one PEB. *)
Overruns(l) == AreaOutside(UsedBlocks(l) - l.valid, l.valid, vol.pages)

LayoutDies(l, given) ==
  \/ TooManyBlocks(l)
  \/ LogBytes(l.bytes, l.page) > EraseLen
  \/ NoDivisor(Pages(l), given, vol.pages)

\* pre_commit_block_bitmap ends the layout if the bitmap cannot be compressed.
CompressionMayFail == layout.blkbmap # 0 /\ BlkBmapBytes(vol.pages) >= 64

(* The layout of the logs of structure s; "missing" says that it runs out  *)
(* of buffers, which is a read behind the array of their addresses.        *)
DefineTable(s, l, given, missing) ==
  \/ (l.valid > vol.pages \/ CompressionMayFail \/ missing) /\ Ends("exit1")
  \/ /\ l.valid <= vol.pages
     /\ missing \/ Overruns(l) \/ LayoutDies(l, given)
     /\ Ends("died")
  \/ /\ l.valid <= vol.pages /\ ~missing /\ ~LayoutDies(l, given)
     /\ logs' = Added(logs, s, [l EXCEPT !.pages = SetLogPages(Pages(l), given, vol.pages)])
     /\ Done /\ UNCHANGED <<host, vol, bmap, tbl, sb, first, written>>

DefineSegbmap ==
  /\ At("define segbmap")
  /\ \E packed \in Packed :
       DefineTable("segbmap",
         TableLog(bmap.perPeb * PageLen, PageLen, bmap.pebs, PlacedPebs(bmap), packed),
         layout.bmapLogPages, PlacesBeyondBuffers(bmap))

DefineMaptbl ==
  /\ At("define maptbl")
  /\ LET portion == Table(vol.pages)!PortionPages(TblInput) * PageLen
     IN  \E packed \in Packed :
           DefineTable("maptbl",
             TableLog(portion * tbl.perFragment, portion, vol.perSeg, tbl.segs * vol.perSeg, packed),
             layout.maptblLogPages, FALSE)

DefineUserData ==
  /\ At("define data")
  /\ LET n == UserDataPages(layout.dataLogPages, vol.pages, vol.erase)
         power == layout.dataLogPages # 0 /\ vol.pages % n # 0 /\ vol.pages % PowerBelow(n) # 0
     IN  \/ (layout.dataLogPages = 0 \/ power) /\ Ends("died")
         \/ /\ layout.dataLogPages # 0 /\ ~power
            /\ sb' = [sb EXCEPT !.dataPages =
                        UserDataLogPages(layout.dataLogPages, vol.pages, vol.erase)]
            /\ Done /\ UNCHANGED <<host, vol, bmap, tbl, first, logs, written>>

-----------------------------------------------------------------------------
(* The fourth pass: commit. *)

(* prepare_*_metadata_descriptor: what a header can say of an extent. *)
Describable(l, x) ==
  l.bytes[x] > 0 => l.bytes[x] < EraseLen /\ l.off[x] \in 1 .. EraseLen - 1
CommitDies(l) ==
  \/ LogBytes(l.bytes, l.page) > EraseLen
  \/ \E x \in Extents \ {"header"} : ~Describable(l, x)
  \/ l.bytes["cache"] >= U16Max
  \/ /\ l.valid > 0
     /\ \/ MetadataBytes(l.bytes, l.page) > EraseLen
        \/ MetadataBytes(l.bytes, l.page) \div l.page >= vol.pages

(* The length a footer states, or the partial header that stands for it in *)
(* a log shorter than declared.                                            *)
StatedBytes(l) == Pages(l) * l.page

Commit(s, l) ==
  \/ CommitDies(l) /\ Ends("died")
  \/ /\ ~CommitDies(l)
     /\ logs' = [logs EXCEPT ![s] = [l EXCEPT !.length = StatedBytes(l)]]
     /\ Done /\ UNCHANGED <<host, vol, bmap, tbl, sb, first, written>>

CommitSnapshot ==
  /\ At("commit snapshot")
  /\ Commit("snapshot", [logs["snapshot"] EXCEPT
              !.pages = Least(Pages(logs["snapshot"]), LogMaxPages)])
CommitSuperblock == At("commit superblock") /\ Commit("superblock", logs["superblock"])
CommitMaptbl == At("commit maptbl") /\ Commit("maptbl", logs["maptbl"])

(* PEBs whose buffer holds no fragment keep an empty header. *)
CommitSegbmap ==
  /\ At("commit segbmap")
  /\ Commit("segbmap", [logs["segbmap"] EXCEPT !.pebs = Cardinality(CommittedPebs(bmap))])

-----------------------------------------------------------------------------
(* write_device erases the segments and writes the logs; any of it may     *)
(* fail.  A failing fsync, or a count of open zones that differs from the  *)
(* calculated one, is an error of a volume that is written.  Where the     *)
(* whole device is to be erased (-R) and a worker cannot be created, the   *)
(* loop that joins the others counts below zero and kills mkfs.            *)
WriteDevice ==
  /\ At("write")
  /\ \/ written' = "all" /\ status' \in {"exit0", "exit1"}
     \/ written' \in {"none", "partly"} /\ status' = "exit1"
     \/ Given(opt, "wipe") /\ written' \in {"none", "partly"} /\ status' = "died"
  /\ UNCHANGED <<inputs, pc, host, made>>

Empty == [none |-> 0]   \* a record that is not made yet

Init ==
  /\ opt \in Commands /\ dev \in Devices
  /\ pc = 1 /\ status = "running" /\ written = "none"
  /\ host = [mounted |-> FALSE, found |-> "unknown", answer |-> "none"]
  /\ vol = Empty /\ bmap = Empty /\ tbl = Empty /\ first = <<>> /\ logs = <<>>
  /\ sb = [nodePages |-> {}, freeSegs |-> 0, cache |-> 0, dataPages |-> 0,
           bmapSegs |-> <<>>, perSeg |-> 0, perPeb |-> 0,
           thresholds |-> [segbmap |-> 0, maptbl |-> 0, data |-> 0]]

Session == ParseOptions \/ OpenDevice \/ ValidateOptions \/ IsDeviceMounted \/ ProbeDevice
             \/ AnswerQuestion \/ AllocSegsArray \/ NoMemory \/ WriteDevice
Prepare == PrepareSnapshot \/ PrepareSuperblock \/ PrepareSegbmap \/ PrepareMaptbl
Validate == ValidateSuperblock \/ ValidateSegbmap \/ ValidateMaptbl \/ ValidateUserData
Define == DefineSnapshot \/ DefineSuperblock \/ DefineSegbmap \/ DefineMaptbl \/ DefineUserData
CommitAll == CommitSnapshot \/ CommitSuperblock \/ CommitSegbmap \/ CommitMaptbl

Next == Session \/ Prepare \/ Validate \/ Define \/ CommitAll
Spec == Init /\ [][Next]_vars
-----------------------------------------------------------------------------
(* Properties. *)

Committed == { s \in DOMAIN logs : logs[s].length > 0 }
Present(l) == { x \in Extents : l.bytes[x] > 0 }
End(l, x) == l.off[x] + l.bytes[x]

(* The extents of a committed log do not overlap and lie within the length *)
(* its footer states, which lies in the PEB and is no longer than the      *)
(* pages its header declares (up to the 256 a header can declare):         *)
(* set_extent_start_offset, calculate_log_pages and *_set_log_pages        *)
(* compute these separately.  Backup copies are placed on pages, two of    *)
(* them on the same one, and counted as if they were packed: they keep     *)
(* clear of the other extents and start within the PEB.                    *)
LogsInBounds ==
  \A s \in Committed :
    LET l == logs[s]
        copies == {"bitmapCopy", "offsetsCopy"}
    IN  /\ \A x, y \in Present(l) :
             x = y \/ {x, y} = copies \/ End(l, x) <= l.off[y] \/ End(l, y) <= l.off[x]
        /\ \A x \in Present(l) \ copies : End(l, x) <= l.length
        /\ \A x \in Present(l) \cap copies : l.off[x] <= l.length
        /\ l.length <= EraseLen
        /\ l.length <= l.pages * l.page \/ l.pages = LogMaxPages

(* A block of the segment bitmap or of the mapping table is found: its     *)
(* item in the offset table leads to the descriptor of the same block,     *)
(* which lies in the descriptors' extent and leads to a page of the        *)
(* payload.  Tables whose last fragment is full have no descriptors in it  *)
(* (60) or are allocated without it (253); the two logical offsets agree   *)
(* if a PEB holds one unit of the structure.                               *)
BlocksResolve ==
  \A s \in Committed \cap {"segbmap", "maptbl"} :
    LET l == logs[s]
        blocks == 0 .. l.valid - 1
    IN  /\ DescribedBlocks(l.valid) = blocks \/ l.valid % BlkDescPerFragment = 0
        /\ OffsetTableWritten(l.valid) = l.bytes["offsets"] \/ l.valid % OffDescPerFragment = 0
        /\ \A k \in 0 .. Least(l.pebs, 4) - 1 : \A i \in DescribedBlocks(l.valid) :
             LET start == (k % l.perSeg) * l.valid
                 item == OffsetItem(i, start, (k * l.unit) \div l.page)
                 desc == BlockDescriptor(i, start, k * l.bytes["payload"], l.page)
             IN  /\ item.blk = desc.blk /\ item.at = desc.at
                 /\ item.page = desc.page \/ l.unit # l.bytes["payload"]
                 /\ item.at + BlkDescSize <= l.bytes["descs"]
                 /\ desc.byte + l.page <= RoundUp(l.bytes["payload"], l.page)
                 /\ desc.byte = i * l.page

(* From this number of segments on the size of the bitmap's headers is     *)
(* underestimated.                                                         *)
UncountedSegs == 1048513

(* A reader finds every segment's state: the fragments of a committed      *)
(* segment bitmap hold a state for every segment, and what the volume      *)
(* header says of a fragment's place is where its PEB was committed.  The  *)
(* copies of a chain of several segments are interleaved in the header and *)
(* not in the layout.  The first PEB's fragments have room for all of the  *)
(* metadata segments, as define_seg_id expects, if one fragment could have *)
(* it.                                                                     *)
BitmapComplete ==
  /\ status = "exit1" =>
       Steps[pc] # "validate segbmap" \/ Capacity(bmap, tbl) > ItemsPerFragment
  /\ "segbmap" \in Committed =>
      /\ vol.segs < UncountedSegs => bmap.fragments * ItemsPerFragment >= vol.segs
      /\ (bmap.copy /\ bmap.chain > 1) \/
         \A f \in 0 .. bmap.fragments - 1 :
           LET k == Fragment(bmap, f, vol.segs).buffer
               peb == (f % sb.perSeg) \div sb.perPeb
           IN  /\ k < logs["segbmap"].pebs
               /\ first["segbmap"] + k \div bmap.pebs = sb.bmapSegs[f \div sb.perSeg]
               /\ k % bmap.pebs = peb
               /\ peb < vol.perSeg

(* The options that need no knowledge of the format. *)
BasicOptions == {"page", "erase", "seg", "force", "compression", "inode", "node"}

(* With these options an assertion or a division by zero ends mkfs only    *)
(* where the mapping table is filled (see Maptbl) or cannot be allocated,  *)
(* when the segments of the bitmap do not fit the eight bits they are      *)
(* counted in or those of the table cannot keep a segment's PEBs in a      *)
(* stripe, when the table's cache is too large for a log of the superblock, *)
(* and when a segment's PEBs together hold more blocks of a table than the *)
(* block bitmap or the offset table of one log can name.                   *)
DefaultsSafe ==
  (status = "died" /\ DOMAIN opt \subseteq BasicOptions) =>
    LET most == Least(RoundUp(vol.pages, 4), OffDescPerFragment)
    IN  \/ Steps[pc] \in {"prepare maptbl", "validate maptbl"}
        \/ BmapFragments(vol.segs) > 255 \/ vol.perSeg > 2 * 476
        \/ /\ Steps[pc] \in {"define superblock", "commit superblock"}
           /\ sb.cache >= Least(U16Max, EraseLen - 3 * PageCache)
        \/ /\ Steps[pc] = "define segbmap"
           /\ bmap.pebs * bmap.perPeb > most
        \/ /\ Steps[pc] = "define maptbl"
           /\ vol.perSeg * Table(vol.pages)!PortionPages(TblInput) > most

(* A volume is written only to a device that is not mounted and on which   *)
(* no file system or partition table was seen without an agreement; the    *)
(* status of a success, which the checks share with the write, means that  *)
(* all of the volume was written or that it was not to be: the device is   *)
(* mounted, the user refused, or mkfs was asked for its help.              *)
WrittenByConsent ==
  /\ written # "none" =>
       ~host.mounted /\ (layout.force \/ host.found # "signature" \/ host.answer = "yes")
  /\ status = "exit0" =>
       written = "all" \/ host.mounted \/ host.answer = "no" \/ Given(opt, "help")
=============================================================================
