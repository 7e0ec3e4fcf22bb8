----------------------------- MODULE MkfsWrite ------------------------------
(***************************************************************************)
(* The last phase of mkfs.ssdfs (write_device): the prepared layout is     *)
(* checked, the device erased (only the allocated segments, all segments   *)
(* one by one, or all PEBs by a pool of threads), every prepared PEB is    *)
(* written through a buffer of one page, and the device is synced.         *)
(***************************************************************************)
EXTENDS PebPartition, Sequences, FiniteSets

CONSTANTS
  PageSize,    \* bytes of a page, and of the write buffer
  PebPages,    \* pages of a PEB
  PebsCount,   \* PEBs of the volume
  Layouts,     \* what the creation phases may leave in layout->segs
  Kinds,       \* device types, of "blk", "zns", "mtd"
  Threads,     \* values of layout->threads.capacity
  MayFail      \* TRUE: devices, allocations and pthread_create may fail

PebSize == PageSize * PebPages
Bytes == 0 .. PebsCount * PebSize - 1
Pebs == 0 .. PebsCount - 1

(***************************************************************************)
(* A layout gives the PEBs per segment, segs_capacity and the segments;    *)
(* a segment its type, its id and the PEBs to write; a PEB its id and the  *)
(* extents that have a buffer, in the order of the log's items.            *)
(***************************************************************************)
ExtentType == [off : Nat, size : Nat \ {0}]
PebType == [id : Nat, extents : Seq(ExtentType)]
SegType == [type : STRING, id : Nat, pebs : Seq(PebType)]

(* The BUG_ONs of the layout check rule out empty PEBs and empty extents;  *)
(* only the volume boot record shifts a first extent, by less than a page. *)
(* The volume is cut to whole segments, and the number of a PEB is a u64.  *)
ASSUME MkfsWriteAssumption ==
  /\ PageSize \in Nat \ {0}
  /\ PebPages \in Nat \ {0}
  /\ PebsCount \in Nat \ {0}
  /\ Threads \subseteq Nat \ {0}
  /\ \A c \in Threads : c * PebsPerThread(PebsCount, c) < U64
  /\ MayFail \in BOOLEAN
  /\ \A l \in Layouts :
       /\ l.perSeg \in Nat \ {0}
       /\ PebsCount % l.perSeg = 0
       /\ l.segs \in Seq(SegType)
       /\ \A s \in DOMAIN l.segs : \A j \in DOMAIN l.segs[s].pebs :
            LET extents == l.segs[s].pebs[j].extents
            IN  Len(extents) > 0 /\ extents[1].off < PageSize

VARIABLES
  layout,
  kind,      \* layout->env.device_type
  need,      \* layout->need_erase_device
  cap,       \* layout->threads.capacity
  dev,       \* the bytes of the device
  wp,        \* write pointer of each zone
  pc,
  i,         \* segment or thread of the running loop
  requested, \* layout->threads.requested_jobs
  thr,       \* life of each erase worker
  done,      \* PEBs of its range each worker has erased
  cur,       \* the PEB and the extent being written
  buf,       \* layout->write_buffer
  out,       \* volume_offset, flushed_bytes
  zones,     \* layout->env.open_zones
  res,       \* result of write_device
  failed     \* history: what failed, "erase" in a worker, "call" elsewhere

eraseVars == <<requested, thr, done>>
writeVars == <<cur, buf, out, zones>>
inputs == <<layout, kind, need, cap>>
vars == <<inputs, dev, wp, pc, i, eraseVars, writeVars, res, failed>>

Workers == 0 .. cap - 1
(* A byte of the device: what was there before, erased space, or a byte of *)
(* an extent, <<segment, PEB, extent, index>>.                             *)
Old == <<0, 0, 0, 0>>
Erased == <<0, 0, 0, 1>>
EmptyBuf == [b \in 0 .. PageSize - 1 |-> Erased]

SegBytes(s) ==
  LET size == layout.perSeg * PebSize
  IN  s * size .. (s + 1) * size - 1

PebBytes(p) == p * PebSize .. (p + 1) * PebSize - 1

(* The mapping table's check of an MTD device has erased it already        *)
(* (is_volume_erased).                                                     *)
Init ==
  /\ layout \in Layouts
  /\ kind \in Kinds
  /\ kind = "zns" => layout.perSeg = 1
  /\ need \in BOOLEAN
  /\ cap \in Threads
  /\ dev = [b \in Bytes |-> IF kind = "mtd" THEN Erased ELSE Old]
  /\ wp = [p \in Pebs |-> IF kind = "mtd" THEN 0 ELSE PebSize]
  /\ pc = "check"
  /\ i = 0
  /\ requested = 0
  /\ thr = [t \in Workers |-> "none"]
  /\ done = [t \in Workers |-> 0]
  /\ cur = [seg |-> 1, peb |-> 1, ext |-> 0, off |-> 0, left |-> 0]
  /\ buf = [bytes |-> EmptyBuf, off |-> 0]
  /\ out = [vol |-> 0, flushed |-> 0]
  /\ zones = 0
  /\ res = "none"
  /\ failed = {}

Return(r) == pc' = "done" /\ res' = r

-----------------------------------------------------------------------------
(* check_layout_before_write *)

ExtentFits(peb, e) == peb.id < PebsCount /\ e.off + e.size <= PebSize

(* Each extent starts after the one before it, less than a page further. *)
ExtentsInOrder(x) ==
  \A k \in 1 .. Len(x) - 1 :
    LET end == x[k].off + x[k].size
    IN  end <= x[k + 1].off /\ x[k + 1].off - end < PageSize

(* The pages of the volume that a PEB's log takes. *)
Blocks(peb) ==
  LET x == peb.extents
      last == x[Len(x)].off + x[Len(x)].size - 1
  IN  { (peb.id * PebSize + b) \div PageSize : b \in x[1].off .. last }

AllPebs(l) ==
  UNION { { <<s, j>> : j \in DOMAIN l.segs[s].pebs } : s \in DOMAIN l.segs }

Peb(l, n) == l.segs[n[1]].pebs[n[2]]

(* With one PEB per segment the mapping table gives a segment the PEB of   *)
(* its own number.  One segment, of one PEB, holds the initial snapshot.   *)
ASSUME OnePebPerSegmentAssumption ==
  \A l \in Layouts : l.perSeg = 1 =>
    /\ \A n \in AllPebs(l) : Peb(l, n).id = l.segs[n[1]].id
    /\ \E n \in AllPebs(l) : \A m \in AllPebs(l) :
         l.segs[m[1]].type = "snapshot" <=> m = n

\* A plausible bug: a gap of a whole page between two extents is accepted.
ExtentsInOrderWide(x) ==
  \A k \in 1 .. Len(x) - 1 : x[k].off + x[k].size <= x[k + 1].off

\* A plausible bug: a block that is used already is not refused.
AcceptedTwice(l) ==
  /\ l.capacity = Len(l.segs)
  /\ \A n \in AllPebs(l) :
       /\ \A e \in DOMAIN Peb(l, n).extents : ExtentFits(Peb(l, n), Peb(l, n).extents[e])
       /\ ExtentsInOrder(Peb(l, n).extents)

Accepted(l) ==
  /\ l.capacity = Len(l.segs)
  /\ \A n \in AllPebs(l) :
       /\ \A e \in DOMAIN Peb(l, n).extents : ExtentFits(Peb(l, n), Peb(l, n).extents[e])
       /\ ExtentsInOrder(Peb(l, n).extents)
       /\ \A m \in AllPebs(l) \ {n} : Blocks(Peb(l, n)) \cap Blocks(Peb(l, m)) = {}
  /\ \A s \in DOMAIN l.segs :
       LET used == UNION { Blocks(l.segs[s].pebs[j]) : j \in DOMAIN l.segs[s].pebs }
       IN  Cardinality(used) <= l.perSeg * PebPages

CheckLayout ==
  /\ pc = "check"
  /\ IF Accepted(layout) THEN pc' = "erase" /\ res' = res ELSE Return("refused")
  /\ UNCHANGED <<inputs, dev, wp, i, eraseVars, writeVars, failed>>

CheckFails ==
  /\ MayFail
  /\ pc = "check"
  /\ Return("error")
  /\ failed' = {"call"}
  /\ UNCHANGED <<inputs, dev, wp, i, eraseVars, writeVars>>

-----------------------------------------------------------------------------
(* erase_device *)

Erase(bytes) ==
  /\ dev' = [b \in Bytes |-> IF b \in bytes THEN Erased ELSE dev[b]]
  /\ wp' = [p \in Pebs |-> IF PebBytes(p) \subseteq bytes THEN 0 ELSE wp[p]]

(* Which of the ways to erase is taken; one thread erases segment by       *)
(* segment, and so does a pool that cannot be allocated.                   *)
ChooseErase ==
  /\ pc = "erase"
  /\ i' = 0
  /\ pc' = IF kind = "mtd" THEN "write"
           ELSE IF ~need THEN "erase_allocated"
           ELSE IF cap = 1 THEN "erase_all" ELSE "spawn"
  /\ UNCHANGED <<inputs, dev, wp, eraseVars, writeVars, res, failed>>

AllocPoolFails ==
  /\ MayFail
  /\ pc = "spawn"
  /\ i = 0
  /\ pc' = "erase_all"
  /\ UNCHANGED <<inputs, dev, wp, i, eraseVars, writeVars, res, failed>>

\* A plausible bug: the last segments are not erased.
EraseTargetsShort ==
  IF pc = "erase_allocated"
  THEN [s \in 1 .. Len(layout.segs) - 2 |-> layout.segs[s].id]
  ELSE [s \in 1 .. PebsCount \div layout.perSeg |-> s - 1]

EraseTargets ==
  IF pc = "erase_allocated" THEN [s \in 1 .. Len(layout.segs) |-> layout.segs[s].id]
  ELSE [s \in 1 .. PebsCount \div layout.perSeg |-> s - 1]

EraseSegment ==
  /\ pc \in {"erase_allocated", "erase_all"}
  /\ i < Len(EraseTargets)
  /\ Erase(SegBytes(EraseTargets[i + 1]))
  /\ i' = i + 1
  /\ UNCHANGED <<inputs, pc, eraseVars, writeVars, res, failed>>

EraseSegmentFails ==
  /\ MayFail
  /\ pc \in {"erase_allocated", "erase_all"}
  /\ Return("error")
  /\ failed' = {"call"}
  /\ UNCHANGED <<inputs, dev, wp, i, eraseVars, writeVars>>

SegmentsErased ==
  /\ pc \in {"erase_allocated", "erase_all"}
  /\ i = Len(EraseTargets)
  /\ pc' = "write"
  /\ UNCHANGED <<inputs, dev, wp, i, eraseVars, writeVars, res, failed>>

PerThread == PebsPerThread(PebsCount, cap)
CurrentPeb(t) == FirstPeb(t, PerThread) + done[t]
HasWork(t) ==
  /\ thr[t] = "running"
  /\ done[t] < Share(t, PebsCount, PerThread)
  /\ CurrentPeb(t) < PebsCount

\* A plausible bug: one worker more is waited for than was started.
SpawnCounting ==
  /\ pc = "spawn"
  /\ i < cap
  /\ thr' = [thr EXCEPT ![i] = "running"]
  /\ requested' = requested + 2
  /\ i' = i + 1
  /\ UNCHANGED <<inputs, dev, wp, pc, done, writeVars, res, failed>>

Spawn ==
  /\ pc = "spawn"
  /\ i < cap
  /\ thr' = [thr EXCEPT ![i] = "running"]
  /\ requested' = requested + 1
  /\ i' = i + 1
  /\ UNCHANGED <<inputs, dev, wp, pc, done, writeVars, res, failed>>

(* pthread_create failed: the unsigned loop variable passes zero, and the  *)
(* pool is read far beyond its end.                                        *)
SpawnFails ==
  /\ MayFail
  /\ pc = "spawn"
  /\ i < cap
  /\ \A t \in 0 .. i - 1 : thr[t] = "exited"
  /\ pc' = "crashed"
  /\ failed' = failed \cup {"call"}
  /\ UNCHANGED <<inputs, dev, wp, i, eraseVars, writeVars, res>>

AllSpawned ==
  /\ pc = "spawn"
  /\ i = cap
  /\ pc' = "wait"
  /\ i' = 0
  /\ UNCHANGED <<inputs, dev, wp, eraseVars, writeVars, res, failed>>

\* A plausible bug: the exit of the worker is not awaited.
WaitJoinNoWait ==
  /\ pc = "wait"
  /\ i < requested
  /\ i' = i + 1
  /\ UNCHANGED <<inputs, dev, wp, pc, eraseVars, writeVars, res, failed>>

WaitJoin ==
  /\ pc = "wait"
  /\ i < requested
  /\ thr[i] = "exited"
  /\ i' = i + 1
  /\ UNCHANGED <<inputs, dev, wp, pc, eraseVars, writeVars, res, failed>>

AllJoined ==
  /\ pc = "wait"
  /\ i = requested
  /\ pc' = "write"
  /\ requested' = 0
  /\ UNCHANGED <<inputs, dev, wp, i, thr, done, writeVars, res, failed>>

ErasePeb(t) ==
  /\ HasWork(t)
  /\ Erase(PebBytes(CurrentPeb(t)))
  /\ done' = [done EXCEPT ![t] = @ + 1]
  /\ UNCHANGED <<inputs, pc, i, requested, thr, writeVars, res, failed>>

(* An erase fails, or the buffer cannot be allocated: the worker gives up, *)
(* and its error reaches nobody.                                           *)
ErasePebFails(t) ==
  /\ MayFail
  /\ HasWork(t) \/ (thr[t] = "running" /\ done[t] = 0)
  /\ thr' = [thr EXCEPT ![t] = "exited"]
  /\ failed' = failed \cup {"erase"}
  /\ UNCHANGED <<inputs, dev, wp, pc, i, requested, done, writeVars, res>>

ExitThread(t) ==
  /\ thr[t] = "running"
  /\ ~HasWork(t)
  /\ thr' = [thr EXCEPT ![t] = "exited"]
  /\ UNCHANGED <<inputs, dev, wp, pc, i, requested, done, writeVars, res, failed>>

Worker(t) == ErasePeb(t) \/ ErasePebFails(t) \/ ExitThread(t)

-----------------------------------------------------------------------------
(* write_segments *)

CurPeb == layout.segs[cur.seg].pebs[cur.peb]
CurExtent == CurPeb.extents[cur.ext]

(* The next PEB to write, skipping the segments that have none. *)
StartPeb ==
  /\ pc = "write"
  /\ cur.seg <= Len(layout.segs)
  /\ IF cur.peb > Len(layout.segs[cur.seg].pebs)
     THEN /\ cur' = [cur EXCEPT !.seg = @ + 1, !.peb = 1]
          /\ UNCHANGED <<pc, buf, out>>
     ELSE /\ cur' = [cur EXCEPT !.ext = 0, !.off = 0, !.left = 0]
          /\ buf' = [buf EXCEPT !.bytes = EmptyBuf]
          /\ out' = [vol |-> CurPeb.id * PebSize, flushed |-> 0]
          /\ pc' = "peb"
  /\ UNCHANGED <<inputs, dev, wp, i, eraseVars, zones, res, failed>>

\* A plausible bug: the extent is put behind the one before it.
NextExtentPacked ==
  /\ pc = "peb"
  /\ cur.left = 0
  /\ cur.ext < Len(CurPeb.extents)
  /\ LET x == CurPeb.extents[cur.ext + 1]
     IN  cur' = [cur EXCEPT !.ext = @ + 1, !.left = x.size,
                            !.off = IF cur.ext = 0 THEN x.off ELSE @]
  /\ UNCHANGED <<inputs, dev, wp, pc, i, eraseVars, buf, out, zones, res, failed>>

(* An extent before the end of the last one would be an error; the layout  *)
(* check has refused it.                                                   *)
NextExtent ==
  /\ pc = "peb"
  /\ cur.left = 0
  /\ cur.ext < Len(CurPeb.extents)
  /\ LET x == CurPeb.extents[cur.ext + 1]
     IN  /\ x.off >= cur.off
         /\ cur' = [cur EXCEPT !.ext = @ + 1, !.off = x.off, !.left = x.size]
  /\ UNCHANGED <<inputs, dev, wp, pc, i, eraseVars, buf, out, zones, res, failed>>

(* The write of a page: a zone is opened at its first page, and must be    *)
(* written at its write pointer.                                           *)
WriteWorks == kind = "zns" => wp[out.vol \div PebSize] = out.vol % PebSize

FlushBuffer(bytes) ==
  /\ WriteWorks
  /\ dev' = [b \in Bytes |-> IF b \in out.vol .. out.vol + PageSize - 1
                             THEN bytes[b - out.vol] ELSE dev[b]]
  /\ wp' = [wp EXCEPT ![out.vol \div PebSize] = (out.vol % PebSize) + PageSize]
  /\ zones' = IF kind = "zns" /\ out.vol % PebSize = 0 THEN zones + 1 ELSE zones
  /\ buf' = [bytes |-> EmptyBuf, off |-> 0]
  /\ out' = [vol |-> out.vol + PageSize, flushed |-> out.flushed + PageSize]

(* What prepare_write_buffer does with the rest of the extent: at is its   *)
(* place in the buffer; a place before the end of the buffered bytes is in *)
(* the next page, nothing is copied then.                                  *)
At == cur.off % PageSize
Copied ==
  IF At < buf.off THEN 0
  ELSE IF cur.left < PageSize - At THEN cur.left ELSE PageSize - At

\* A plausible bug: an extent that ends with the page is not flushed with it.
MustFlushLate == At < buf.off \/ Copied < cur.left

MustFlush == At < buf.off \/ At + Copied = PageSize

Filled ==
  [b \in 0 .. PageSize - 1 |->
     IF b \in At .. At + Copied - 1
     THEN <<cur.seg, cur.peb, cur.ext, CurExtent.size - cur.left + b - At>>
     ELSE buf.bytes[b]]

(* One turn of the loop over the extent's bytes. *)
CopyBytes ==
  /\ pc = "peb"
  /\ cur.left > 0
  /\ cur' = [cur EXCEPT !.off = @ + Copied, !.left = @ - Copied]
  /\ IF MustFlush THEN FlushBuffer(Filled)
     ELSE /\ buf' = [bytes |-> Filled, off |-> At + Copied]
          /\ UNCHANGED <<dev, wp, zones, out>>
  /\ UNCHANGED <<inputs, pc, i, eraseVars, res, failed>>

PebCopied == pc = "peb" /\ cur.left = 0 /\ cur.ext = Len(CurPeb.extents)

(* The zone of the initial snapshot is finished when it is written. *)
FinishesZone == kind = "zns" /\ layout.segs[cur.seg].type = "snapshot"

WriteFails ==
  /\ \/ pc = "peb" /\ cur.left > 0 /\ MustFlush
     \/ PebCopied /\ cur.off > out.flushed
  /\ MayFail \/ ~WriteWorks
  /\ Return("error")
  /\ failed' = IF WriteWorks THEN failed \cup {"call"} ELSE failed
  /\ UNCHANGED <<inputs, dev, wp, i, eraseVars, writeVars>>

(* The rest of the buffer, less than a page. *)
FlushRest ==
  /\ PebCopied
  /\ cur.off > out.flushed
  /\ cur.off - out.flushed <= PageSize
  /\ FlushBuffer(buf.bytes)
  /\ UNCHANGED <<inputs, pc, i, eraseVars, cur, res, failed>>

\* A plausible bug: the loop does not go on to the next PEB.
FinishPebAgain ==
  /\ PebCopied
  /\ cur.off <= out.flushed
  /\ pc' = "write"
  /\ UNCHANGED <<inputs, dev, wp, i, eraseVars, writeVars, res, failed>>

FinishPeb ==
  /\ PebCopied
  /\ cur.off <= out.flushed
  /\ zones' = IF FinishesZone THEN zones - 1 ELSE zones
  /\ cur' = [cur EXCEPT !.peb = @ + 1]
  /\ pc' = "write"
  /\ UNCHANGED <<inputs, dev, wp, i, eraseVars, buf, out, res, failed>>

FinishZoneFails ==
  /\ MayFail
  /\ PebCopied
  /\ cur.off <= out.flushed
  /\ FinishesZone
  /\ Return("error")
  /\ failed' = failed \cup {"call"}
  /\ UNCHANGED <<inputs, dev, wp, i, eraseVars, writeVars>>

-----------------------------------------------------------------------------
(* The end of write_device *)

(* calculated_open_zones: the layout definitions of superblock, segment    *)
(* bitmap and mapping table count one zone for each PEB they fill.         *)
CalculatedOpenZones ==
  Cardinality({ n \in AllPebs(layout) : layout.segs[n[1]].type # "snapshot" })

Sync ==
  /\ pc = "write"
  /\ cur.seg > Len(layout.segs)
  /\ IF kind = "zns" /\ zones # CalculatedOpenZones THEN Return("zones") ELSE Return("ok")
  /\ UNCHANGED <<inputs, dev, wp, i, eraseVars, writeVars, failed>>

SyncFails ==
  /\ MayFail
  /\ pc = "write"
  /\ cur.seg > Len(layout.segs)
  /\ Return("error")
  /\ failed' = failed \cup {"call"}
  /\ UNCHANGED <<inputs, dev, wp, i, eraseVars, writeVars>>

Main ==
  \/ CheckLayout \/ CheckFails
  \/ ChooseErase \/ AllocPoolFails
  \/ EraseSegment \/ EraseSegmentFails \/ SegmentsErased
  \/ Spawn \/ SpawnFails \/ AllSpawned \/ WaitJoin \/ AllJoined
  \/ StartPeb \/ NextExtent \/ CopyBytes \/ FlushRest \/ WriteFails
  \/ FinishPeb \/ FinishZoneFails
  \/ Sync \/ SyncFails

Idle == pc \in {"done", "crashed"} /\ UNCHANGED vars

Next == Main \/ (\E t \in Workers : Worker(t)) \/ Idle

(* The kernel schedules every runnable thread. *)
Spec ==
  /\ Init /\ [][Next]_vars
  /\ WF_vars(Main)
  /\ \A t \in UNION { 0 .. c - 1 : c \in Threads } : WF_vars(t \in Workers /\ Worker(t))

-----------------------------------------------------------------------------
(* Properties *)

Data == { b \in Bytes : dev[b] \notin {Old, Erased} }

TypeOK ==
  /\ pc \in {"check", "erase", "erase_allocated", "erase_all", "spawn", "wait",
             "write", "peb", "done", "crashed"}
  /\ requested \in 0 .. cap
  /\ thr \in [Workers -> {"none", "running", "exited"}]
  /\ \A t \in Workers : done[t] \in 0 .. PebsCount
  /\ wp \in [Pebs -> 0 .. PebSize]
  /\ buf.off \in 0 .. PageSize - 1
  /\ zones \in 0 .. PebsCount
  /\ res \in {"none", "ok", "refused", "error", "zones"}
  /\ failed \subseteq {"erase", "call"}

(* What a byte of the volume holds when the layout is on the device. *)
Expected(b) ==
  UNION { LET x == Peb(layout, n).extents
              at == b - Peb(layout, n).id * PebSize
          IN  { <<n[1], n[2], e, at - x[e].off>> :
                  e \in { f \in DOMAIN x : at \in x[f].off .. x[f].off + x[f].size - 1 } }
          : n \in AllPebs(layout) }

(* A volume that mkfs.ssdfs reports as written is on the device byte for   *)
(* byte: every extent lies at its offset of its PEB, and what the write    *)
(* buffer carried between and behind the extents is erased space, not      *)
(* bytes of another extent or PEB.  The buffer of one page has to cut      *)
(* extents at page ends, skip gaps, and start anew with each PEB.          *)
LayoutOnDevice ==
  res = "ok" =>
    \A b \in Bytes :
      IF Expected(b) # {} THEN dev[b] \in Expected(b) ELSE b \notin Data

(* Nothing written is ever erased or overwritten: no erase worker is still *)
(* at work when the segments are written, and no two PEBs share a page.    *)
WrittenStays == [][\A b \in Data : dev'[b] = dev[b]]_vars

(* With option -R no byte of the old content is left in a volume that is   *)
(* reported as written, however the PEBs were shared out to the workers,   *)
(* unless a worker could not erase.                                        *)
OldContentGone ==
  res = "ok" /\ need /\ "erase" \notin failed => \A b \in Bytes : dev[b] # Old

(* A layout that passes the check can be written: without a failing call   *)
(* no write is refused by a zone and no zone is miscounted; and the zones  *)
(* counted as open are those that were written and not finished.           *)
CheckedLayoutIsWritten ==
  /\ res = "error" => failed # {}
  /\ res # "zones"
  /\ res = "ok" /\ kind = "zns" =>
       zones = Cardinality({ p \in Pebs : Data \cap PebBytes(p) # {} }) - 1

(* The tool ends: every erase worker ends, and the write loops too. *)
WriteEnds == <>(pc \in {"done", "crashed"})
=============================================================================
