# Verification of ssdfs-tools

TLA+ models of the user-space tools of the SSDFS file system, the TLC runs that
check them on small instances, and theorems about them that TLAPS checks for
every value of the constants. The reference is the C source under `src/`;
`PROJECT.json` maps every definition to the lines it models.

## 1. The system

ssdfs-tools is a set of programs that work on a device without the file system
being mounted. A volume is an array of physical erase blocks (PEBs), grouped in
segments. A PEB holds *logs*, one after the other; a log starts with a segment
header (a full log) or a partial log header and ends with a footer. Each metadata
structure of the volume lives in segments of its own: the initial ("base")
snapshot in PEB 0, two copies of the superblock segment, the segment bitmap and
the mapping table (LEB to PEB).

| Component | State | Operations | Hard parts |
|---|---|---|---|
| `fsck.ssdfs` session | detection, check and recovery result, answers | open, detect, check, ask, recover, exit | many paths to the recovery; exit status; a dialog at the end of input |
| `fsck.ssdfs` detection | creation point, found logs | find base snapshot, follow the superblock chain, find last full/partial log, segment bitmap, mapping table | pointers and lengths come from a medium that may be corrupted |
| `fsck.ssdfs` whole-volume search | thread pool, one metadata map per worker, array of creation points | start, scan, join, merge | workers interleave; any allocation may fail; unsigned shares wrap |
| `fsck.ssdfs` check, recovery | masks and states | one action per structure | stubs in this version |
| `mkfs.ssdfs` session | options | validate, mounted?, safe to overwrite?, allocate, create, write | early exits with status 0 |
| `mkfs.ssdfs` creation | layout: segments, PEBs, extents; headers | prepare, validate, define, commit, for each structure in an order | later phases use numbers of earlier ones; the same sizes are computed in several places |
| `mkfs.ssdfs` segment bitmap | fragments, chain of segments | allocation policy, fill, lay out | counts kept in 8 and 16 bits; two roundings |
| `mkfs.ssdfs` mapping table and cache | LEB and PEB tables, cache fragments | map LEBs, mark pre-erased, cache pairs | index arithmetic over fragments, portions and stripes |
| `mkfs.ssdfs` write | device, write buffer, open zones, erase pool | check layout, erase, write PEBs, sync | erase races with write; one-page buffer; failed thread creation |
| `recoverfs.ssdfs` dump | thread pool, open files, checkpoint folders | scan PEBs, walk logs and tables, extract blocks | descriptors shared by threads; pool freed without join; corrupted lengths |
| `recoverfs.ssdfs` synthesis | folders, time range, files | filter, merge the versions of blocks, delete folders, inline files | newest version must win; a filter that changes while it is used; loop until a folder is empty |
| `dump.ssdfs` | none | print PEBs, logs, raw bytes | walk over logs |
| `tune`, `snapshotfs`, `resize`, `test` | options | one ioctl | state is the kernel's |
| `lib` | none | device I/O, probing, bitmaps, compression | reads beyond the end are repeated for ever |

Interaction: the tools share nothing at run time. Within a tool, the main thread
and its workers share the pool (`env->threads.jobs`), each worker writing only
its own element, and the main thread reads it after `pthread_join()`. The
superblock and the base snapshot written by mkfs are what fsck follows.

## 2. Modules

| Module | Models | Source |
|---|---|---|
| `PebPartition` | how PEBs are shared out to threads, with the wrap of `u64` | `fsck.h`, `mkfs.h`, `recoverfs.h` (`ssdfs_init_peb_environment`) |
| `FsckSearch` | `execute_whole_volume_search()`: main thread, workers, maps, merge | `detect_file_system.c` 2205-2794 |
| `VolumeSearch` | what the search promises its caller (abstract) | same |
| `FsckSearchRefines` | the refinement mapping of `FsckSearch` to `VolumeSearch` | |
| `SbChain` | base snapshot and chain of superblock segments | `detect_file_system.c` 156-199, 480-735 |
| `LastLog` | newest full and partial log of a PEB | `detect_file_system.c` 202-477 |
| `Fsck` | a session of fsck, using `VolumeSearch` for the search | `fsck.c`, `check_file_system.c`, `recover_file_system.c` |
| `MkfsWrite` | `write_device()`: check, erase, write, sync | `mkfs.c` 917-1771, `lib/*_readwrite.c` |
| `Maptbl` | mapping table and its cache as mkfs creates them | `mapping_table.c` 28-578, 735-1582, `mapping_table_cache.c`, `segment_bitmap.c` 321-359 |
| `MkfsOptions` | which values the command line accepts and stores | `mkfs.ssdfs/options.c` |
| `Rounding` | the roundings and the 16 bit conversion the mkfs modules share | |
| `LogLayout` | extents of a log; block bitmap, offset table, block descriptors | `mkfs.ssdfs/common.c`, `lib/blkbmap.c` |
| `SegbmapLayout` | the segment bitmap's fragments and their places | `segment_bitmap.c`, `lib/segbmap.c` |
| `MaptblGeometry` | the mapping table's portions, stripes and segments; used by `Maptbl` and `MkfsCreate` | `mapping_table.c` 28-258 |
| `MkfsCreate` | mkfs from the command line to the exit status | `mkfs.c`, and the phases in `common.c`, `initial_snapshot.c`, `superblock_segment.c`, `segment_bitmap.c`, `mapping_table.c` |
| `TimeFilter` | option `-t` of recoverfs | `snapshot.h` |
| `RecoverDump` | reading one log: its length, its block descriptors, a block's states | `peb_processing.c` (areas, fragments, block states) |
| `RecoverScan` | the raw dump by a pool of threads | `peb_processing.c` (PEBs and logs), `recoverfs.c`, `recoverfs.h` |
| `Recover` | a session of recoverfs, on top of `RecoverScan` and `TimeFilter` | `recoverfs.c`, `file_synthesis.c`, `inline_files.c`, `delete_folder.c` |
| `FsckSearchProof`, `SbChainProof`, `LastLogProof`, `FsckProof`, `MkfsWriteProof`, `MkfsCreateProof`, `MaptblProof`, `RecoverProof` | theorems about the module in the name (`FsckSearchProof`: also about the shares of `PebPartition`, and the refinement) | |
| `MC*` | instances for TLC | |

### Correspondence of state and actions

* `FsckSearch`. `pc`, `i`, `item` are the main thread's position and loop
  variables; `requested` is `threads.requested_jobs`; `thr`, `done`, `map` are the
  elements of `threads.jobs`; `array` is `detection_result.array` with its three
  states (built-in buffer, allocated, lost after a failed `realloc`). One action
  of a worker is the treatment of one PEB, one action of the main thread is one
  turn of a loop. Workers touch nothing but their own element, so finer steps
  would add no behaviour. `vol` is the device: what reading each PEB's header yields; user
  data, no header and a read error have the same effect (`Other`). A map whose
  `realloc` failed is a NULL array with a stale count; if it is allocated afresh
  its old items are uninitialized, and the merge may read *any* item there
  (`MergeGarbage`). An allocation that fails in the merge takes what it was to
  replace with it: all creation points (`LostPoints`), or a map of one
  (`WithoutMap`).
* `SbChain`. `base` and `image` are all headers a corrupted medium may hold.
  A pointer is a PEB, one beyond the device (`Beyond`, where `pread()` returns 0
  and `ssdfs_pread()` never returns), or `U64_MAX` (a negative offset, an error).
* `LastLog`. A page is a segment header with its log length and its footer, a
  partial log header with its length, empty, or unreadable; a page of the next PEB
  may hold anything but a segment header is as good as empty there. Lengths are in
  pages. `BUG_ON()` is the state `abort`. `Behind` pages of the device follow the
  PEB; a scan that passes them, or a footer that lies there, ends in `spin`:
  `ssdfs_pread()` repeats the read of 0 bytes for ever.
* `Fsck`. The options are the four booleans that decide the control flow and the
  number of threads. The detect
  actions are taken by their results; `SbChain` and `LastLog` look into them. The
  check and recovery functions return constants in this version, and so they do
  in the model. Detection may not return when something on the device leads past its
  end (`astray`, the `spin` of the two modules), and the search when the share of a
  worker wraps (`~Fits`, the run `search_hang`): both are the state `hung`.
* `MkfsWrite`. `dev` is the device byte by byte; a byte is old, erased, or a given
  byte of a given extent. `Layouts` is what the creation phases leave: the first
  extent starts inside the first page, and extents and PEBs are not empty (the
  `BUG_ON()`s of the layout check). A zone (`zns`) must be written at its write
  pointer `wp`. An MTD device was erased when the mapping table checked its PEBs.
* `Maptbl`. `lay` is the volume with its options, `geo` what the allocation policy
  derives from it (`layout->maptbl`). The headers of the tables follow from both and
  are operators (`StartLeb`, `LebsCount`, `StartPeb`, `PebsCount`); the descriptors
  are `phys` (LEB table) and `state` (PEB tables). A fragment of the cache is its
  pairs and its header; the header of an overfull fragment is modelled with what it
  really gets. Segment ids are the segments' indices, because the bitmap hands out
  the first clean one. Wraps of `u64`/`u32` are resolved where they happen: a
  portion beyond the volume, and the correction of a portion larger than a PEB
  (always an assertion). `crash` is the freeing loop that leaves its array. The
  16 and 32 bit limits that the code asserts, or cuts a number to, are the constants
  `U16Limit` and `U32Limit`: stripes of a zoned device (an error), portions, PEBs of a
  portion, fragments of the cache and physical indexes (assertions), and in the
  superblock the pre-erased PEBs (saturated) and the PEBs per fragment and stripe
  (the minimum of two 16 bit values). The assertion on the portions of a PEB
  (line 209) cannot fail, because the options allow fewer; nor can the one on the
  portions of a segment (line 1390), which is kept in the model: the one on all
  portions (line 565) fails before it.
* `MkfsCreate`. `pc` is the step of `main()` or of one of the four passes of
  `mkfs_create()`; every step takes the numbers of the earlier ones from `vol`
  (validated sizes), `bmap` and `tbl` (allocation policies), `sb` (what goes into
  the superblock) and `first` (segments taken). `logs` has one record per structure,
  because its logs differ in the number of their first block only: the bytes and
  offsets of the extents, the declared pages, and the length the footer states.
  The constants of the format (60 block descriptors and 253 offsets per fragment,
  256 pages per log, 4096 byte pages, ...) are the real ones. `status` tells how
  mkfs ended; `died` is an assertion, a division by zero or a write outside of a
  buffer. The host's answers (mounted, signature, memory, the user) are free. How
  far the block bitmap is compressed is a choice (`Packed`), and a compression may
  fail. Filling the mapping table is `Maptbl`, writing is `MkfsWrite`; here both
  are one step with the outcomes they have. `MkfsCreate` justifies the shape of the
  layouts `MkfsWrite` takes as a constant. The write ends with everything written and status 0, or
  status 1 when `fsync()` or the count of open zones fails; with a part or nothing
  written and status 1; or in the loop over threads that could not be created, with
  `-R` (`died`).
* `RecoverDump`, `RecoverScan`. A volume gives for every 4 KB page what is found
  there: nothing, a header, a footer alone, another magic, or a read error. `wrk`
  holds the workers' states, `fdt` the descriptor table of the process, from which
  `openat()` takes the lowest free number; `dump` is the content of the block
  files by folder, inode and offset. One action is one system call with the
  computation before it, so that two workers' calls interleave freely. A log may name
  a footer, a table or a block beyond the device; the worker that reads it spins.
* `Recover`. `list` is the output of `scandir()` with `alphasort()`, taken once;
  `range` is the time range, which tests fill in, and each job has its own copy;
  `jobs` are the threads that build files, each of which walks all folders. A system
  call that fails in the rounds of the synthesis may go on failing in every later
  round (`KeepsFailing`).
  Decompression and checksums are properties of the fragments; deltas are refused,
  as in the code. A call that fails has done nothing: `read()` or `write()` of a part
  of a block, which the code reports and accepts (`file_synthesis.c:334, 348`), is left
  out. So is the `BUG_ON()` on the offset of a block (`peb_processing.c:887`), which
  needs an area beyond 4 GB. Nodes of the inodes tree are contents of blocks (`NodeOf`).

## 3. Runs

| Run | Instance | Shows |
|---|---|---|
| `search` | 3 workers, devices of 1, 4 and 7 PEBs, 2 volumes, 2 types, failing allocations | joins before use and free, wrapped shares included; nothing lost, doubled or invented; points sorted, and kept or the search fails; implements `VolumeSearch`; ends if no worker starts beyond the device |
| `search_hang` | 4 workers, 5 PEBs | *violation*: the search does not end for every thread number |
| `sb_chain` | 4 PEBs, all pointers | the end of the chain, or a failure on a cycle; the right candidate; ends if no pointer lies beyond the device |
| `last_log` | 4 pages and 1 behind them, log lengths 0, 1, 2, 5, partial lengths 0-2, footers inside and beyond | the newest full log; a regular PEB is not left; ends if full logs and footers lie inside |
| `fsck` | 3 PEBs, all options and answers | no recovery without consent; "no file system" only if there is none; ends whenever detection and search return |
| `fsck_exit` | as `fsck` | *violation*: exit status 0 after errors |
| `mkfs_write` | pages of 3 bytes, PEBs of 2 pages, 4 PEBs, 1 and 3 threads, every kind of device | the layout is on the device byte for byte; old content gone; zones counted right; nothing written is erased; ends |
| `maptbl` | stripes of 20 PEBs, pages of 41 LEBs, `U16Limit = 101`, 1950 volumes of 12 to 50000 PEBs with 1 to 37 PEBs per segment and 1 to 30 NAND dies | tables tile the volume; mapping one to one, the same in table, cache, segments and superblock; pre-erased PEBs are those behind the last mapped one; assertions fail under stated conditions only |
| `maptbl_assert` | zoned devices of 40 to 50 zones, default options | *violation*: an assertion of mkfs fails |
| `mkfs_create` | 224 command lines on 6 devices, real sizes and format constants | extents of a log neither overlap nor leave it; offset table and block descriptors lead to each block; the segment bitmap covers the volume and is where the header says; with ordinary options mkfs dies under stated conditions only; no volume is written without consent |
| `recover` | 15 volumes of 2 PEBs, blocks of up to 2 fragments, 2 workers, 5 time ranges, up to 2 failing calls, in the synthesis also lasting ones | the newest whole version of each block is recovered; nothing invented; the pool is joined before it is freed; folders are deleted; ends unless a worker is held by what a log says, or the synthesis fails for ever |
| `recover_fd` | a superblock log behind another log, user data of the other worker | *violation*: readable content is lost |

Bounds. Three workers for four PEBs leave the last one without work, for seven PEBs
with an uneven share, and for one PEB beyond the device, where its share wraps; a
worker with three metadata PEBs has a map that grows twice (`MapCapacityMin = 1`),
or is lost and allocated afresh. Two creation times give insertion before, after and
at an existing point. Four PEBs hold a chain of three superblock segments, which
is what the bound on tries allows, and every cycle over them. Four pages hold four
full logs of one page or two of two pages with partial logs. Pages of three bytes
have a first, an inner and a last byte, which is what the cases of the write
buffer distinguish. Stripes of 20
PEBs and pages of 41 LEBs have the ratio of the code's 476 and 1016 (two stripes
and a rest), so options lead to the same numbers of stripes and pages; the volumes
end at every place of a stripe, and the metadata of one copy of the superblock fits
into a stripe or not. The PEBs that a segment size leaves over (`tail`) count for the
NAND dies' share; with 12 dies and more two PEBs get the same LEB (`LebsApart`); the
volume of 80 PEBs has a page of LEBs that reaches past its portion, the one of 104
a last LEB at its end (`SideBySide`). The limits of 101 and 1000 stand for `U16_MAX` and `U32_MAX`: each count
has volumes below its limit and at it or above. `U64 = 64` keeps the wrap far away from the sizes of the
instance, as 2^64 is from real devices. The volumes of `recover` hold, each at
least once: a newer version of a block in the other worker's PEB, times and inodes
whose text order is not their numeric order (8, 9, 10), tables of one to three
portions, deltas, checksums, two fragments with the same and with different ones, or
with one behind a first fragment that has none, damaged and unreadable pages, logs of
no length, areas and blocks beyond the device, superblock logs with a table and without, two inline files of one
inode, and no volume at all; each system call fails on one of them. The
devices of `mkfs_create` have between 1000 and 1.1 million segments, which is where
the bitmap needs several segments, several PEBs of a segment and more fragments
than eight bits count; the command lines give every page size with PEBs of 128 KB
to 64 MB and up to 1024 PEBs per segment, and each option at its borders. Sizes are
kept in KB there to stay within TLC's integers; zones are below 4 GB, as the 32 bits
of `erase_size` require.

Fairness. Every live thread of a process is scheduled by the kernel: weak fairness
of the main thread and of every worker (`FsckSearch`, `MkfsWrite`), of the single
thread elsewhere. `Recover` has weak fairness of its steps as a whole only: the
session ends whichever threads the kernel prefers, because no thread waits by
spinning; the ways in which a worker never ends (a read beyond the device, a log of no
length, a table that leads back to itself) are excluded by name (`Endless`), and so is
a synthesis that fails again and again: the rounds over a folder
(`file_synthesis.c:592-639`) go on until no block is left in it. Nothing is assumed about the user: `SessionEnds` allows the
dialog to ask for ever. `mkfs_create` checks safety only and has no fairness.
Deadlock checking is on in all runs but that one, where mkfs simply ends; elsewhere
the states where the program has ended, or spins for ever, stutter explicitly
(`Idle`, `Done`, `Spin`).

Violations (listed under `findings`):

* `search_hang`: with a thread number for which
  `(threads - 1) * ceil(pebs / threads) > pebs`, the last worker's share wraps,
  and it reads beyond the device, for ever.
* `fsck_exit`: the manual page promises status 0 for "No errors detected.";
  fsck also exits with 0 after a failed detection and on a corrupted volume.
* `maptbl_assert`: on a zoned device whose table has three or more stripes the
  marking of pre-erased PEBs fails an assertion, because the stripes have gaps or
  because the second page of LEBs starts with the first stripe again. The other
  ways to an assertion are the conditions of `AssertionsFailOnlyIf`: with block
  devices, segments of more PEBs than stripes are the most likely one.

* `recover_fd`: the manual page of recoverfs promises "Recovering file content that
  is still readable"; a log of a superblock segment closes a descriptor that belongs
  to another worker by then, and that worker's blocks are lost with exit status 0.

`mkfs_create` and `recover` name further places where the code loses or refuses
something, as conditions of their properties: fragments too few for the segment
bitmap from 1 048 513 segments on and copies listed in another order than laid out
(`BitmapComplete`, which also excludes metadata of more segments than a fragment has
states, where `define_seg_id()` fails); backup copies of tables on the same page (`LogsInBounds`); a last
fragment of exactly 60 or 253 items (`BlocksResolve`); options with which mkfs dies
(`DefaultsSafe`); text order of times, checksums compared with the first fragment's,
a damaged fragment that ends a table (`Orderly`); a fragment with a checksum behind a
first one without, and blocks described by a log without a folder (`NothingInvented`); a time range that the first folder
completes (`FilterSteady`). So does `maptbl`: with so many NAND dies that the stride
of a segment's LEBs is less than the number of metadata segments, two PEBs get the
same LEB and the table keeps the later one only (`LebsApart`); a page of LEBs that
reaches past its portion, which three stripes and more lead to, and NAND dies that
move the last LEB to the end of the volume, leave free PEBs that are not marked as
pre-erased (`SideBySide`).

## 4. Proofs

Every theorem holds for all values of the constants that satisfy the `ASSUME`s of
the module it is about; TLC evaluates those on every run. Each inductive invariant
below was also checked by TLC on the instance of the component's run (with the
unbounded offsets of `PlaceInv` cut to those of the instance). Each proof of a step has one case per action.

| Theorem | States | Inductive invariant |
|---|---|---|
| `SharesCover`, `SharesDisjoint` | the workers' ranges tile the volume when `Fits(pebs, capacity)` | - |
| `SearchTypeOK`, `SearchJoinedBeforeFree`, `SearchPointsSorted` | `TypeOK`, `JoinedBeforeFree`, `PointsSorted` | `SearchInv` |
| `SearchKeepsFound` | `KeepsFound` (action property) | `SearchInv` |
| `SearchIsComplete` | `SearchComplete` | `CompleteInv` |
| `SearchRefines` | `ImplementsSearch` | `CompleteInv`, `FoundInv` |
| `SbChainEndFound`, `SbChainStart` | `ChainEndFound`, `OldestCandidateLast` | `ChainInv` |
| `LastLogInLastFullLog`, `LastLogStaysInPeb` | `LastFullLogFound`, `StaysInPeb` | `LastLogInv` |
| `FsckRepairOnlyByConsent` | `RepairOnlyByConsent` | `ConsentInv` |
| `FsckNothingOnlyIfNothing` | `NothingOnlyIfNothing` | `VerdictInv` |
| `MkfsWrittenStays` | `WrittenStays` (action property) | `StaysInv` |
| `MkfsOldContentGone` | `OldContentGone` | `StaysInv`, `GoneInv` |
| `MkfsLayoutOnDevice` | `LayoutOnDevice` | `StaysInv`, `PlaceInv` |
| `MkfsWriteTypeOK`, `MkfsCheckedLayoutIsWritten` | `TypeOK`, `CheckedLayoutIsWritten` | `WriteInv` |
| `MkfsWrittenByConsent` | `WrittenByConsent` | `ConsentInv` |
| `MkfsLogsInBounds`, `MkfsBlocksResolve`, `MkfsBitmapComplete` | `LogsInBounds`, `BlocksResolve`, `BitmapComplete` | `CreateInv` |
| `MaptblTypeOK`, `MaptblTablesTile`, `MaptblMappingResolves`, `MaptblSuperblockResolves` | `TypeOK`, `TablesTile`, `MappingResolves`, `SuperblockResolves` | `Inv` |
| `MaptblPreErased` | `PreErasedBehind`, if a portion has at most two stripes | `FullInv` |
| `RecoverPoolFreedJoined` | `PoolFreedJoined` | `JoinedInv` |
| `RecoverTypeOK`, `RecoverFoldersDeleted` | `TypeOK`, `FoldersDeleted` | `SessionInv` |
| `RecoverNothingInvented` | `NothingInvented` | `SessionInv`, `OriginInv` |

**Shares.** `Fits` says that no worker starts beyond the volume and that products
stay below 2^64. It is exactly what `search_hang` violates.

**Whole-volume search.** `SearchInv == TypeOK /\ SpawnInv /\ JoinInv /\ ArrayInv`:

* `SpawnInv`: while the pool is started, `requested = i` and the workers from `i`
  on do not exist yet; while it is unwound, `requested = i + 1` and no worker above
  `i` is alive. Without it a failed `pthread_create()` could leave a worker behind.
* `JoinInv`: while joining, all workers below `i` have exited and all were
  requested; hence nobody is alive when the merge starts.
* `ArrayInv`: the array is never empty, the built-in buffer holds exactly one
  point, and the points are sorted. The buffer matters because an unused point in
  it is overwritten in place.

Completeness adds `WorkerInv` (a worker's map lists the metadata PEBs of the part of
its share it has processed, in their order, as long as no allocation failed),
`RecordInv` (the creation points record the PEBs merged so far, once each, and
nothing else) and `EndInv` (a search that succeeds has merged every map). With
`SharesApart` and `PebHasWorker`, which rest on the two theorems about shares, the
PEBs merged at the end are all PEBs of the device. A worker whose share wraps
around never exits, so a search that succeeds has none. The refinement adds
`FoundInv`: the `found` bits of a point are those of the PEBs recorded in it and
what the detection had left. The simulation is by cases: every step before the end
leaves the abstract variables as they are (`EndsOnce`), and the last step is a step
of `SearchNext`, because the last point of a sorted array is the newest one
(`NewestIsLast`).

**Superblock chain.** `ChainInv` says of the loop that some set `V` of superblock
segments has been visited: the pointers lead to each of them, and either no pointer
leads out of `V` (a segment was met twice) or `V` has one member more than there
were hops. As there are fewer than `PebsCount` superblock segments, the bound on the
tries is met in the first case only. `Chain` is the least set closed under the
pointers, not an iteration, so no induction over data is needed.

**Last log.** While full logs are stepped over, `cur` is one log length behind the
last one found, and because full logs lie at multiples of that length none is jumped
over (`MultiplesApart`). The partial search then stays in the last full log.

**fsck session.** `ConsentInv` carries where the options and the answer were
looked at. `VerdictInv` relates what the detection and the search (`VolumeSearch`)
have found to what is on the device; a creation time below `U64_MAX` gives the
newest point of a non-empty set.

**mkfs, writing.** `StaysInv` has the life of the erase pool (no worker runs when
the segments are written), the loop over the extents of a PEB (`PebInv`: whole pages
have been flushed, what is buffered lies behind them), and where data may be
(`DataInv`: only in pages before the current one, of PEBs in the order of the
layout, which the layout check found disjoint). `GoneInv` follows the three ways to
erase, by shares of the workers, by segments, or not at all on MTD. `PlaceInv`
follows the buffer: each byte in it is one the layout wants at its place, and none
is missing up to where the copy loop is (`BufferInv`); the loop is never more than a
page ahead, which is what the first check of the extents is for. On finishing a
PEB this becomes a fact about the device (`PebsWritten`). `ZoneInv` adds the zones:
each way to erase leaves the write pointers of the zones to come at 0 (`ResetInv`,
`LoopZones`), a page is written where the write pointer is because whole pages were
flushed before it, and the counter is the number of PEBs that were written and are not
the initial snapshot's. All four together are `WriteInv`.

**mkfs, session.** `ConsentInv` says which checks are behind the step `pc` of the
session. No step of the four passes over the structures writes (`Passes`).

**mkfs, creation.** `CreateInv` says what the steps before `pc` have established: the
options are accepted ones (`OptInv`), the sizes are sensible (`VolInv`), the policies of
bitmap and table are what the volume asks for (`AllocInv`), the superblock holds what
`validate_segbmap()` computed (`HeaderInv`), and each log of `logs` is one whose extents
were placed behind each other with the roundings of `set_extent_start_offset()`
(`Placed`), whose declared pages hold it (`Declared`), and whose tables count the blocks
of its payload (`Named`). The rest is arithmetic, in lemmas about the operators of
`LogLayout` and `SegbmapLayout`: `CeilDivIs` and the like for the roundings, that the
fragments are spread over PEBs and segments without a gap (`Spread`), that a table of at
most 253 items has its descriptors where the offsets point. The format's constants are
kept as names until the last step of each.

**mkfs, mapping table.** Lemmas about the operators come first. The share of a stripe
is the rest of the portion divided by the stripes, rounded up (`ShareIs`, `RestIs`), so
stripes lie behind each other (`StripeIs`), with at most two of them without a gap
(`StripesCover`), and a portion of one or two stripes has one page of LEBs (`OnePage`);
this is `TablesTile`, and `Tiled` carries it from the allocation policy on. `Inv` then
follows the mapping: exactly the PEBs of segments before `cur` have got one (`Reached`),
each a PEB of its own that is in use, and nothing else is in use (`MapInv`). A step maps
the first unused PEB of a stripe; that the physical index leads back to it is
`MapLebIs`. `LebsApart` is needed for `MapInv`'s last part only: LEBs that are handed out
twice overwrite each other's index. `FullInv` adds the marking of pre-erased PEBs: what
is marked is an interval behind the last mapped PEB that ends at `mark.peb`, and with up
to two stripes `mark.peb` has reached the end of a portion when `mark.leb` has
(`StripeEnd`, `NextPageIs`). With one PEB per segment every LEB gets the PEB of its own
number (`OwnPeb`), which is why the superblock's count is right then, up to `U16_MAX`; it is also what
`OnePebPerSegmentAssumption` says of the layouts of `MkfsWrite`.

**recoverfs.** `PoolInv` says which workers exist in each loop of the main thread.
A failed initialization of a worker's state leaves its loop without joining the
others; this is the exception in `PoolFreedJoined`.

`SessionInv` adds the position of each worker in its share, in a log and in its table
(`ScanInv`: a worker in a table is at one of its descriptors, and dumps a block only if
that could be extracted), the types of
the synthesis (`BuildInv`), and the deletion (`DeleteInv`: up to the deletion every
folder is in `list`; from then on the folders that the loop has passed are at most as
many as `rmdir()` failed). That `list` has every folder needs that sorting a finite set
of names gives a sequence of just these (`SortedIs`): a smallest set without a sorted
sequence would have a first element, and the rest of the set a sorted sequence
(`Sortable`).

`OriginInv` follows a block from the volume into a file:

* `HoldInv`: a worker inside a log with a folder has that folder open, one that writes
  a block has that block's file open, and no two workers hold the same descriptor.
  Without the last part the `close()` of one worker could redirect a write of another:
  this is the race of `recover_fd`, which `NoStaleDescriptor` excludes.
* `DumpInv`: each dumped block is an intact block of some log with that folder's time,
  for that inode and offset (`Source`). It rests on `ExtractedIsIntact`, that what the
  states of a block lead to is written only if every fragment is readable.
* `RangeInv`: with `FilterSteady`, the first folder completes the time range, and
  testing any other folder leaves it as it is (`RangeSteady`), so every job filters by
  the range the user asked for.
* `FilesInv`: what a file holds has a source in the range, or is an inline file.

The property's conditions on the volume are needed. The code compares the checksum of each
fragment with the first one's, so a damaged fragment behind a first one without a
checksum counts as readable (`FirstChecksums` excludes it, and fragments behind a
block's last one); and a log without a folder whose table has blocks writes them to the folder an
older log has left open (`TablesInFolders`; with `NoStaleDescriptor` this can happen
with one worker only). Without the first condition TLC finds a violation of the
property in `recover`; without the second it does when the cfg of that run has
`Capacity = 1`, with which it passes otherwise, too.

Assumptions, beside types: `NoWrapAssumption` and a conjunct of
`MkfsWriteAssumption` (thread number times PEBs per thread is below 2^64: both
factors are, by far); creation times are below `U64_MAX`; PEBs are numbered from 0
and finitely many; at least one thread. `MkfsWriteAssumption` also says what
`MkfsCreate` leaves: whole segments, PEBs with at least one extent, extents that are
not empty, and a first extent that starts in the first page;
`OnePebPerSegmentAssumption`, that a segment of one PEB has the PEB of its own number and
that there is one initial snapshot. `CommandAssumption`: options have integer values, and
a number of dies is not negative, as it is stored unsigned; `InputAssumption`: a zone's
size fits 32 bits. `MaptblAssumption` types the fields of a layout and says that the
volume is a number of whole segments below 2^64 PEBs, that a LEB page holds twice the
descriptors of a PEB page (and a rest), that zoned devices have one PEB per segment, that
the options ask for fewer than `U16_MAX` portions in a PEB, and that a stripe has
descriptors (else mkfs divides by zero, a `died` of `MkfsCreate`). One case is left out
by it: a number of portions that passes 32 bits only when it is rounded up to whole
segments. `ScanAssumption`: no worker of recoverfs starts beyond the
volume (`Fits`, as in the search), and times, inodes and offsets are finitely many;
`VolumeAssumption` types what is on the medium and says that a valid fragment of a
block table has a descriptor, nothing else of the lengths and tables;
`BeforeAssumption`: the names of folders and files are totally ordered as text; the
current date is a given one. `SbChain` and `LastLog`
assume nothing of what is on the medium.

Only model-checked:

* Liveness (`SearchTerminates`, `FittingSearchTerminates`, `SearchEnds`,
  `SessionEnds`, `WriteEnds`, `RecoverTerminates`): out of the reach of this prover.
* `DefaultsSafe` of `MkfsCreate`: it does not hold for every zoned device, only for
  zones of the sizes of the instance; a theorem would have to list the sizes.
* `CacheRight` of `Maptbl`: the pairs of all fragments in a row (`FlattenSeq`) are
  defined by recursion over the fragments. `AssertionsFailOnlyIf` of `Maptbl`: its
  conditions are conditions on single geometries. `PreErasedBehind` with three and more
  stripes, where stripes have gaps and the marking skips pages.
* `NewestRecovered` of `Recover`: it says that nothing intact is missed, so its proof
  has to follow every log of every PEB and every block of its table up to the end of
  each loop, and the loops over a table are defined by its content.

## 5. Not modelled

* Printing (`dump.ssdfs`), the on-disk format's declarations, compression, and the
  text of options; what the values of mkfs' options lead to is modelled.
* `tune`, `snapshotfs`, `test` pass one request to the kernel and keep no state;
  `resize` does nothing yet.
* The check of the PEBs of MTD devices in mkfs: from the second stripe on it writes
  outside of the buffer, and what that hits depends on the heap.
* The walk of fsck over the segments of the segment bitmap and of the mapping table:
  its results enter `Fsck`, its arithmetic does not.
* What a worker of recoverfs does with a pool that was freed under it.
* `-j 0` (a division by zero) is excluded by the assumption of at least one thread.

## 6. Plan

1. Theorems: `NewestRecovered` of `Recover` on orderly volumes, with an invariant that
   counts the logs and blocks passed; `PreErasedBehind` for three and more stripes.
2. Detection of the segment bitmap and the mapping table in fsck, composed with
   `SbChain` and `LastLog`.
