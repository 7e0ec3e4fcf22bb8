----------------------------- MODULE RecoverScan -----------------------------
(***************************************************************************)
(* The raw dump of recoverfs.ssdfs.  Capacity workers share the PEBs of    *)
(* the volume; each walks the logs of its PEBs and writes every block it   *)
(* can read into a file "<inode>-<offset>" of the folder named after the   *)
(* time of the log.  The workers are threads of one process: they share    *)
(* the table of file descriptors, where open takes the lowest free number. *)
(* A worker keeps the number of its folder after closing it, and a log of  *)
(* a superblock segment opens no folder but uses and closes that number.   *)
(***************************************************************************)
EXTENDS RecoverDump, PebPartition, FiniteSets, FiniteSetsExt

CONSTANTS
  Capacity,      \* env.threads.capacity (option -j)
  PebsCount,     \* fs_size / erase_size
  Volumes,       \* volumes to recover, by name: [Pebs -> sequence of LogsCount pages]
  Times,         \* timestamps of logs
  Inos,          \* inode numbers in block descriptors
  Offs,          \* offsets, in blocks
  Vers,          \* contents of blocks
  None, Empty,   \* no file; a file of no bytes
  FirstFd, MaxFd,\* descriptors free when the scan starts: enough for all the workers
  Faults,        \* the system calls that may fail, for each volume
  MaxFaults      \* and how often, at most

(* No worker starts behind the volume, where its share would wrap. *)
ASSUME ScanAssumption ==
  /\ Capacity \in Nat \ {0}
  /\ PebsCount \in Nat \ {0}
  /\ Fits(PebsCount, Capacity) /\ PebsCount < U64
  /\ IsFiniteSet(Times) /\ IsFiniteSet(Inos) /\ IsFiniteSet(Offs)
  /\ {None, Empty} \cap Vers = {}
  /\ FirstFd \in Nat /\ MaxFd \in Nat
  /\ MaxFaults \in Nat

IsLog(page) == page.kind \in {"full", "partial"}
WithoutFolder(page) == page.seg \in {"unknown", "sb"}

Fragments == [state : {"valid", "absent", "corrupt"}, data : Vers,
              has_csum : BOOLEAN, checksum : Vers]
States ==
  [readable : BOOLEAN, beyond : BOOLEAN, area : {"main", "diffs", "journal"},
   frags : Seq(Fragments)]
Blocks == [ino : Inos, off : Offs, ver : Vers, states : Seq(States)]
Portions ==
  [magic : BOOLEAN, bytes : Nat, count : Nat,
   frags : Seq([state : {"valid", "absent", "corrupt"}, blocks : Seq(Blocks)])]

(* The lengths and tables of a log may be anything, the places of its      *)
(* footer and areas may be beyond the device; a fragment of the table that *)
(* is valid has a descriptor.                                              *)
ASSUME VolumeAssumption ==
  \A v \in DOMAIN Volumes : \A peb \in 0 .. PebsCount - 1 : \A j \in 1 .. LogsCount :
    LET page == Volumes[v][peb][j]
    IN  IsLog(page) =>
          /\ page.time \in Times /\ page.bytes \in Nat /\ page.end \in Nat
          /\ page.footer \in {"valid", "absent", "unreadable"} /\ page.beyond \in BOOLEAN
          /\ HasTable(page) =>
               /\ page.table \in Seq(Portions)
               /\ \A k \in DOMAIN page.table : \A f \in DOMAIN page.table[k].frags :
                    page.table[k].frags[f].state = "valid" => page.table[k].frags[f].blocks # << >>

VARIABLES
  vol,      \* the name of the volume
  pc,       \* control of the main thread
  i,        \* its loop variable
  wrk,      \* the workers: struct ssdfs_thread_state
  fdt,      \* the descriptors of the process
  folders,  \* the checkpoint folders that exist
  dump,     \* content of the file of each block in each folder
  faults    \* the failures that happened

scanVars == <<vol, wrk, fdt, folders, dump>>

Workers == 0 .. Capacity - 1
Pebs == 0 .. PebsCount - 1
Fds == FirstFd .. MaxFd
Keys == Times \X Inos \X Offs

PerThread == PebsPerThread(PebsCount, Capacity)

Free == [kind |-> "free"]
Folder(time) == [kind |-> "folder", time |-> time]
BlockFile(key) == [kind |-> "file", key |-> key]

(* ssdfs_init_thread_state *)
NewWorker ==
  [pc |-> "none", n |-> 0, log |-> 0, next |-> 0, fd |-> -1, it |-> Start, bfd |-> -1]

ScanInit ==
  /\ vol \in DOMAIN Volumes
  /\ wrk = [t \in Workers |-> NewWorker]
  /\ fdt = [f \in Fds |-> Free]
  /\ folders = {}
  /\ dump = [k \in Keys |-> None]

MayFail(call) ==
  /\ call \in Faults[vol]
  /\ Len(faults) < MaxFaults
  /\ faults' = Append(faults, call)

-----------------------------------------------------------------------------
(* Descriptors *)

FreeFds == { f \in Fds : fdt[f] = Free }
LowestFd == Min(FreeFds)
Closed(fd) == IF fd \in Fds THEN [fdt EXCEPT ![fd] = Free] ELSE fdt
EntryOf(fd) == IF fd \in Fds THEN fdt[fd] ELSE Free

-----------------------------------------------------------------------------
(* A worker walks the logs of a PEB *)

(* What a worker does with a pool that has been freed is not modelled. *)
Running(t) == pc \notin {"free", "exit"} /\ wrk[t].pc # "none"

Peb(t) == FirstPeb(t, PerThread) + wrk[t].n
Page(t, j) == Volumes[vol][Peb(t)][j + 1]
Header(t) == Page(t, wrk[t].log)

At(t, label) == Running(t) /\ wrk[t].pc = label

(* ssdfs_recoverfs_find_valid_log: the first page from the current one     *)
(* that cannot be read or carries the file system's magic.                 *)
Interesting(t) ==
  { j \in wrk[t].log .. LogsCount - 1 : Page(t, j).kind # "none" }
Found(t) == Min(Interesting(t))

NextPeb(t) ==
  /\ At(t, "peb")
  /\ wrk[t].n < Share(t, PebsCount, PerThread)
  /\ wrk' = [wrk EXCEPT ![t].pc = "log", ![t].log = 0]
  /\ UNCHANGED <<vol, fdt, folders, dump, pc, i, faults>>

LastPeb(t) ==
  /\ At(t, "peb")
  /\ wrk[t].n >= Share(t, PebsCount, PerThread)
  /\ wrk' = [wrk EXCEPT ![t].pc = "exit"]
  /\ UNCHANGED <<vol, fdt, folders, dump, pc, i, faults>>

(* No further log; or an error, which gives up the rest of the PEB: a page *)
(* that cannot be read, or the magic of something that is not a log.       *)
PebDone(t) ==
  /\ At(t, "log")
  /\ Interesting(t) # {} => Page(t, Found(t)).kind \in {"bad", "node"}
  /\ wrk' = [wrk EXCEPT ![t].pc = "peb", ![t].n = @ + 1]
  /\ UNCHANGED <<vol, fdt, folders, dump, pc, i, faults>>

OrphanedFooter(t) ==
  /\ At(t, "log")
  /\ Interesting(t) # {}
  /\ Page(t, Found(t)).kind = "footer"
  /\ wrk' = [wrk EXCEPT ![t].log = Found(t) + 1]
  /\ UNCHANGED <<vol, fdt, folders, dump, pc, i, faults>>

LogFound(t) ==
  /\ At(t, "log")
  /\ Interesting(t) # {}
  /\ IsLog(Page(t, Found(t)))
  /\ wrk' = [wrk EXCEPT ![t].log = Found(t), ![t].next = Found(t) + 1,
                        ![t].pc = IF WithoutFolder(Page(t, Found(t)))
                                  THEN "areas" ELSE "folder"]
  /\ UNCHANGED <<vol, fdt, folders, dump, pc, i, faults>>

-----------------------------------------------------------------------------
(* One log *)

CreateFolder(t) ==
  /\ At(t, "folder")
  /\ FreeFds # {}
  /\ folders' = folders \cup {Header(t).time}
  /\ fdt' = [fdt EXCEPT ![LowestFd] = Folder(Header(t).time)]
  /\ wrk' = [wrk EXCEPT ![t].pc = "areas", ![t].fd = LowestFd]
  /\ UNCHANGED <<vol, dump, pc, i, faults>>

(* mkdirat fails and the old number stays, or openat fails: the log is     *)
(* left after one page, and nothing is closed.                             *)
CreateFolderFails(t) ==
  /\ At(t, "folder")
  /\ \/ /\ MayFail("mkdirat")
        /\ folders' = folders
        /\ wrk' = [wrk EXCEPT ![t].pc = "log", ![t].log = wrk[t].next]
     \/ /\ MayFail("openat")
        /\ folders' = folders \cup {Header(t).time}
        /\ wrk' = [wrk EXCEPT ![t].pc = "log", ![t].log = wrk[t].next, ![t].fd = -1]
  /\ UNCHANGED <<vol, fdt, dump, pc, i>>

(* The descriptors of the areas, the footer, the table of descriptors. *)
ParseAreas(t) ==
  /\ At(t, "areas")
  /\ ~Header(t).beyond
  /\ wrk' = [wrk EXCEPT ![t].next = NextLogIndex(Header(t), wrk[t].log),
                        ![t].it = Start,
                        ![t].pc = IF HasTable(Header(t)) THEN "descs" ELSE "close"]
  /\ UNCHANGED <<vol, fdt, folders, dump, pc, i, faults>>

(* An area's buffer cannot be allocated: the folder stays open. *)
ParseAreasFails(t) ==
  /\ At(t, "areas")
  /\ MayFail("calloc")
  /\ wrk' = [wrk EXCEPT ![t].pc = "log", ![t].log = wrk[t].next]
  /\ UNCHANGED <<vol, fdt, folders, dump, pc, i>>

NextOf(t) == NextDescriptor(Header(t).table, wrk[t].it)
Descriptor(t) == DescriptorAt(Header(t).table, wrk[t].it)

TableDone(t) ==
  /\ At(t, "descs")
  /\ NextOf(t) = Stop
  /\ wrk' = [wrk EXCEPT ![t].pc = "close"]
  /\ UNCHANGED <<vol, fdt, folders, dump, pc, i, faults>>

(* A block that cannot be extracted is passed over. *)
NextBlock(t) ==
  /\ At(t, "descs")
  /\ NextOf(t) # Stop
  /\ ~ReadsBeyond(DescriptorAt(Header(t).table, NextOf(t)))
  /\ wrk' = [wrk EXCEPT
       ![t].it = NextOf(t),
       ![t].pc = IF ExtractBlockState(DescriptorAt(Header(t).table, NextOf(t)))
                 THEN "open" ELSE "descs"]
  /\ UNCHANGED <<vol, fdt, folders, dump, pc, i, faults>>

(* The footer, the table or a block lies, by what the log says of it,      *)
(* beyond the end of the device: ssdfs_pread never returns.                *)
ReadHangs(t) ==
  /\ \/ At(t, "areas") /\ Header(t).beyond
     \/ /\ At(t, "descs")
        /\ NextOf(t) # Stop
        /\ ReadsBeyond(DescriptorAt(Header(t).table, NextOf(t)))
  /\ wrk' = [wrk EXCEPT ![t].pc = "spin"]
  /\ UNCHANGED <<vol, fdt, folders, dump, pc, i, faults>>

(* ssdfs_recoverfs_copy_block_state *)
OpenBlock(t) ==
  LET dir == EntryOf(wrk[t].fd)
      key == <<dir.time, Descriptor(t).ino, Descriptor(t).off>>
  IN  /\ At(t, "open")
      /\ dir.kind = "folder"
      /\ FreeFds # {}
      /\ fdt' = [fdt EXCEPT ![LowestFd] = BlockFile(key)]
      /\ dump' = [dump EXCEPT ![key] = IF @ = None THEN Empty ELSE @]
      /\ wrk' = [wrk EXCEPT ![t].pc = "write", ![t].bfd = LowestFd]
      /\ UNCHANGED <<vol, folders, pc, i, faults>>

(* The number does not name a folder (any more), or openat fails. *)
OpenBlockFails(t) ==
  /\ At(t, "open")
  /\ \/ EntryOf(wrk[t].fd).kind # "folder" /\ faults' = faults
     \/ MayFail("openat")
  /\ wrk' = [wrk EXCEPT ![t].pc = "descs"]
  /\ UNCHANGED <<vol, fdt, folders, dump, pc, i>>

WriteBlock(t) ==
  LET file == EntryOf(wrk[t].bfd)
  IN  /\ At(t, "write")
      /\ \/ /\ file.kind = "file"
            /\ dump' = [dump EXCEPT ![file.key] = Descriptor(t).ver]
            /\ faults' = faults
         \/ file.kind # "file" /\ UNCHANGED <<dump, faults>>
         \/ MayFail("write") /\ dump' = dump
      /\ wrk' = [wrk EXCEPT ![t].pc = "closeblock"]
      /\ UNCHANGED <<vol, fdt, folders, pc, i>>

CloseBlock(t) ==
  /\ At(t, "closeblock")
  /\ fdt' = Closed(wrk[t].bfd)
  /\ wrk' = [wrk EXCEPT ![t].pc = "descs"]
  /\ UNCHANGED <<vol, folders, dump, pc, i, faults>>

CloseFolder(t) ==
  /\ At(t, "close")
  /\ fdt' = Closed(wrk[t].fd)
  /\ wrk' = [wrk EXCEPT ![t].pc = "log", ![t].log = wrk[t].next]
  /\ UNCHANGED <<vol, folders, dump, pc, i, faults>>

Worker(t) ==
  \/ NextPeb(t) \/ LastPeb(t) \/ PebDone(t) \/ OrphanedFooter(t) \/ LogFound(t)
  \/ CreateFolder(t) \/ CreateFolderFails(t) \/ ParseAreas(t) \/ ParseAreasFails(t)
  \/ TableDone(t) \/ NextBlock(t) \/ ReadHangs(t) \/ OpenBlock(t)
  \/ OpenBlockFails(t) \/ WriteBlock(t) \/ CloseBlock(t) \/ CloseFolder(t)

-----------------------------------------------------------------------------
(* The main thread: start the workers and wait for them.  When the state   *)
(* of a worker cannot be initialized the pool is freed at once, when a     *)
(* thread cannot be created the ones before it are joined first.           *)

Spawn ==
  /\ pc = "spawn" /\ i < Capacity
  /\ wrk' = [wrk EXCEPT ![i].pc = "peb"]
  /\ i' = i + 1
  /\ UNCHANGED <<vol, fdt, folders, dump, pc, faults>>

InitStateFails ==
  /\ pc = "spawn" /\ i < Capacity
  /\ MayFail("init")
  /\ pc' = "free"
  /\ UNCHANGED <<scanVars, i>>

SpawnFails ==
  /\ pc = "spawn" /\ i < Capacity
  /\ MayFail("pthread_create")
  /\ pc' = "unwind"
  /\ i' = i - 1
  /\ UNCHANGED scanVars

\* A plausible bug: the workers are not waited for.
UnwindUnjoined ==
  /\ pc = "unwind" /\ i >= 0
  /\ i' = i - 1
  /\ UNCHANGED <<scanVars, pc, faults>>

UnwindJoin ==
  /\ pc = "unwind" /\ i >= 0
  /\ wrk[i].pc = "exit"
  /\ i' = i - 1
  /\ UNCHANGED <<scanVars, pc, faults>>

UnwindDone ==
  /\ pc = "unwind" /\ i < 0
  /\ pc' = "free"
  /\ UNCHANGED <<scanVars, i, faults>>

AllSpawned ==
  /\ pc = "spawn" /\ i = Capacity
  /\ pc' = "join" /\ i' = 0
  /\ UNCHANGED <<scanVars, faults>>

Join ==
  /\ pc = "join" /\ i < Capacity
  /\ wrk[i].pc = "exit"
  /\ i' = i + 1
  /\ UNCHANGED <<scanVars, pc, faults>>

ScanMain ==
  Spawn \/ InitStateFails \/ SpawnFails \/ UnwindJoin \/ UnwindDone \/ AllSpawned \/ Join

(* A read beyond the device, a log of no length, or a table whose next     *)
(* portion is the one at hand keeps a worker at it for ever.               *)
Endless(t) ==
  \/ At(t, "spin")
  \/ At(t, "close") /\ wrk[t].next <= wrk[t].log
  \/ /\ At(t, "descs")
     /\ wrk[t].it # Start /\ NextOf(t) # Stop
     /\ NextOf(t).portion = wrk[t].it.portion
     /\ NextOf(t).fragment <= wrk[t].it.fragment
     /\ NextOf(t).item <= wrk[t].it.item
=============================================================================
