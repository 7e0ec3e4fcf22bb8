----------------------------- MODULE FsckSearch -----------------------------
(***************************************************************************)
(* The whole-volume search of fsck.ssdfs (execute_whole_volume_search).    *)
(* The main thread starts Capacity workers, each reads the segment header  *)
(* of every PEB of its range and notes the metadata PEBs in a map of its   *)
(* own.  When all workers are joined the main thread merges the maps into  *)
(* the array of volume creation points, ordered by creation time.          *)
(***************************************************************************)
EXTENDS PebPartition, Sequences, FiniteSets

CONSTANTS
  Capacity,     \* env->threads.capacity (option -j)
  Volumes,      \* the devices: what reading the header of each PEB yields
  SegTypes,     \* metadata segment types
  Times,        \* volume creation timestamps
  Headers,      \* the headers of metadata segments: [type, time]
  NoTime,       \* U64_MAX, the timestamp of an unused creation point
  MapCapacityMin, \* SSDFS_FSCK_METADATA_MAP_CAPACITY_MIN
  MayFailAlloc  \* TRUE: calloc, realloc and pthread_create may fail

(* Reading a PEB yields the header of a metadata segment, or nothing of    *)
(* interest: no header, that of user data, or an error.                    *)
Other == [type |-> "other", time |-> 0]
Images == Headers \cup {Other}

ASSUME SearchAssumption ==
  /\ Capacity \in Nat \ {0}
  /\ \A v \in Volumes : /\ IsFiniteSet(DOMAIN v)
                        /\ DOMAIN v = 0 .. Cardinality(DOMAIN v) - 1
                        /\ v \in [DOMAIN v -> Images]
  /\ Times \subseteq Nat
  /\ Headers \subseteq [type : SegTypes, time : Times]
  /\ NoTime \in Nat
  /\ \A t \in Times : t < NoTime
  /\ MapCapacityMin \in Nat \ {0}
  /\ MayFailAlloc \in BOOLEAN

(* Thread numbers times PEBs per thread stay below 2^64: a volume of less  *)
(* than 2^64 bytes has at most 2^64 / erase_size PEBs, and the number of   *)
(* threads is an unsigned int.                                             *)
ASSUME NoWrapAssumption ==
  \A v \in Volumes :
    Capacity * PebsPerThread(Cardinality(DOMAIN v), Capacity) < U64

VARIABLES
  vol,        \* the device
  pc,         \* control of the main thread
  i,          \* its loop variable
  item,       \* index of the next item to merge from thread i's map
  requested,  \* env->threads.requested_jobs
  thr,        \* life of each worker
  done,       \* PEBs of its range each worker has processed
  map,        \* metadata_map of each worker
  array,      \* detection_result.array
  res,        \* result of the search
  oom         \* history: some allocation failed

vars == <<vol, pc, i, item, requested, thr, done, map, array, res, oom>>
mainVars == <<pc, i, item, requested, array, res>>
workerVars == <<thr, done, map>>

Workers == 0 .. Capacity - 1
Pebs == DOMAIN vol
PebsCount == Cardinality(Pebs)   \* fs_size / erase_size

PebIds == UNION { DOMAIN v : v \in Volumes }
Items == [peb : PebIds, type : SegTypes, time : Times]
Garbage == [peb |-> -1, type |-> "garbage", time |-> 0]

Bits == {"base_snapshot", "sb_segs", "maptbl_cache", "segbmap", "maptbl",
         "peb_map"}

NewPoint(time) ==
  [time |-> time, found |-> {}, pebs |-> [s \in SegTypes |-> << >>]]

(* The array as ssdfs_fsck_init_detection_result and the four detect       *)
(* actions leave it: one point, in the buffer, unused unless the base      *)
(* snapshot was found.  The search is run after one of them did not find   *)
(* what it looks for, or with option -f after all have.                    *)
Detected == { {"base_snapshot"}, Bits \ {"peb_map"} }

InitArrays ==
  { [state |-> "buffer", points |-> <<p>>] :
      p \in {NewPoint(NoTime)} \cup
            { [NewPoint(t) EXCEPT !.found = b] : t \in Times, b \in Detected } }

Init ==
  /\ vol \in Volumes
  /\ pc = "start"
  /\ i = 0
  /\ item = 0
  /\ requested = 0
  /\ thr = [t \in Workers |-> "none"]
  /\ done = [t \in Workers |-> 0]
  /\ map = [t \in Workers |-> [array |-> << >>, capacity |-> 0, null |-> TRUE]]
  /\ array \in InitArrays
  /\ res = "success"
  /\ oom = FALSE

PerThread == PebsPerThread(PebsCount, Capacity)

-----------------------------------------------------------------------------
(* The workers *)

(* A segment header of a metadata segment gives a descriptor. *)
Descriptor(peb) == [peb |-> peb, type |-> vol[peb].type, time |-> vol[peb].time]

IsExhausted(m) == m.capacity = 0 \/ Len(m.array) >= m.capacity

(* ssdfs_fsck_resize_metadata_map.  A fresh array replaces one that a      *)
(* failed realloc has lost: the old items are then uninitialized memory.   *)
Resized(m) ==
  [array |-> IF m.null THEN [k \in 1 .. Len(m.array) |-> Garbage] ELSE m.array,
   capacity |-> IF m.capacity = 0 THEN MapCapacityMin ELSE 2 * m.capacity,
   null |-> FALSE]

WithItem(m, d) ==
  LET room == IF IsExhausted(m) THEN Resized(m) ELSE m
  IN  [room EXCEPT !.array = Append(@, d)]

(* The failed allocation leaves a NULL array; the item is not added. *)
AddFails(m) == [m EXCEPT !.null = TRUE]

CurrentPeb(t) == FirstPeb(t, PerThread) + done[t]

HasWork(t) == thr[t] = "running" /\ done[t] < Share(t, PebsCount, PerThread)

\* A plausible bug: a PEB without a header is tried again.
SkipPebRetrying(t) ==
  /\ HasWork(t)
  /\ CurrentPeb(t) \in Pebs
  /\ vol[CurrentPeb(t)] \notin Headers
  /\ UNCHANGED vars

(* An empty or a user data PEB is ignored, a read error only logged. *)
SkipPeb(t) ==
  /\ HasWork(t)
  /\ CurrentPeb(t) \in Pebs
  /\ vol[CurrentPeb(t)] \notin Headers
  /\ done' = [done EXCEPT ![t] = @ + 1]
  /\ UNCHANGED <<vol, mainVars, thr, map, oom>>

\* A plausible bug: the item index is advanced before the item is stored.
AddPebOverwriting(t) ==
  /\ HasWork(t)
  /\ CurrentPeb(t) \in Pebs
  /\ vol[CurrentPeb(t)] \in Headers
  /\ map' = [map EXCEPT ![t] =
               [WithItem(@, Descriptor(CurrentPeb(t))) EXCEPT
                  !.array = <<Descriptor(CurrentPeb(t))>>]]
  /\ done' = [done EXCEPT ![t] = @ + 1]
  /\ UNCHANGED <<vol, mainVars, thr, oom>>

AddPeb(t) ==
  /\ HasWork(t)
  /\ CurrentPeb(t) \in Pebs
  /\ vol[CurrentPeb(t)] \in Headers
  /\ map' = [map EXCEPT ![t] = WithItem(@, Descriptor(CurrentPeb(t)))]
  /\ done' = [done EXCEPT ![t] = @ + 1]
  /\ UNCHANGED <<vol, mainVars, thr, oom>>

(* The allocation error is logged and the PEB passed over. *)
AddPebFails(t) ==
  /\ MayFailAlloc
  /\ HasWork(t)
  /\ CurrentPeb(t) \in Pebs
  /\ vol[CurrentPeb(t)] \in Headers
  /\ IsExhausted(map[t])
  /\ map' = [map EXCEPT ![t] = AddFails(@)]
  /\ done' = [done EXCEPT ![t] = @ + 1]
  /\ oom' = TRUE
  /\ UNCHANGED <<vol, mainVars, thr>>

(* Beyond the end of the device pread() returns 0 and ssdfs_pread() tries  *)
(* again for ever.                                                         *)
ReadBeyondEnd(t) ==
  /\ HasWork(t)
  /\ CurrentPeb(t) \notin Pebs
  /\ thr' = [thr EXCEPT ![t] = "spinning"]
  /\ UNCHANGED <<vol, mainVars, done, map, oom>>

ExitThread(t) ==
  /\ thr[t] = "running"
  /\ ~HasWork(t)
  /\ thr' = [thr EXCEPT ![t] = "exited"]
  /\ UNCHANGED <<vol, mainVars, done, map, oom>>

Worker(t) ==
  SkipPeb(t) \/ AddPeb(t) \/ AddPebFails(t) \/ ReadBeyondEnd(t) \/ ExitThread(t)

-----------------------------------------------------------------------------
(* The main thread: start and join *)

AllocPool ==
  /\ pc = "start"
  /\ pc' = "spawn"
  /\ UNCHANGED <<vol, i, item, requested, array, res, workerVars, oom>>

AllocPoolFails ==
  /\ MayFailAlloc
  /\ pc = "start"
  /\ pc' = "done"
  /\ res' = "failure"
  /\ oom' = TRUE
  /\ UNCHANGED <<vol, i, item, requested, array, workerVars>>

\* A plausible bug: one worker more than the pool has room for.
SpawnOneMore ==
  /\ pc = "spawn"
  /\ i <= Capacity
  /\ thr' = [t \in Workers |-> IF t = i THEN "running" ELSE thr[t]]
  /\ requested' = requested + 1
  /\ i' = i + 1
  /\ UNCHANGED <<vol, pc, item, array, res, done, map, oom>>

Spawn ==
  /\ pc = "spawn"
  /\ i < Capacity
  /\ thr' = [thr EXCEPT ![i] = "running"]
  /\ requested' = requested + 1
  /\ i' = i + 1
  /\ UNCHANGED <<vol, pc, item, array, res, done, map, oom>>

(* pthread_create failed: join the workers already running, last first. *)
SpawnFails ==
  /\ MayFailAlloc
  /\ pc = "spawn"
  /\ i < Capacity
  /\ res' = "failure"
  /\ pc' = "unwind"
  /\ i' = i - 1
  /\ UNCHANGED <<vol, item, requested, array, workerVars, oom>>

UnwindJoin ==
  /\ pc = "unwind"
  /\ i >= 0
  /\ thr[i] = "exited"
  /\ requested' = requested - 1
  /\ i' = i - 1
  /\ UNCHANGED <<vol, pc, item, array, res, workerVars, oom>>

(* The pool is freed; the maps of the joined workers are not. *)
UnwindDone ==
  /\ pc = "unwind"
  /\ i < 0
  /\ pc' = "done"
  /\ UNCHANGED <<vol, i, item, requested, array, res, workerVars, oom>>

AllSpawned ==
  /\ pc = "spawn"
  /\ i = Capacity
  /\ pc' = "wait"
  /\ i' = 0
  /\ UNCHANGED <<vol, item, requested, array, res, workerVars, oom>>

\* A plausible bug: the exit of the worker is not awaited.
WaitJoinNoWait ==
  /\ pc = "wait"
  /\ i < requested
  /\ i' = i + 1
  /\ UNCHANGED <<vol, pc, item, requested, array, res, workerVars, oom>>

WaitJoin ==
  /\ pc = "wait"
  /\ i < requested
  /\ thr[i] = "exited"
  /\ i' = i + 1
  /\ UNCHANGED <<vol, pc, item, requested, array, res, workerVars, oom>>

AllJoined ==
  /\ pc = "wait"
  /\ i = requested
  /\ pc' = "merge"
  /\ i' = 0
  /\ item' = 0
  /\ UNCHANGED <<vol, requested, array, res, workerVars, oom>>

-----------------------------------------------------------------------------
(* The main thread: merge the maps into the creation points *)

HasPoint(a, time) == \E k \in 1 .. Len(a.points) : a.points[k].time = time

\* A plausible bug: a new point is put behind the others.
PlaceLast(points, time) == Len(points) + 1

(* The place of a new point: before the first point that is newer. *)
Place(points, time) ==
  CHOOSE k \in 1 .. Len(points) + 1 :
    /\ \A j \in 1 .. k - 1 : ~(time < points[j].time)
    /\ k <= Len(points) => time < points[k].time

Inserted(points, time) ==
  LET p == Place(points, time)
  IN  [k \in 1 .. Len(points) + 1 |->
         IF k < p THEN points[k]
         ELSE IF k = p THEN NewPoint(time) ELSE points[k - 1]]

(* ssdfs_fsck_add_creation_point: reuse the unused buffer, else leave the  *)
(* buffer for an allocated array and keep it sorted.                       *)
ReusesBuffer(a) == a.state = "buffer" /\ a.points[Len(a.points)].time >= NoTime

WithPoint(a, time) ==
  IF ReusesBuffer(a)
  THEN [a EXCEPT !.points[Len(a.points)] = NewPoint(time)]
  ELSE [state |-> "allocated", points |-> Inserted(a.points, time)]

(* The item goes to the map of its segment type in its creation point. *)
Merged(a, it) ==
  LET b == IF HasPoint(a, it.time) THEN a ELSE WithPoint(a, it.time)
  IN  [b EXCEPT !.points =
         [k \in DOMAIN b.points |->
            IF b.points[k].time = it.time
            THEN [b.points[k] EXCEPT
                    !.pebs[it.type] = Append(@, it),
                    !.found = @ \cup {"peb_map"}]
            ELSE b.points[k]]]

CurrentMap == map[i]

MergeItem ==
  /\ pc = "merge"
  /\ i < Capacity
  /\ item < Len(CurrentMap.array)
  /\ ~CurrentMap.null
  /\ LET d == CurrentMap.array[item + 1]
     IN  /\ d # Garbage
         /\ array' = Merged(array, d)
  /\ item' = item + 1
  /\ UNCHANGED <<vol, pc, i, requested, res, workerVars, oom>>

(* Uninitialized memory read as an item: any item, or one of an unknown    *)
(* type, whose creation point is added before the type is looked at.       *)
MergeGarbage ==
  /\ pc = "merge"
  /\ i < Capacity
  /\ item < Len(CurrentMap.array)
  /\ ~CurrentMap.null
  /\ CurrentMap.array[item + 1] = Garbage
  /\ \/ /\ \E it \in Items : array' = Merged(array, it)
        /\ item' = item + 1
        /\ UNCHANGED <<pc, res>>
     \/ /\ \E time \in Times :
             array' = IF HasPoint(array, time) THEN array ELSE WithPoint(array, time)
        /\ res' = "failure"
        /\ pc' = "done"
        /\ UNCHANGED item
  /\ UNCHANGED <<vol, i, requested, workerVars, oom>>

(* creation_points is NULL after a failed allocation: what it held cannot  *)
(* be reached, an unused point stands for it.                              *)
LostPoints == [state |-> "lost", points |-> <<NewPoint(NoTime)>>]

(* The map of a point grows when it is full, and is NULL if it cannot.     *)
IsFull(n) == n = 0 \/ \E k \in 0 .. n : n = MapCapacityMin * 2^k

MapIsFull(a, it) ==
  \E k \in DOMAIN a.points :
    a.points[k].time = it.time /\ IsFull(Len(a.points[k].pebs[it.type]))

WithoutMap(a, it) ==
  [a EXCEPT !.points =
     [k \in DOMAIN a.points |->
        IF a.points[k].time = it.time
        THEN [a.points[k] EXCEPT !.pebs[it.type] = << >>]
        ELSE a.points[k]]]

\* A plausible bug: the failure of the allocation is not returned.
MergeFailsUnnoticed ==
  /\ MayFailAlloc
  /\ pc = "merge"
  /\ i < Capacity
  /\ item < Len(CurrentMap.array)
  /\ ~CurrentMap.null
  /\ CurrentMap.array[item + 1] # Garbage
  /\ HasPoint(array, CurrentMap.array[item + 1].time)
  /\ MapIsFull(array, CurrentMap.array[item + 1])
  /\ array' = WithoutMap(array, CurrentMap.array[item + 1])
  /\ item' = item + 1
  /\ oom' = TRUE
  /\ UNCHANGED <<vol, pc, res, i, requested, workerVars>>

(* An allocation fails while an item is merged and the search fails: the   *)
(* first map of a new point, the array of points, or a map of a point.     *)
MergeFails ==
  /\ MayFailAlloc
  /\ pc = "merge"
  /\ i < Capacity
  /\ item < Len(CurrentMap.array)
  /\ ~CurrentMap.null
  /\ LET d == CurrentMap.array[item + 1]
     IN  \E it \in (IF d = Garbage THEN Items ELSE {d}) :
           \/ ~HasPoint(array, it.time) /\ array' = WithPoint(array, it.time)
           \/ ~HasPoint(array, it.time) /\ ~ReusesBuffer(array) /\ array' = LostPoints
           \/ HasPoint(array, it.time) /\ MapIsFull(array, it) /\ array' = WithoutMap(array, it)
  /\ res' = "failure"
  /\ pc' = "done"
  /\ oom' = TRUE
  /\ UNCHANGED <<vol, i, item, requested, workerVars>>

(* The map was lost by a failed realloc: reading it is a NULL dereference. *)
MergeNullMap ==
  /\ pc = "merge"
  /\ i < Capacity
  /\ item < Len(CurrentMap.array)
  /\ CurrentMap.null
  /\ pc' = "crashed"
  /\ UNCHANGED <<vol, i, item, requested, array, res, workerVars, oom>>

MergeNextMap ==
  /\ pc = "merge"
  /\ i < Capacity
  /\ item = Len(CurrentMap.array)
  /\ i' = i + 1
  /\ item' = 0
  /\ UNCHANGED <<vol, pc, requested, array, res, workerVars, oom>>

(* The workers' maps and the pool are freed. *)
MergeDone ==
  /\ pc = "merge"
  /\ i = Capacity
  /\ pc' = "done"
  /\ UNCHANGED <<vol, i, item, requested, array, res, workerVars, oom>>

-----------------------------------------------------------------------------
Main ==
  \/ AllocPool \/ AllocPoolFails
  \/ Spawn \/ SpawnFails \/ UnwindJoin \/ UnwindDone \/ AllSpawned
  \/ WaitJoin \/ AllJoined
  \/ MergeItem \/ MergeGarbage \/ MergeFails \/ MergeNullMap
  \/ MergeNextMap \/ MergeDone

(* The search has returned, or a worker keeps calling pread(). *)
Idle ==
  /\ pc \in {"done", "crashed"} \/ \E t \in Workers : thr[t] = "spinning"
  /\ UNCHANGED vars

Next == Main \/ (\E t \in Workers : Worker(t)) \/ Idle

(* The kernel schedules every runnable thread. *)
Fairness == WF_vars(Main) /\ \A t \in Workers : WF_vars(Worker(t))

Spec == Init /\ [][Next]_vars /\ Fairness

-----------------------------------------------------------------------------
(* Properties *)

PointType == [time : Times \cup {NoTime}, found : SUBSET Bits,
              pebs : [SegTypes -> Seq(Items)]]

(* The values of the variables. *)
TypeOK ==
  /\ vol \in Volumes
  /\ pc \in {"start", "spawn", "unwind", "wait", "merge", "done", "crashed"}
  /\ i \in -1 .. Capacity
  /\ item \in Nat
  /\ requested \in 0 .. Capacity
  /\ thr \in [Workers -> {"none", "running", "spinning", "exited"}]
  /\ done \in [Workers -> Nat]
  /\ map \in [Workers -> [array : Seq(Items \cup {Garbage}), capacity : Nat,
                          null : BOOLEAN]]
  /\ array \in [state : {"buffer", "allocated", "lost"}, points : Seq(PointType)]
  /\ res \in {"success", "failure"}
  /\ oom \in BOOLEAN

(* No worker is alive once the main thread reads the workers' maps or has  *)
(* freed env->threads.jobs, which holds the state every worker uses: also  *)
(* when a pthread_create in the middle of the pool fails.                  *)
JoinedBeforeFree ==
  pc \in {"merge", "done", "crashed"} =>
    \A t \in Workers : thr[t] \notin {"running", "spinning"}

(* The creation points are strictly ordered by creation time, whatever the *)
(* order in which the workers' items arrive: detection takes the last one  *)
(* for the newest volume.                                                  *)
PointsSorted ==
  \A j, k \in 1 .. Len(array.points) :
    j < k => array.points[j].time < array.points[k].time

(* How often PEB p is recorded in creation point k under type s. *)
Recorded(k, s, p) ==
  { n \in DOMAIN array.points[k].pebs[s] : array.points[k].pebs[s][n].peb = p }

(* A search that succeeds with no allocation failure has recorded every    *)
(* readable metadata PEB of the volume exactly once, in the creation point *)
(* of its volume and under its segment type, and nothing else: however the *)
(* PEBs were shared out and the workers interleaved.                       *)
SearchComplete ==
  pc = "done" /\ res = "success" /\ ~oom =>
    \A p \in Pebs :
      /\ vol[p] \in Headers => HasPoint(array, vol[p].time)
      /\ \A s \in SegTypes, k \in 1 .. Len(array.points) :
           LET hit == /\ vol[p] \in Headers
                      /\ vol[p].type = s
                      /\ vol[p].time = array.points[k].time
           IN  IF hit THEN \E n \in DOMAIN array.points[k].pebs[s] :
                             Recorded(k, s, p) = {n}
               ELSE Recorded(k, s, p) = {}

(* Merging never forgets unnoticed: a creation point that is in use keeps  *)
(* its time, its found bits and the PEBs already recorded while other      *)
(* points are inserted around it (memmove, realloc), or the search fails.  *)
KeepsFound ==
  [][\/ res' = "failure"
     \/ \A k \in 1 .. Len(array.points) :
          array.points[k].time # NoTime =>
            \E j \in 1 .. Len(array'.points) :
              /\ array'.points[j].time = array.points[k].time
              /\ array.points[k].found \subseteq array'.points[j].found
              /\ \A s \in SegTypes :
                   /\ Len(array.points[k].pebs[s]) <= Len(array'.points[j].pebs[s])
                   /\ \A n \in DOMAIN array.points[k].pebs[s] :
                        array'.points[j].pebs[s][n] = array.points[k].pebs[s][n]]_vars

(* The search comes to an end for every thread number. *)
SearchTerminates == <>(pc \in {"done", "crashed"})

(* It does for those with which no worker starts beyond the device: every  *)
(* worker ends and is joined, whatever fails.                              *)
FittingSearchTerminates ==
  Fits(PebsCount, Capacity) => <>(pc \in {"done", "crashed"})
=============================================================================
