---------------------------- MODULE PebPartition ----------------------------
(***************************************************************************)
(* How fsck.ssdfs, recoverfs.ssdfs and mkfs.ssdfs hand the physical erase  *)
(* blocks (PEBs) of a volume to their worker threads.  The three tools use *)
(* the same arithmetic on u64 values: PEBs per thread rounded up, thread t *)
(* starts at PEB t * pebs_per_thread, and its share is cut at the end of   *)
(* the volume by min_t(u64, pebs_count - peb.id, pebs_per_thread).  The    *)
(* subtraction is unsigned: it wraps when peb.id is beyond the volume.     *)
(***************************************************************************)
EXTENDS Integers

CONSTANT U64          \* the number of u64 values, 2^64 in the program

ASSUME U64Assumption == U64 \in Nat \ {0}

\* A plausible bug: the share is rounded down, the tail of the volume is lost.
PebsPerThreadFloor(pebs, capacity) == pebs \div capacity

PebsPerThread(pebs, capacity) == (pebs + capacity - 1) \div capacity

FirstPeb(t, perThread) == (t * perThread) % U64

\* A plausible bug: the last share is not cut at the end of the volume.
ShareUncut(t, pebs, perThread) == perThread

Share(t, pebs, perThread) ==
  LET rest == (pebs - FirstPeb(t, perThread)) % U64
  IN  IF rest < perThread THEN rest ELSE perThread

PebRange(t, pebs, perThread) ==
  { FirstPeb(t, perThread) + k : k \in 0 .. Share(t, pebs, perThread) - 1 }

(***************************************************************************)
(* The thread numbers for which no start lies beyond the volume: exactly   *)
(* then no subtraction wraps.                                              *)
(***************************************************************************)
Fits(pebs, capacity) ==
  (capacity - 1) * PebsPerThread(pebs, capacity) <= pebs
=============================================================================
