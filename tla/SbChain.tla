------------------------------ MODULE SbChain -------------------------------
(***************************************************************************)
(* How fsck.ssdfs finds a superblock segment (one copy of it).  The base   *)
(* snapshot segment in PEB 0 names three PEBs, current, next and reserved; *)
(* the first that holds a superblock segment is the start of a chain:      *)
(* every superblock segment names the next one.  The search follows the    *)
(* chain on a volume that may be corrupted, so the pointers are arbitrary. *)
(***************************************************************************)
EXTENDS Naturals

CONSTANT PebsCount    \* pebs_per_volume = fs_size / erase_size

ASSUME SbChainAssumption == PebsCount \in Nat \ {0}

VARIABLES
  base,   \* the header of PEB 0: "unreadable", "none", or its sb_pebs
  image,  \* what reading the header of the other PEBs yields
  pc,
  cand,   \* the pointer of the base snapshot being tried
  log,    \* PEB of the superblock segment found so far, or NoPeb
  tries,  \* number_of_tries
  res     \* result of the search

vars == <<base, image, pc, cand, log, tries, res>>

(***************************************************************************)
(* A pointer is a PEB of the volume, one beyond its end, or U64_MAX, whose *)
(* byte offset is negative for pread().                                    *)
(***************************************************************************)
Beyond == PebsCount
NoPeb == PebsCount + 1
Pointers == 0 .. NoPeb
Pebs == 0 .. PebsCount - 1

Slots == {"cur", "next", "reserved"}

\* A plausible bug: the next segment is never tried.
NextSlotSkipping(s) == "reserved"

NextSlot(s) == IF s = "cur" THEN "next" ELSE "reserved"

Images == [type : {"sb"}, next : Pointers]
          \cup [type : {"other", "unreadable"}, next : {NoPeb}]

Init ==
  /\ base \in [type : {"snapshot"}, cur : Pointers, next : Pointers,
               reserved : Pointers]
              \cup [type : {"other", "unreadable"}, cur : {NoPeb},
                    next : {NoPeb}, reserved : {NoPeb}]
  /\ image \in [Pebs \ {0} -> Images]
  /\ pc = "base"
  /\ cand = "cur"
  /\ log = NoPeb
  /\ tries = 0
  /\ res = "none"

(***************************************************************************)
(* ssdfs_fsck_find_metadata_segment for a superblock segment: a read error *)
(* is a failure, another or no header is not found, and a PEB beyond the   *)
(* end of the device is read for ever (pread() returns 0).                 *)
(***************************************************************************)
FindSegment(peb) ==
  CASE peb = NoPeb -> "failure"
    [] peb = Beyond -> "spin"
    [] peb = 0 -> "not_found"
    [] peb \in Pebs \ {0} ->
         IF image[peb].type = "sb" THEN "success"
         ELSE IF image[peb].type = "other" THEN "not_found" ELSE "failure"

Finish(r) == pc' = "done" /\ res' = r

(* is_base_snapshot_segment_found: the header of PEB 0. *)
ReadBase ==
  /\ pc = "base"
  /\ CASE base.type = "snapshot" -> pc' = "start" /\ res' = res
       [] base.type = "other" -> Finish("not_found")
       [] base.type = "unreadable" -> Finish("failure")
  /\ UNCHANGED <<base, image, cand, log, tries>>

(* Try the current, the next and the reserved PEB in turn. *)
TryCandidate ==
  /\ pc = "start"
  /\ LET peb == base[cand]
         r == FindSegment(peb)
     IN  \/ /\ r = "success"
            /\ log' = peb
            /\ pc' = "chain"
            /\ UNCHANGED <<cand, res>>
         \/ /\ r = "not_found"
            /\ cand # "reserved"
            /\ cand' = NextSlot(cand)
            /\ UNCHANGED <<pc, log, res>>
         \/ /\ r = "not_found"
            /\ cand = "reserved"
            /\ Finish("not_found")
            /\ UNCHANGED <<cand, log>>
         \/ /\ r = "failure"
            /\ Finish("failure")
            /\ UNCHANGED <<cand, log>>
         \/ /\ r = "spin"
            /\ pc' = "spin"
            /\ UNCHANGED <<cand, log, res>>
  /\ UNCHANGED <<base, image, tries>>

\* A plausible bug: the bound is one hop short.
TooManyTriesShort(n) == n >= PebsCount - 1

TooManyTries(n) == n >= PebsCount

\* A plausible bug: a hop does not count as a try.
FollowChainUncounted ==
  /\ pc = "chain"
  /\ FindSegment(image[log].next) = "success"
  /\ log' = image[log].next
  /\ UNCHANGED <<base, image, pc, cand, tries, res>>

(* One turn of the loop that finds the next segment of the chain. *)
FollowChain ==
  /\ pc = "chain"
  /\ LET peb == image[log].next
     IN  /\ FindSegment(peb) = "success"
         /\ log' = peb
  /\ tries' = tries + 1
  /\ IF TooManyTries(tries + 1) THEN Finish("failure") ELSE UNCHANGED <<pc, res>>
  /\ UNCHANGED <<base, image, cand>>

(* Any other result, a read error too, ends the loop: the last segment     *)
(* found is the one whose logs are searched next.                          *)
EndOfChain ==
  /\ pc = "chain"
  /\ FindSegment(image[log].next) \in {"not_found", "failure"}
  /\ tries' = tries + 1
  /\ Finish(IF TooManyTries(tries + 1) THEN "failure" ELSE "success")
  /\ UNCHANGED <<base, image, cand, log>>

ChainBeyondEnd ==
  /\ pc = "chain"
  /\ FindSegment(image[log].next) = "spin"
  /\ pc' = "spin"
  /\ UNCHANGED <<base, image, cand, log, tries, res>>

Idle == pc \in {"done", "spin"} /\ UNCHANGED vars

Next ==
  ReadBase \/ TryCandidate \/ FollowChain \/ EndOfChain \/ ChainBeyondEnd \/ Idle

Spec == Init /\ [][Next]_vars /\ WF_vars(Next)

-----------------------------------------------------------------------------
(* Properties *)

IsSb(peb) == peb \in Pebs \ {0} /\ image[peb].type = "sb"

(***************************************************************************)
(* The superblock segments that the pointers lead to from peb: those in    *)
(* every set that holds peb and, with a superblock segment, the one it     *)
(* names.                                                                  *)
(***************************************************************************)
Closed(S) == \A p \in S : IsSb(p) => image[p].next \in S
Chain(peb) ==
  { p \in Pebs : IsSb(p) /\ \A S \in SUBSET Pointers :
                              peb \in S /\ Closed(S) => p \in S }

Ends(chain) == { p \in chain : image[p].next \notin chain }

(* Where the chain starts: the first of the three PEBs with a superblock. *)
StartSlot ==
  CASE IsSb(base.cur) -> "cur"
    [] ~IsSb(base.cur) /\ IsSb(base.next) -> "next"
    [] OTHER -> "reserved"

(* The search succeeds exactly on the end of the chain: when a chain was   *)
(* found, a chain without a cycle yields its last segment, never an older  *)
(* one and never a failure by the bound on the number of tries; a cycle    *)
(* yields a failure.                                                       *)
ChainEndFound ==
  pc = "done" /\ log # NoPeb =>
    LET chain == Chain(base[StartSlot])
    IN  IF Ends(chain) = {} THEN res = "failure"
        ELSE res = "success" /\ log \in Ends(chain)

(* The candidates are tried in order: the reserved segment is used only    *)
(* when neither the current nor the next one holds a superblock.           *)
OldestCandidateLast ==
  pc = "chain" /\ tries = 0 => log = base[StartSlot] /\ cand = StartSlot

(* Every pointer the search may follow names a PEB of the device. *)
PointersInside ==
  /\ base.cur # Beyond /\ base.next # Beyond /\ base.reserved # Beyond
  /\ \A p \in Pebs \ {0} : image[p].next # Beyond

(* On a device whose headers name only PEBs of the device (or U64_MAX) the *)
(* search ends, whatever cycles the pointers form.                         *)
SearchEnds == PointersInside => <>(pc = "done")
=============================================================================
