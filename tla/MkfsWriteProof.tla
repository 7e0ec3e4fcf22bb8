--------------------------- MODULE MkfsWriteProof ---------------------------
(***************************************************************************)
(* The last phase of mkfs.ssdfs, proved for every layout, geometry and     *)
(* number of threads: what is written stays, with option -R nothing of the *)
(* old content does, a volume reported as written holds its layout, and a  *)
(* layout that was checked is written, on zoned devices too.               *)
(***************************************************************************)
EXTENDS MkfsWrite, WellFoundedInduction, FiniteSetTheorems, TLAPS

(* Division. *)

LEMMA DivisionInt ==
  ASSUME NEW a \in Int, NEW b \in Int, b > 0
  PROVE  a = b * (a \div b) + (a % b)
BY SMT

LEMMA DivMod ==
  ASSUME NEW a \in Nat, NEW b \in Nat \ {0}
  PROVE  /\ a \div b \in Nat
         /\ a % b \in 0 .. b - 1
         /\ a = b * (a \div b) + (a % b)
<1>1. a % b \in 0 .. b - 1
  BY SMT
<1>2. a = b * (a \div b) + (a % b)
  BY DivisionInt
<1>3. a \div b \in Int
  BY SMT
<1>4. a \div b >= 0
  BY <1>1, <1>2, <1>3, SMT
<1> QED
  BY <1>1, <1>2, <1>3, <1>4

LEMMA SmallMod ==
  ASSUME NEW a \in Nat, NEW b \in Nat, a < b
  PROVE  a % b = a
BY SMT

(* The rounded up share times the thread number covers the volume. *)
LEMMA RoundedUp ==
  ASSUME NEW pebs \in Nat, NEW capacity \in Nat \ {0}
  PROVE  /\ PebsPerThread(pebs, capacity) \in Nat
         /\ pebs <= capacity * PebsPerThread(pebs, capacity)
         /\ pebs > 0 => PebsPerThread(pebs, capacity) > 0
<1> DEFINE q == (pebs + capacity - 1) \div capacity
           r == (pebs + capacity - 1) % capacity
<1>1. pebs + capacity - 1 \in Nat
  OBVIOUS
<1>2. q \in Nat /\ r \in 0 .. capacity - 1 /\ pebs + capacity - 1 = capacity * q + r
  BY <1>1, DivMod
<1>3. capacity * q \in Nat
  BY <1>2, SMT
<1> HIDE DEF q, r
<1>4. pebs <= capacity * q
  BY <1>2, <1>3
<1>5. pebs > 0 => q > 0
  <2>1. q = 0 => capacity * q = 0
    BY <1>2, SMT
  <2> QED
    BY <1>2, <1>4, <2>1
<1> QED
  BY <1>2, <1>4, <1>5 DEF PebsPerThread, q

-----------------------------------------------------------------------------

(* The life of the erase workers, and that they have all ended when the    *)
(* segments are written.                                                   *)
PoolInv ==
  /\ layout \in Layouts
  /\ cap \in Threads
  /\ pc \in {"check", "erase", "erase_allocated", "erase_all", "spawn", "wait",
             "write", "peb", "done", "crashed"}
  /\ thr \in [Workers -> {"none", "running", "exited"}]
  /\ pc \notin {"spawn", "wait", "crashed"} =>
       \A t \in Workers : thr[t] # "running"
  /\ pc \in {"check", "erase"} =>
       requested = 0 /\ \A t \in Workers : thr[t] = "none"
  /\ pc = "spawn" =>
       /\ i \in 0 .. cap
       /\ requested = i
       /\ \A t \in Workers : t >= i => thr[t] = "none"
  /\ pc = "wait" =>
       /\ i \in 0 .. cap
       /\ requested = cap
       /\ \A t \in Workers : t < i => thr[t] = "exited"

(* The types of the write loop's state. *)
WriteTypes ==
  /\ cur \in [seg : Nat \ {0}, peb : Nat \ {0}, ext : Nat, off : Nat, left : Nat]
  /\ buf = [bytes |-> buf.bytes, off |-> buf.off]
  /\ buf.off \in 0 .. PageSize - 1
  /\ out \in [vol : Nat, flushed : Nat]

(* The end of extent k. *)
End(x, k) == x[k].off + x[k].size

(***************************************************************************)
(* The loop over the extents of a PEB: whole pages have been flushed, what *)
(* is buffered lies behind them and before the rest of the extent; only    *)
(* the last, padded page ends behind the extents.                          *)
(***************************************************************************)
PebInv ==
  pc = "peb" =>
    /\ cur.seg \in 1 .. Len(layout.segs)
    /\ cur.peb \in 1 .. Len(layout.segs[cur.seg].pebs)
    /\ cur.ext \in 0 .. Len(CurPeb.extents)
    /\ out.flushed % PageSize = 0
    /\ out.vol = CurPeb.id * PebSize + out.flushed
    /\ cur.ext = 0 => cur.left = 0 /\ cur.off = 0
    /\ cur.ext > 0 => cur.off + cur.left = End(CurPeb.extents, cur.ext)
    /\ \/ out.flushed + buf.off <= cur.off
       \/ /\ cur.ext = Len(CurPeb.extents)
          /\ cur.left = 0
          /\ buf.off = 0
          /\ cur.off <= out.flushed

Before(n) == n[1] < cur.seg \/ (n[1] = cur.seg /\ n[2] < cur.peb)

(* A page of a PEB written before, or a page of this PEB that has been     *)
(* flushed.                                                                *)
Placed(b) ==
  \E n \in AllPebs(layout) :
    /\ b \div PageSize \in Blocks(Peb(layout, n))
    /\ \/ Before(n)
       \/ pc = "peb" /\ n = <<cur.seg, cur.peb>> /\ b < out.vol

(* There are no data before the write loop, and in the loop they are where *)
(* no later page of the loop will be written.                              *)
DataInv ==
  /\ pc \notin {"peb", "done"} => buf.off = 0
  /\ pc \notin {"check", "done"} => Accepted(layout)
  /\ pc \notin {"write", "peb", "done"} => Data = {}
  /\ pc \in {"write", "peb"} => \A b \in Data : Placed(b)

StaysInv == PoolInv /\ WriteTypes /\ PebInv /\ DataInv

-----------------------------------------------------------------------------
Clean(bytes) == \A b \in Bytes : b \in bytes => dev[b] # Old

(* The erase is over, and no error has ended the tool. *)
Writing == pc \in {"write", "peb"} \/ (pc = "done" /\ res = "ok")

(* What has been erased so far. *)
GoneInv ==
  /\ pc # "done" => res = "none"
  /\ done \in [Workers -> Nat]
  /\ \A b \in 0 .. PageSize - 1 : buf.bytes[b] # Old
  /\ kind = "mtd" => Clean(Bytes)
  /\ Writing /\ need /\ "erase" \notin failed => Clean(Bytes)
  /\ pc = "erase_allocated" => ~need
  /\ pc = "erase_all" =>
       /\ i \in 0 .. PebsCount \div layout.perSeg
       /\ \A s \in 0 .. i - 1 : Clean(SegBytes(s))
  /\ pc \in {"check", "erase"} => \A t \in Workers : done[t] = 0
  /\ pc \in {"spawn", "wait"} =>
       \A t \in Workers :
         /\ \A k \in 0 .. done[t] - 1 : Clean(PebBytes(FirstPeb(t, PerThread) + k))
         /\ thr[t] = "exited" /\ "erase" \notin failed =>
              \/ done[t] >= Share(t, PebsCount, PerThread)
              \/ CurrentPeb(t) >= PebsCount

-----------------------------------------------------------------------------
(* The pool *)

LEMMA CapType ==
  ASSUME PoolInv
  PROVE  cap \in Nat \ {0} /\ Workers = 0 .. cap - 1
BY MkfsWriteAssumption DEF PoolInv, Workers

WriteStep ==
  \/ StartPeb \/ NextExtent \/ CopyBytes \/ FlushRest \/ WriteFails
  \/ FinishPeb \/ FinishZoneFails \/ Sync \/ SyncFails

EraseStep ==
  \/ ChooseErase \/ AllocPoolFails
  \/ EraseSegment \/ EraseSegmentFails \/ SegmentsErased

SpawnStep == Spawn \/ SpawnFails \/ AllSpawned \/ WaitJoin \/ AllJoined

LEMMA NextSteps ==
  ASSUME Next
  PROVE  \/ CheckLayout \/ CheckFails \/ EraseStep \/ SpawnStep \/ WriteStep
         \/ (\E t \in Workers : Worker(t)) \/ UNCHANGED vars
BY DEF Next, Main, EraseStep, SpawnStep, WriteStep, Idle

(* The main thread's steps of the write loop start no worker. *)
LEMMA WriteStepFrame ==
  ASSUME WriteStep
  PROVE  /\ pc \in {"write", "peb"} /\ pc' \in {"write", "peb", "done"}
         /\ layout' = layout /\ kind' = kind /\ need' = need /\ cap' = cap
         /\ i' = i /\ requested' = requested /\ thr' = thr /\ done' = done
<1>1. CASE StartPeb
  BY <1>1 DEF StartPeb, inputs, eraseVars
<1>2. CASE NextExtent
  BY <1>2 DEF NextExtent, inputs, eraseVars
<1>3. CASE CopyBytes
  BY <1>3 DEF CopyBytes, inputs, eraseVars
<1>4. CASE FlushRest
  BY <1>4 DEF FlushRest, PebCopied, inputs, eraseVars
<1>5. CASE WriteFails
  BY <1>5 DEF WriteFails, PebCopied, Return, inputs, eraseVars
<1>6. CASE FinishPeb
  BY <1>6 DEF FinishPeb, PebCopied, inputs, eraseVars
<1>7. CASE FinishZoneFails
  BY <1>7 DEF FinishZoneFails, PebCopied, Return, inputs, eraseVars
<1>8. CASE Sync \/ SyncFails
  BY <1>8 DEF Sync, SyncFails, Return, inputs, eraseVars
<1> QED
  BY <1>1, <1>2, <1>3, <1>4, <1>5, <1>6, <1>7, <1>8 DEF WriteStep

LEMMA PoolInit ==
  ASSUME Init
  PROVE  PoolInv
BY DEF Init, PoolInv

(* No step but a join lets the main thread write, and it joins them all. *)
LEMMA PoolNext ==
  ASSUME PoolInv, [Next]_vars
  PROVE  PoolInv'
<1>1. cap \in Nat \ {0} /\ Workers = 0 .. cap - 1
  BY CapType
<1>2. layout' = layout /\ cap' = cap
  <2>1. CASE UNCHANGED vars
    BY <2>1 DEF vars, inputs
  <2>2. CASE WriteStep
    BY <2>2, WriteStepFrame
  <2>3. CASE CheckLayout \/ CheckFails
    BY <2>3 DEF CheckLayout, CheckFails, inputs
  <2>4. CASE EraseStep
    BY <2>4 DEF EraseStep, ChooseErase, AllocPoolFails, EraseSegment,
                EraseSegmentFails, SegmentsErased, inputs
  <2>5. CASE SpawnStep
    BY <2>5 DEF SpawnStep, Spawn, SpawnFails, AllSpawned, WaitJoin, AllJoined, inputs
  <2>6. CASE \E t \in Workers : Worker(t)
    BY <2>6 DEF Worker, ErasePeb, ErasePebFails, ExitThread, inputs
  <2> QED
    BY <2>1, <2>2, <2>3, <2>4, <2>5, <2>6, NextSteps
<1>3. Workers' = Workers
  BY <1>2 DEF Workers
<1> USE DEF PoolInv
<1>4. CASE UNCHANGED vars
  BY <1>2, <1>3, <1>4 DEF vars, eraseVars
<1>5. CASE WriteStep
  <2>1. /\ pc \in {"write", "peb"} /\ pc' \in {"write", "peb", "done"}
        /\ thr' = thr
    BY <1>5, WriteStepFrame
  <2> QED
    BY <1>2, <1>3, <2>1
<1>6. CASE CheckLayout \/ CheckFails
  <2>1. /\ pc = "check" /\ pc' \in {"erase", "done"}
        /\ thr' = thr /\ requested' = requested
    BY <1>6 DEF CheckLayout, CheckFails, Return, eraseVars
  <2> QED
    BY <1>2, <1>3, <2>1
<1>7. CASE ChooseErase
  <2>1. /\ pc = "erase" /\ i' = 0
        /\ pc' \in {"write", "erase_allocated", "erase_all", "spawn"}
        /\ thr' = thr /\ requested' = requested
    BY <1>7 DEF ChooseErase, eraseVars
  <2>2. 0 \in 0 .. cap
    BY <1>1
  <2> QED
    BY <1>2, <1>3, <2>1, <2>2
<1>8. CASE AllocPoolFails
  <2>1. /\ pc = "spawn" /\ i = 0 /\ pc' = "erase_all" /\ thr' = thr
    BY <1>8 DEF AllocPoolFails, eraseVars
  <2>2. \A t \in Workers : thr[t] = "none"
    BY <1>1, <2>1
  <2> QED
    BY <1>2, <1>3, <2>1, <2>2
<1>9. CASE EraseSegment \/ EraseSegmentFails \/ SegmentsErased
  <2>1. /\ pc \in {"erase_allocated", "erase_all"}
        /\ pc' \in {"erase_allocated", "erase_all", "done", "write"}
        /\ thr' = thr
    BY <1>9 DEF EraseSegment, EraseSegmentFails, SegmentsErased, Return, eraseVars
  <2> QED
    BY <1>2, <1>3, <2>1
<1>10. CASE Spawn
  <2>1. /\ pc = "spawn" /\ i < cap /\ thr' = [thr EXCEPT ![i] = "running"]
        /\ requested' = requested + 1 /\ i' = i + 1 /\ pc' = "spawn"
    BY <1>10 DEF Spawn
  <2>2. i \in 0 .. cap /\ requested = i
    BY <2>1
  <2>3. i' \in 0 .. cap /\ requested' = i' /\ i \in Workers
    BY <1>1, <2>1, <2>2
  <2>4. thr' \in [Workers -> {"none", "running", "exited"}]
    BY <2>1
  <2>5. \A t \in Workers : t >= i' => thr'[t] = "none"
    BY <1>1, <2>1, <2>2
  <2> QED
    BY <1>2, <1>3, <2>1, <2>3, <2>4, <2>5
<1>11. CASE SpawnFails
  BY <1>2, <1>3, <1>11 DEF SpawnFails, eraseVars
<1>12. CASE AllSpawned
  <2>1. /\ pc = "spawn" /\ i = cap /\ i' = 0 /\ pc' = "wait"
        /\ thr' = thr /\ requested' = requested
    BY <1>12 DEF AllSpawned, eraseVars
  <2>2. requested' = cap /\ i' \in 0 .. cap
    BY <1>1, <2>1
  <2>3. \A t \in Workers : ~(t < i')
    BY <1>1, <2>1
  <2> QED
    BY <1>2, <1>3, <2>1, <2>2, <2>3
<1>13. CASE WaitJoin
  <2>1. /\ pc = "wait" /\ i < requested /\ thr[i] = "exited" /\ i' = i + 1
        /\ pc' = "wait" /\ thr' = thr /\ requested' = requested
    BY <1>13 DEF WaitJoin, eraseVars
  <2>2. i \in 0 .. cap /\ requested = cap
    BY <2>1
  <2>3. i' \in 0 .. cap
    BY <1>1, <2>1, <2>2
  <2>4. \A t \in Workers : t < i' => t < i \/ t = i
    BY <1>1, <2>1, <2>2
  <2>5. \A t \in Workers : t < i' => thr'[t] = "exited"
    BY <2>1, <2>4
  <2> QED
    BY <1>2, <1>3, <2>1, <2>2, <2>3, <2>5
<1>14. CASE AllJoined
  <2>1. pc = "wait" /\ i = requested /\ pc' = "write" /\ thr' = thr
    BY <1>14 DEF AllJoined
  <2>2. \A t \in Workers : thr[t] = "exited"
    BY <1>1, <2>1
  <2> QED
    BY <1>2, <1>3, <2>1, <2>2
<1>15. ASSUME NEW t \in Workers, Worker(t)
       PROVE  PoolInv'
  <2>1. /\ pc' = pc /\ i' = i /\ requested' = requested
        /\ thr[t] = "running"
        /\ thr' = thr \/ thr' = [thr EXCEPT ![t] = "exited"]
    BY <1>15 DEF Worker, ErasePeb, ErasePebFails, ExitThread, HasWork
  <2>2. thr' \in [Workers -> {"none", "running", "exited"}]
    BY <2>1
  <2>3. \A u \in Workers : thr'[u] = thr[u] \/ (u = t /\ thr'[u] = "exited")
    BY <2>1
  <2>4. pc \in {"spawn", "wait", "crashed"}
    BY <2>1
  <2> QED
    BY <1>2, <1>3, <2>1, <2>2, <2>3, <2>4
<1> QED
  BY <1>4, <1>5, <1>6, <1>7, <1>8, <1>9, <1>10, <1>11, <1>12, <1>13, <1>14,
     <1>15, NextSteps DEF EraseStep, SpawnStep

-----------------------------------------------------------------------------
(* Pages, PEBs and extents *)

(* The multiple of n that a lies in. *)
LEMMA CellIs ==
  ASSUME NEW q \in Nat, NEW n \in Nat \ {0}, NEW a \in Nat,
         n * q <= a, a < n * q + n
  PROVE  a \div n = q
<1> DEFINE d == a \div n
           r == a % n
<1>1. d \in Nat /\ r \in 0 .. n - 1 /\ a = n * d + r
  BY DivMod
<1> HIDE DEF d, r
<1>2. n * d \in Nat /\ n * q \in Nat
  BY <1>1, SMT
<1>3. d >= q + 1 => n * d >= n * q + n
  BY <1>1, SMT
<1>4. q >= d + 1 => n * q >= n * d + n
  BY <1>1, SMT
<1>5. d = q
  BY <1>1, <1>2, <1>3, <1>4
<1> QED
  BY <1>5 DEF d

(* The next multiple of n. *)
LEMMA MultipleNext ==
  ASSUME NEW a \in Nat, NEW n \in Nat \ {0}, a % n = 0
  PROVE  (a + n) % n = 0
<1> DEFINE d == a \div n
<1>1. d \in Nat /\ a = n * d
  <2>1. d \in Nat /\ a = n * d + (a % n)
    BY DivMod
  <2>2. n * d \in Nat
    BY <2>1
  <2> HIDE DEF d
  <2> QED
    BY <2>1, <2>2
<1> HIDE DEF d
<1>2. n * (d + 1) = a + n /\ a + n \in Nat /\ d + 1 \in Nat
  BY <1>1
<1>3. (a + n) \div n = d + 1
  BY <1>2, CellIs
<1>4. a + n = n * ((a + n) \div n) + ((a + n) % n) /\ (a + n) % n \in 0 .. n - 1
  BY <1>2, DivMod
<1> DEFINE r == (a + n) % n
<1>5. a + n = n * (d + 1) + r /\ r \in 0 .. n - 1
  BY <1>3, <1>4
<1> HIDE DEF r
<1>6. r = 0
  BY <1>2, <1>5
<1> QED
  BY <1>6 DEF r

LEMMA PebTypes ==
  ASSUME NEW l \in Layouts, NEW s \in 1 .. Len(l.segs),
         NEW j \in 1 .. Len(l.segs[s].pebs), NEW p, p = l.segs[s].pebs[j]
  PROVE  /\ p.id \in Nat
         /\ p.extents \in Seq(ExtentType)
         /\ Len(p.extents) \in Nat \ {0}
         /\ p.extents[1].off < PageSize
<1>1. /\ l.segs \in Seq(SegType)
      /\ \A z \in DOMAIN l.segs : \A k \in DOMAIN l.segs[z].pebs :
           LET extents == l.segs[z].pebs[k].extents
           IN  Len(extents) > 0 /\ extents[1].off < PageSize
  BY MkfsWriteAssumption
<1>2. s \in DOMAIN l.segs /\ l.segs[s] \in SegType
  BY <1>1
<1>3. l.segs[s].pebs \in Seq(PebType)
  BY <1>2 DEF SegType
<1>4. j \in DOMAIN l.segs[s].pebs /\ p \in PebType
  BY <1>3
<1>5. p.id \in Nat /\ p.extents \in Seq(ExtentType)
  BY <1>4 DEF PebType
<1>6. Len(p.extents) > 0 /\ p.extents[1].off < PageSize
  BY <1>1, <1>2, <1>4
<1>7. Len(p.extents) \in Nat
  <2>1. \A x \in Seq(ExtentType) : Len(x) \in Nat
    OBVIOUS
  <2> QED BY <1>5, <2>1
<1>8. Len(p.extents) \in Nat \ {0}
  BY <1>6, <1>7
<1> QED
  BY <1>5, <1>6, <1>8

LEMMA ExtentTypes ==
  ASSUME NEW x \in Seq(ExtentType), NEW k \in 1 .. Len(x)
  PROVE  x[k].off \in Nat /\ x[k].size \in Nat \ {0} /\ End(x, k) \in Nat
         /\ x[k].off < End(x, k)
<1>1. x[k] \in ExtentType
  OBVIOUS
<1>2. x[k].off \in Nat /\ x[k].size \in Nat \ {0}
  BY <1>1 DEF ExtentType
<1> QED
  BY <1>2 DEF End

(* The last extent ends last. *)
LEMMA EndsInOrder ==
  ASSUME NEW x \in Seq(ExtentType), Len(x) > 0, ExtentsInOrder(x),
         NEW k \in 1 .. Len(x)
  PROVE  End(x, k) <= End(x, Len(x))
<1> DEFINE n == Len(x)
           Bad == { d \in Nat : d < n /\ End(x, n - d) > End(x, n) }
<1>1. n \in Nat /\ n > 0 /\ n \in 1 .. n
  OBVIOUS
<1>2. \A m \in 1 .. n : End(x, m) \in Nat /\ x[m].off < End(x, m) /\ x[m].off \in Nat
  BY ExtentTypes
<1>3. \A m \in 1 .. n - 1 : End(x, m) <= x[m + 1].off
  BY DEF ExtentsInOrder, End
<1> HIDE DEF n
<1>4. Bad = {}
  <2> SUFFICES ASSUME Bad # {} PROVE FALSE
    OBVIOUS
  <2>1. PICK d \in Bad : \A y \in Bad : ~(<<y, d>> \in OpToRel(<, Nat))
    BY WFMin, NatLessThanWellFounded
  <2>2. d \in Nat /\ d < n /\ End(x, n - d) > End(x, n)
    OBVIOUS
  <2>3. d # 0
    BY <1>1, <1>2, <2>2
  <2>4. d - 1 \in Nat /\ d - 1 < d /\ n - d \in 1 .. n - 1
        /\ n - (d - 1) = (n - d) + 1 /\ (n - d) + 1 \in 1 .. n /\ n - d \in 1 .. n
    BY <1>1, <2>2, <2>3
  <2>5. <<d - 1, d>> \in OpToRel(<, Nat)
    BY <2>2, <2>4 DEF OpToRel
  <2>6. d - 1 \notin Bad
    BY <2>1, <2>5
  <2>7. End(x, (n - d) + 1) <= End(x, n)
    BY <1>1, <1>2, <2>2, <2>4, <2>6
  <2>8. End(x, n - d) <= x[(n - d) + 1].off
    BY <1>3, <2>4
  <2> QED
    BY <1>1, <1>2, <2>2, <2>4, <2>7, <2>8
<1>5. n - k \in Nat /\ n - k < n /\ n - (n - k) = k
  BY <1>1 DEF n
<1>6. End(x, k) <= End(x, n)
  <2>1. ~(End(x, n - (n - k)) > End(x, n))
    BY <1>4, <1>5
  <2>2. ~(End(x, k) > End(x, n))
    BY <1>5, <2>1
  <2>3. k \in 1 .. n
    BY DEF n
  <2> QED
    BY <1>1, <1>2, <2>2, <2>3
<1> QED
  BY <1>6 DEF n

(* A whole page before the end of the extents is a page of the PEB's log. *)
LEMMA FlushedPage ==
  ASSUME NEW p, p.id \in Nat, p.extents \in Seq(ExtentType),
         Len(p.extents) \in Nat \ {0}, p.extents[1].off < PageSize,
         ExtentsInOrder(p.extents),
         NEW flushed \in Nat, flushed % PageSize = 0,
         flushed < End(p.extents, Len(p.extents)),
         NEW v, v = p.id * PebSize + flushed
  PROVE  /\ v \div PageSize \in Blocks(p)
         /\ \A b \in Nat : v <= b /\ b <= v + PageSize - 1 =>
              b \div PageSize = v \div PageSize
<1> DEFINE x == p.extents
           id == p.id
           n == Len(x)
           f == flushed \div PageSize
           q == id * PebPages + f
<1>1. PageSize \in Nat \ {0} /\ PebPages \in Nat \ {0}
  BY MkfsWriteAssumption
<1>2. f \in Nat /\ flushed = PageSize * f
  <2>1. f \in Nat /\ flushed = PageSize * f + (flushed % PageSize)
    BY <1>1, DivMod
  <2>2. PageSize * f \in Nat
    BY <1>1, <2>1
  <2> HIDE DEF f
  <2> QED
    BY <2>1, <2>2
<1>3. id \in Nat /\ n \in Nat \ {0} /\ 1 \in 1 .. n /\ n \in 1 .. n
  OBVIOUS
<1>4. /\ x[1].off \in Nat /\ x[1].off < End(x, 1) /\ End(x, 1) \in Nat
      /\ End(x, n) \in Nat
  BY <1>3, ExtentTypes
<1>5. End(x, 1) <= End(x, n)
  BY <1>3, EndsInOrder
<1>6. x[1].off < PageSize /\ flushed < End(x, n)
  OBVIOUS
<1>7. \A b \in x[1].off .. End(x, n) - 1 : (id * PebSize + b) \div PageSize \in Blocks(p)
  <2> DEFINE Cells(m) == { (id * PebSize + b) \div PageSize : b \in x[1].off .. m }
  <2>1. Blocks(p) = Cells(x[n].off + x[n].size - 1)
    BY DEF Blocks
  <2>2. x[n].off \in Nat /\ x[n].size \in Nat /\ End(x, n) = x[n].off + x[n].size
    BY <1>3, ExtentTypes DEF End
  <2> HIDE DEF x, id, n, Cells
  <2>3. x[n].off + x[n].size - 1 = End(x, n) - 1
    BY <2>2
  <2>4. Blocks(p) = Cells(End(x, n) - 1)
    BY <2>1, <2>3
  <2> QED
    BY <2>4, Zenon DEF Cells
<1> HIDE DEF x, id, n, f
<1>8. id * PebSize = PageSize * (id * PebPages) /\ id * PebPages \in Nat
  BY <1>1, <1>3 DEF PebSize
<1>9. q \in Nat /\ PageSize * q = id * PebSize + PageSize * f
  BY <1>1, <1>2, <1>3, <1>8
<1> HIDE DEF q
<1>10. v = PageSize * q /\ v \in Nat /\ id * PebSize \in Nat
  <2>1. v = id * PebSize + flushed
    BY DEF id
  <2>2. v = PageSize * q
    BY <1>2, <1>9, <2>1
  <2> QED
    BY <1>1, <1>8, <1>9, <2>2
<1>11. \A b \in Nat : v <= b /\ b <= v + PageSize - 1 => b \div PageSize = q
  <2> SUFFICES ASSUME NEW b \in Nat, v <= b, b <= v + PageSize - 1
               PROVE  b \div PageSize = q
    OBVIOUS
  <2>1. PageSize * q <= b /\ b < PageSize * q + PageSize
    BY <1>1, <1>10
  <2> QED
    BY <1>1, <1>9, <2>1, CellIs
<1>12. v \div PageSize = q
  BY <1>1, <1>9, <1>10, <1>11
<1>13. q \in Blocks(p)
  <2>1. CASE flushed < x[1].off
    <3>1. f = 0
      <4>1. f >= 1 => PageSize * f >= PageSize
        BY <1>1, <1>2
      <4>2. flushed < PageSize
        BY <1>1, <1>4, <1>6, <2>1
      <4> QED
        BY <1>1, <1>2, <4>1, <4>2
    <3>2. flushed = 0
      BY <1>1, <1>2, <3>1
    <3>3. v = id * PebSize
      BY <1>10, <3>2 DEF id
    <3>4. (id * PebSize + x[1].off) \div PageSize = q
      <4>1. id * PebSize + x[1].off \in Nat
        BY <1>4, <1>10
      <4>2. v <= id * PebSize + x[1].off /\ id * PebSize + x[1].off <= v + PageSize - 1
        BY <1>1, <1>4, <1>6, <1>10, <3>3
      <4> QED
        BY <1>11, <4>1, <4>2
    <3>5. x[1].off \in x[1].off .. End(x, n) - 1
      BY <1>4, <1>5
    <3> QED
      BY <1>7, <3>4, <3>5
  <2>2. CASE ~(flushed < x[1].off)
    <3>1. flushed \in x[1].off .. End(x, n) - 1
      BY <1>4, <1>6, <2>2
    <3>2. (id * PebSize + flushed) \div PageSize = q
      BY <1>12 DEF id
    <3> QED
      BY <1>7, <3>1, <3>2
  <2> QED
    BY <2>1, <2>2
<1> QED
  BY <1>11, <1>12, <1>13

-----------------------------------------------------------------------------
(* What is written stays *)

Kept == \A b \in Data : dev'[b] = dev[b]

LEMMA StaysInit ==
  ASSUME Init
  PROVE  StaysInv
<1>1. PageSize \in Nat \ {0}
  BY MkfsWriteAssumption
<1>2. PoolInv
  BY PoolInit
<1>3. WriteTypes
  BY <1>1 DEF Init, WriteTypes
<1>4. Data = {}
  BY DEF Init, Data
<1>5. PebInv /\ DataInv
  BY <1>4 DEF Init, PebInv, DataInv
<1> QED
  BY <1>2, <1>3, <1>5 DEF StaysInv

(* Before the write loop nothing but erased space is put on the device. *)
LEMMA StaysQuiet ==
  ASSUME StaysInv, PoolInv',
         \/ CheckLayout \/ CheckFails \/ EraseStep \/ SpawnStep
         \/ \E t \in Workers : Worker(t)
  PROVE  Kept /\ StaysInv'
<1> USE DEF StaysInv
<1>1. /\ pc \notin {"write", "peb", "done"}
      /\ pc' # "peb"
      /\ pc' \notin {"check", "done"} => pc # "check" \/ Accepted(layout)
      /\ pc' \in {"write", "peb"} => dev' = dev
      /\ layout' = layout /\ cur' = cur /\ buf' = buf /\ out' = out
      /\ dev' = dev \/ \E S : Erase(S)
  <2>1. CASE CheckLayout \/ CheckFails
    BY <2>1 DEF CheckLayout, CheckFails, Return, inputs, writeVars
  <2>2. CASE EraseStep
    <3>1. CASE ChooseErase
      BY <3>1 DEF ChooseErase, inputs, writeVars
    <3>2. CASE AllocPoolFails
      BY <3>2 DEF AllocPoolFails, inputs, writeVars
    <3>3. CASE EraseSegment
      BY <3>3 DEF EraseSegment, inputs, writeVars
    <3>4. CASE EraseSegmentFails \/ SegmentsErased
      BY <3>4 DEF EraseSegmentFails, SegmentsErased, Return, inputs, writeVars
    <3> QED
      BY <2>2, <3>1, <3>2, <3>3, <3>4 DEF EraseStep
  <2>3. CASE SpawnStep
    BY <2>3 DEF SpawnStep, Spawn, SpawnFails, AllSpawned, WaitJoin, AllJoined,
                inputs, writeVars
  <2>4. ASSUME NEW t \in Workers, Worker(t)
        PROVE  /\ pc \in {"spawn", "wait", "crashed"} /\ pc' = pc
               /\ layout' = layout /\ cur' = cur /\ buf' = buf /\ out' = out
               /\ dev' = dev \/ \E S : Erase(S)
    <3>1. thr[t] = "running"
      BY <2>4 DEF Worker, ErasePeb, ErasePebFails, ExitThread, HasWork
    <3>2. pc \in {"spawn", "wait", "crashed"}
      BY <3>1 DEF PoolInv
    <3> QED
      BY <2>4, <3>2
      DEF Worker, ErasePeb, ErasePebFails, ExitThread, inputs, writeVars
  <2> QED
    BY <2>1, <2>2, <2>3, <2>4
<1>2. Data = {}
  BY <1>1 DEF DataInv
<1>3. Data' = {}
  <2>1. CASE dev' = dev
    BY <1>2, <2>1 DEF Data
  <2>2. CASE \E S : Erase(S)
    <3>1. \A b \in Bytes : dev'[b] = Erased \/ dev'[b] = dev[b]
      BY <2>2 DEF Erase
    <3>2. \A b \in Bytes : dev[b] \in {Old, Erased}
      BY <1>2 DEF Data
    <3> QED
      BY <3>1, <3>2 DEF Data
  <2> QED
    BY <1>1, <2>1, <2>2
<1>4. Kept
  BY <1>2 DEF Kept
<1>5. WriteTypes' /\ PebInv'
  BY <1>1 DEF WriteTypes, PebInv
<1>6. Accepted(layout)' = Accepted(layout)
  BY <1>1
<1>7. DataInv'
  BY <1>1, <1>3, <1>6 DEF DataInv
<1> QED
  BY <1>4, <1>5, <1>7

(* The PEB of the write loop: it has passed the layout check. *)
LEMMA CurPebFacts ==
  ASSUME StaysInv, pc = "peb"
  PROVE  /\ <<cur.seg, cur.peb>> \in AllPebs(layout)
         /\ Peb(layout, <<cur.seg, cur.peb>>) = CurPeb
         /\ CurPeb.id \in Nat
         /\ CurPeb.extents \in Seq(ExtentType)
         /\ Len(CurPeb.extents) \in Nat \ {0}
         /\ CurPeb.extents[1].off < PageSize
         /\ ExtentsInOrder(CurPeb.extents)
         /\ \A n \in AllPebs(layout) :
              n # <<cur.seg, cur.peb>> =>
                Blocks(CurPeb) \cap Blocks(Peb(layout, n)) = {}
<1> DEFINE c == <<cur.seg, cur.peb>>
<1>1. layout \in Layouts /\ Accepted(layout)
  BY DEF StaysInv, PoolInv, DataInv
<1>2. cur.seg \in 1 .. Len(layout.segs) /\ cur.peb \in 1 .. Len(layout.segs[cur.seg].pebs)
  BY DEF StaysInv, PebInv
<1>3. layout.segs \in Seq(SegType)
  BY <1>1, MkfsWriteAssumption
<1>4. cur.seg \in DOMAIN layout.segs /\ layout.segs[cur.seg] \in SegType
  BY <1>2, <1>3
<1>5. layout.segs[cur.seg].pebs \in Seq(PebType)
  BY <1>4 DEF SegType
<1>6. cur.peb \in DOMAIN layout.segs[cur.seg].pebs
  BY <1>2, <1>5
<1>7. c \in AllPebs(layout)
  BY <1>4, <1>6 DEF AllPebs
<1>8. Peb(layout, c) = CurPeb
  BY DEF Peb, CurPeb
<1>9. /\ CurPeb.id \in Nat
      /\ CurPeb.extents \in Seq(ExtentType)
      /\ Len(CurPeb.extents) \in Nat \ {0}
      /\ CurPeb.extents[1].off < PageSize
  BY <1>1, <1>2, PebTypes DEF CurPeb
<1>10. /\ ExtentsInOrder(Peb(layout, c).extents)
       /\ \A m \in AllPebs(layout) \ {c} :
            Blocks(Peb(layout, c)) \cap Blocks(Peb(layout, m)) = {}
  BY <1>1, <1>7 DEF Accepted
<1> HIDE DEF c
<1>11. \A n \in AllPebs(layout) : n # c => Blocks(CurPeb) \cap Blocks(Peb(layout, n)) = {}
  BY <1>8, <1>10
<1> QED
  BY <1>7, <1>8, <1>9, <1>10, <1>11 DEF c

(* A page that is flushed before the end of the extents holds no data yet, *)
(* and belongs to the PEB's log.                                           *)
LEMMA FlushKeeps ==
  ASSUME StaysInv, pc = "peb", NEW bytes, FlushBuffer(bytes),
         out.flushed < End(CurPeb.extents, Len(CurPeb.extents))
  PROVE  /\ Kept
         /\ out' = [vol |-> out.vol + PageSize, flushed |-> out.flushed + PageSize]
         /\ \A b \in Data' :
              \E n \in AllPebs(layout) :
                /\ b \div PageSize \in Blocks(Peb(layout, n))
                /\ \/ Before(n)
                   \/ n = <<cur.seg, cur.peb>> /\ b < out.vol + PageSize
<1> DEFINE c == <<cur.seg, cur.peb>>
           v == out.vol
           page == v .. v + PageSize - 1
<1>1. PageSize \in Nat \ {0} /\ Bytes \subseteq Nat
  BY MkfsWriteAssumption DEF Bytes
<1>2. v \in Nat /\ out.flushed \in Nat
  BY DEF StaysInv, WriteTypes
<1>3. out.flushed % PageSize = 0 /\ v = CurPeb.id * PebSize + out.flushed
  BY DEF StaysInv, PebInv
<1>4. /\ v \div PageSize \in Blocks(CurPeb)
      /\ \A b \in Nat : v <= b /\ b <= v + PageSize - 1 => b \div PageSize = v \div PageSize
  BY <1>2, <1>3, CurPebFacts, FlushedPage
<1>5. \A b \in Bytes : b \in page => b \div PageSize \in Blocks(CurPeb)
  <2> HIDE DEF v
  <2>1. \A b \in Bytes : b \in page => b \in Nat /\ v <= b /\ b <= v + PageSize - 1
    BY <1>1, <1>2
  <2> QED
    BY <1>4, <2>1
<1>6. \A b \in Data : Placed(b) /\ b \in Bytes
  BY DEF StaysInv, DataInv, Data
<1>7. /\ c \in AllPebs(layout) /\ Peb(layout, c) = CurPeb
      /\ \A n \in AllPebs(layout) :
           n # c => Blocks(CurPeb) \cap Blocks(Peb(layout, n)) = {}
  BY CurPebFacts
<1>8. ~Before(c)
  <2>1. cur.seg \in Nat /\ cur.peb \in Nat
    BY DEF StaysInv, WriteTypes
  <2>2. c[1] = cur.seg /\ c[2] = cur.peb
    OBVIOUS
  <2> HIDE DEF c
  <2> QED
    BY <2>1, <2>2 DEF Before
<1>9. \A b \in Data : b \notin page
  <2> SUFFICES ASSUME NEW b \in Data, b \in page PROVE FALSE
    OBVIOUS
  <2>1. PICK n \in AllPebs(layout) :
          /\ b \div PageSize \in Blocks(Peb(layout, n))
          /\ Before(n) \/ (n = c /\ b < v)
    BY <1>6 DEF Placed
  <2>2. b \div PageSize \in Blocks(CurPeb)
    BY <1>5, <1>6
  <2>3. n = c
    BY <1>7, <2>1, <2>2
  <2>4. b < v
    BY <1>8, <2>1, <2>3
  <2>5. b \in Nat
    BY <1>1, <1>6
  <2> HIDE DEF v
  <2> QED
    BY <1>1, <1>2, <2>4, <2>5
<1>10. /\ dev' = [b \in Bytes |-> IF b \in page THEN bytes[b - v] ELSE dev[b]]
       /\ out' = [vol |-> v + PageSize, flushed |-> out.flushed + PageSize]
  BY DEF FlushBuffer
<1> HIDE DEF page
<1>11. Kept
  BY <1>6, <1>9, <1>10 DEF Kept
<1>12. \A b \in Data' : b \in Bytes /\ (b \in Data \/ b \in page)
  BY <1>10 DEF Data
<1>13. ASSUME NEW b \in Data'
       PROVE  \E n \in AllPebs(layout) :
                /\ b \div PageSize \in Blocks(Peb(layout, n))
                /\ Before(n) \/ (n = c /\ b < v + PageSize)
  <2>1. b \in Nat
    BY <1>1, <1>12
  <2>2. CASE b \in Data
    <3>1. PICK n \in AllPebs(layout) :
            /\ b \div PageSize \in Blocks(Peb(layout, n))
            /\ Before(n) \/ (n = c /\ b < v)
      BY <1>6, <2>2 DEF Placed
    <3> HIDE DEF v, c
    <3>2. b < v => b < v + PageSize
      BY <1>1, <1>2, <2>1
    <3> QED
      BY <3>1, <3>2
  <2>3. CASE b \in page
    <3>1. b \div PageSize \in Blocks(Peb(layout, c))
      BY <1>5, <1>7, <1>12, <2>3
    <3> HIDE DEF v, c
    <3>2. b < v + PageSize
      BY <1>1, <1>2, <2>1, <2>3 DEF page
    <3> QED
      BY <1>7, <3>1, <3>2
  <2> QED
    BY <1>12, <2>2, <2>3
<1> QED
  BY <1>10, <1>11, <1>13

(* One turn of the copy loop, in numbers: off is where the extent's rest   *)
(* goes, fl the flushed bytes, bo the buffered ones, c the copied ones.    *)
LEMMA CopyArith ==
  ASSUME NEW n \in Nat \ {0}, NEW off \in Nat, NEW left \in Nat, left > 0,
         NEW bo \in 0 .. n - 1, NEW fl \in Nat, fl % n = 0, fl + bo <= off,
         NEW at, at = off % n, NEW c,
         at < bo => c = 0,
         ~(at < bo) /\ left < n - at => c = left,
         ~(at < bo) /\ ~(left < n - at) => c = n - at
  PROVE  /\ at \in 0 .. n - 1 /\ c \in 0 .. left
         /\ at < bo \/ at + c = n => fl + n <= off + c
         /\ ~(at < bo \/ at + c = n) => /\ at + c \in 0 .. n - 1
                                        /\ fl + (at + c) <= off + c
<1> DEFINE k == off \div n
           f == fl \div n
<1>1. k \in Nat /\ at \in 0 .. n - 1 /\ off = n * k + at
  BY DivMod
<1>2. f \in Nat /\ fl = n * f
  <2>1. f \in Nat /\ fl = n * f + (fl % n)
    BY DivMod
  <2>2. n * f \in Nat
    BY <2>1
  <2> HIDE DEF f
  <2> QED
    BY <2>1, <2>2
<1> HIDE DEF k, f
<1>3. n * k \in Nat /\ n * f \in Nat
  BY <1>1, <1>2
<1>4. /\ f >= k + 1 => n * f >= n * k + n
      /\ k >= f + 1 => n * k >= n * f + n
      /\ f = k => n * f = n * k
  BY <1>1, <1>2
<1>5. c \in 0 .. left /\ c <= n - at
  BY <1>1
<1>6. k >= f
  BY <1>1, <1>2, <1>3, <1>4
<1>7. n * k >= n * f
  BY <1>1, <1>2, <1>3, <1>4, <1>6
<1>8. at < bo => k >= f + 1
  <2>1. k = f => n * k = n * f
    OBVIOUS
  <2> QED
    BY <1>1, <1>2, <1>3, <1>6, <2>1
<1>9. at < bo => fl + n <= off + c
  BY <1>1, <1>2, <1>3, <1>4, <1>5, <1>8
<1>10. at + c = n => fl + n <= off + c
  BY <1>1, <1>2, <1>3, <1>5, <1>7
<1>11. ~(at < bo \/ at + c = n) => at + c \in 0 .. n - 1 /\ fl + (at + c) <= off + c
  BY <1>1, <1>2, <1>3, <1>5, <1>7
<1> QED
  BY <1>1, <1>5, <1>9, <1>10, <1>11

(* While the same PEB is written, what was placed stays placed. *)
LEMMA SamePebPlaced ==
  ASSUME layout' = layout, pc' = "peb", cur'.seg = cur.seg, cur'.peb = cur.peb,
         NEW top, out'.vol = top,
         \A b \in Data' :
           \E n \in AllPebs(layout) :
             /\ b \div PageSize \in Blocks(Peb(layout, n))
             /\ Before(n) \/ (n = <<cur.seg, cur.peb>> /\ b < top)
  PROVE  \A b \in Data' : Placed(b)'
<1>1. \A n : Before(n) => Before(n)'
  BY DEF Before
<1>2. ASSUME NEW b \in Data' PROVE Placed(b)'
  <2>1. PICK n \in AllPebs(layout) :
          /\ b \div PageSize \in Blocks(Peb(layout, n))
          /\ Before(n) \/ (n = <<cur.seg, cur.peb>> /\ b < top)
    OBVIOUS
  <2>2. n \in AllPebs(layout)' /\ b \div PageSize \in Blocks(Peb(layout, n))'
    BY <2>1
  <2>3. Before(n)' \/ (pc' = "peb" /\ n = <<cur'.seg, cur'.peb>> /\ b < out'.vol)
    BY <1>1, <2>1
  <2> QED
    BY <2>2, <2>3 DEF Placed
<1> QED
  BY <1>2

(* The numbers of the write loop. *)
LEMMA LoopTypes ==
  ASSUME StaysInv, pc = "peb"
  PROVE  /\ PageSize \in Nat \ {0}
         /\ cur.seg \in Nat \ {0} /\ cur.peb \in Nat \ {0} /\ cur.ext \in Nat
         /\ cur.off \in Nat /\ cur.left \in Nat
         /\ buf.off \in 0 .. PageSize - 1
         /\ out.vol \in Nat /\ out.flushed \in Nat
         /\ \A k \in 1 .. Len(CurPeb.extents) :
              /\ End(CurPeb.extents, k) \in Nat
              /\ End(CurPeb.extents, k) <= End(CurPeb.extents, Len(CurPeb.extents))
<1>1. PageSize \in Nat \ {0}
  BY MkfsWriteAssumption
<1>2. /\ cur.seg \in Nat \ {0} /\ cur.peb \in Nat \ {0} /\ cur.ext \in Nat
      /\ cur.off \in Nat /\ cur.left \in Nat
      /\ buf.off \in 0 .. PageSize - 1
      /\ out.vol \in Nat /\ out.flushed \in Nat
  BY DEF StaysInv, WriteTypes
<1>3. /\ CurPeb.extents \in Seq(ExtentType) /\ Len(CurPeb.extents) \in Nat \ {0}
      /\ ExtentsInOrder(CurPeb.extents)
  BY CurPebFacts
<1>4. Len(CurPeb.extents) > 0
  BY <1>3
<1>5. \A k \in 1 .. Len(CurPeb.extents) :
        /\ End(CurPeb.extents, k) \in Nat
        /\ End(CurPeb.extents, k) <= End(CurPeb.extents, Len(CurPeb.extents))
  BY <1>3, <1>4, ExtentTypes, EndsInOrder
<1> QED
  BY <1>1, <1>2, <1>5

LEMMA StaysCopy ==
  ASSUME StaysInv, PoolInv', CopyBytes
  PROVE  Kept /\ StaysInv'
<1> DEFINE x == CurPeb.extents
           c == Copied
           at == At
<1>1. pc = "peb" /\ pc' = "peb" /\ cur.left > 0 /\ layout' = layout
  BY DEF CopyBytes, inputs
<1>2. /\ PageSize \in Nat \ {0}
      /\ cur.seg \in Nat \ {0} /\ cur.peb \in Nat \ {0} /\ cur.ext \in Nat
      /\ cur.off \in Nat /\ cur.left \in Nat
      /\ buf.off \in 0 .. PageSize - 1
      /\ out.vol \in Nat /\ out.flushed \in Nat
      /\ \A k \in 1 .. Len(x) : End(x, k) \in Nat /\ End(x, k) <= End(x, Len(x))
  BY <1>1, LoopTypes
<1>3. /\ cur.seg \in 1 .. Len(layout.segs)
      /\ cur.peb \in 1 .. Len(layout.segs[cur.seg].pebs)
      /\ cur.ext \in 0 .. Len(x)
      /\ out.flushed % PageSize = 0
      /\ out.vol = CurPeb.id * PebSize + out.flushed
      /\ cur.ext = 0 => cur.left = 0 /\ cur.off = 0
      /\ cur.ext > 0 => cur.off + cur.left = End(x, cur.ext)
      /\ \/ out.flushed + buf.off <= cur.off
         \/ cur.ext = Len(x) /\ cur.left = 0 /\ buf.off = 0 /\ cur.off <= out.flushed
  BY <1>1 DEF StaysInv, PebInv
<1>4. Len(x) \in Nat \ {0} /\ CurPeb.id \in Nat
  BY <1>1, CurPebFacts
<1>5. out.flushed + buf.off <= cur.off /\ cur.ext > 0 /\ cur.ext \in 1 .. Len(x)
  BY <1>1, <1>2, <1>3, <1>4
<1>6. cur.off + cur.left = End(x, cur.ext)
  BY <1>3, <1>5
<1>7. at = cur.off % PageSize
  BY DEF At
<1>8. /\ at < buf.off => c = 0
      /\ ~(at < buf.off) /\ cur.left < PageSize - at => c = cur.left
      /\ ~(at < buf.off) /\ ~(cur.left < PageSize - at) => c = PageSize - at
  BY DEF Copied
<1>9. MustFlush <=> (at < buf.off \/ at + c = PageSize)
  BY DEF MustFlush
<1>10. cur' = [cur EXCEPT !.off = @ + c, !.left = @ - c]
  BY DEF CopyBytes
<1> HIDE DEF x, c, at
<1>11. /\ at \in 0 .. PageSize - 1 /\ c \in 0 .. cur.left
       /\ MustFlush => out.flushed + PageSize <= cur.off + c
       /\ ~MustFlush => /\ at + c \in 0 .. PageSize - 1
                        /\ out.flushed + (at + c) <= cur.off + c
  <2> DEFINE off == cur.off
             left == cur.left
             bo == buf.off
             fl == out.flushed
  <2>1. /\ PageSize \in Nat \ {0} /\ off \in Nat /\ left \in Nat /\ left > 0
        /\ bo \in 0 .. PageSize - 1 /\ fl \in Nat /\ fl % PageSize = 0
        /\ fl + bo <= off
    BY <1>1, <1>2, <1>3, <1>5
  <2>2. at = off % PageSize
    BY <1>7
  <2>3. /\ at < bo => c = 0
        /\ ~(at < bo) /\ left < PageSize - at => c = left
        /\ ~(at < bo) /\ ~(left < PageSize - at) => c = PageSize - at
    BY <1>8
  <2>4. MustFlush <=> (at < bo \/ at + c = PageSize)
    BY <1>9
  <2> HIDE DEF off, left, bo, fl
  <2>5. /\ at \in 0 .. PageSize - 1 /\ c \in 0 .. left
        /\ at < bo \/ at + c = PageSize => fl + PageSize <= off + c
        /\ ~(at < bo \/ at + c = PageSize) =>
             at + c \in 0 .. PageSize - 1 /\ fl + (at + c) <= off + c
    BY <2>1, <2>2, <2>3, CopyArith, ZenonT(60)
  <2>6. /\ at \in 0 .. PageSize - 1 /\ c \in 0 .. left
        /\ MustFlush => fl + PageSize <= off + c
        /\ ~MustFlush => at + c \in 0 .. PageSize - 1 /\ fl + (at + c) <= off + c
    BY <2>4, <2>5
  <2> QED
    BY <2>6 DEF off, left, bo, fl
<1>12. cur.off + c \in Nat /\ cur.left - c \in Nat
       /\ (cur.off + c) + (cur.left - c) = cur.off + cur.left
  BY <1>2, <1>11
<1>13. /\ cur' \in [seg : Nat \ {0}, peb : Nat \ {0}, ext : Nat, off : Nat, left : Nat]
       /\ cur'.seg = cur.seg /\ cur'.peb = cur.peb /\ cur'.ext = cur.ext
       /\ cur'.off = cur.off + c /\ cur'.left = cur.left - c
  <2>1. cur \in [seg : Nat \ {0}, peb : Nat \ {0}, ext : Nat, off : Nat, left : Nat]
    BY DEF StaysInv, WriteTypes
  <2> QED
    BY <1>10, <1>12, <2>1
<1>14. CurPeb' = CurPeb /\ Accepted(layout)' /\ x' = x
  BY <1>1, <1>13 DEF CurPeb, StaysInv, DataInv, x
<1>15. out.flushed < End(x, Len(x))
  <2>1. out.flushed < End(x, cur.ext)
    <3>1. \A fl, bo, off, left \in Nat : fl + bo <= off /\ left > 0 => fl < off + left
      OBVIOUS
    <3>2. buf.off \in Nat
      BY <1>2
    <3>3. out.flushed < cur.off + cur.left
      BY <1>1, <1>2, <1>5, <3>1, <3>2
    <3> QED
      BY <1>6, <3>3
  <2>2. End(x, cur.ext) \in Nat /\ End(x, Len(x)) \in Nat /\ End(x, cur.ext) <= End(x, Len(x))
    BY <1>2, <1>4, <1>5
  <2> QED
    BY <1>2, <2>1, <2>2
<1>16. CASE MustFlush
  <2>1. FlushBuffer(Filled)
    BY <1>16 DEF CopyBytes
  <2>2. buf' = [bytes |-> EmptyBuf, off |-> 0]
    BY <2>1 DEF FlushBuffer
  <2>3. /\ Kept
        /\ out' = [vol |-> out.vol + PageSize, flushed |-> out.flushed + PageSize]
        /\ \A b \in Data' :
             \E n \in AllPebs(layout) :
               /\ b \div PageSize \in Blocks(Peb(layout, n))
               /\ \/ Before(n)
                  \/ n = <<cur.seg, cur.peb>> /\ b < out.vol + PageSize
    BY <1>1, <1>15, <2>1, FlushKeeps DEF x
  <2>4. out'.vol = out.vol + PageSize /\ out'.flushed = out.flushed + PageSize
        /\ buf'.off = 0
    BY <2>2, <2>3
  <2>5. out'.vol \in Nat /\ out'.flushed \in Nat /\ 0 \in 0 .. PageSize - 1
    BY <1>2, <2>4
  <2>6. WriteTypes'
    BY <1>13, <2>2, <2>3, <2>4, <2>5 DEF WriteTypes
  <2>7. out'.flushed % PageSize = 0
    <3>1. (out.flushed + PageSize) % PageSize = 0
      BY <1>2, <1>3, MultipleNext
    <3> QED
      BY <2>4, <3>1
  <2>8. out'.vol = CurPeb.id * PebSize + out'.flushed
    <3>1. CurPeb.id * PebSize \in Nat
      BY <1>4, MkfsWriteAssumption DEF PebSize
    <3> QED
      BY <1>2, <1>3, <2>4, <3>1
  <2>9. out'.flushed + 0 <= cur'.off
    BY <1>2, <1>11, <1>13, <1>16, <2>4
  <2>10. cur'.off + cur'.left = End(x, cur'.ext)
    BY <1>6, <1>12, <1>13
  <2>11. PebInv'
    BY <1>1, <1>3, <1>5, <1>13, <1>14, <2>4, <2>7, <2>8, <2>9, <2>10 DEF PebInv, x
  <2>12. \A b \in Data' : Placed(b)'
    BY <1>1, <1>13, <2>3, <2>4, SamePebPlaced
  <2>13. DataInv'
    BY <1>1, <1>14, <2>12 DEF DataInv
  <2> QED
    BY <2>3, <2>6, <2>11, <2>13 DEF StaysInv
<1>17. CASE ~MustFlush
  <2>1. dev' = dev /\ out' = out /\ buf' = [bytes |-> Filled, off |-> at + c]
    BY <1>17 DEF CopyBytes, at, c
  <2>2. buf'.off = at + c /\ at + c \in 0 .. PageSize - 1
    BY <1>11, <1>17, <2>1
  <2>3. WriteTypes'
    BY <1>13, <2>1, <2>2 DEF WriteTypes, StaysInv
  <2>4. out'.flushed + buf'.off <= cur'.off
    BY <1>11, <1>13, <1>17, <2>1, <2>2
  <2>5. cur'.off + cur'.left = End(x, cur'.ext)
    BY <1>6, <1>12, <1>13
  <2>6. PebInv'
    BY <1>1, <1>3, <1>5, <1>13, <1>14, <2>1, <2>4, <2>5 DEF PebInv, x
  <2>7. \A b \in Data' : Placed(b)'
    <3>1. \A b \in Data' : Placed(b)
      BY <1>1, <2>1 DEF StaysInv, DataInv, Data
    <3>2. out'.vol = out.vol
      BY <2>1
    <3> QED
      BY <1>1, <1>13, <3>1, <3>2, SamePebPlaced DEF Placed
  <2>8. DataInv'
    BY <1>1, <1>14, <2>7 DEF DataInv
  <2>9. Kept
    BY <2>1 DEF Kept
  <2> QED
    BY <2>3, <2>6, <2>8, <2>9 DEF StaysInv
<1> QED
  BY <1>16, <1>17

(* The rest of the buffer: the padded last page of the PEB's log. *)
LEMMA StaysFlushRest ==
  ASSUME StaysInv, PoolInv', FlushRest
  PROVE  Kept /\ StaysInv'
<1> DEFINE x == CurPeb.extents
<1>1. /\ pc = "peb" /\ pc' = "peb" /\ cur' = cur /\ layout' = layout
      /\ cur.left = 0 /\ cur.ext = Len(x)
      /\ cur.off > out.flushed /\ cur.off - out.flushed <= PageSize
      /\ FlushBuffer(buf.bytes)
  BY DEF FlushRest, PebCopied, inputs
<1>2. /\ PageSize \in Nat \ {0}
      /\ cur.off \in Nat /\ cur.left \in Nat
      /\ out.vol \in Nat /\ out.flushed \in Nat
      /\ \A k \in 1 .. Len(x) : End(x, k) \in Nat /\ End(x, k) <= End(x, Len(x))
  BY <1>1, LoopTypes
<1>3. /\ cur.seg \in 1 .. Len(layout.segs)
      /\ cur.peb \in 1 .. Len(layout.segs[cur.seg].pebs)
      /\ cur.ext \in 0 .. Len(x)
      /\ out.flushed % PageSize = 0
      /\ out.vol = CurPeb.id * PebSize + out.flushed
      /\ cur.ext > 0 => cur.off + cur.left = End(x, cur.ext)
  BY <1>1 DEF StaysInv, PebInv
<1>4. Len(x) \in Nat \ {0} /\ CurPeb.id \in Nat
  BY <1>1, CurPebFacts
<1> HIDE DEF x
<1>5. cur.off + cur.left = End(x, cur.ext)
  BY <1>1, <1>3, <1>4
<1>6. out.flushed < End(x, Len(x))
  <2>1. cur.off + 0 = End(x, Len(x))
    BY <1>1, <1>5
  <2> QED
    BY <1>1, <1>2, <2>1
<1>7. /\ Kept
      /\ out' = [vol |-> out.vol + PageSize, flushed |-> out.flushed + PageSize]
      /\ \A b \in Data' :
           \E n \in AllPebs(layout) :
             /\ b \div PageSize \in Blocks(Peb(layout, n))
             /\ \/ Before(n)
                \/ n = <<cur.seg, cur.peb>> /\ b < out.vol + PageSize
  BY <1>1, <1>6, FlushKeeps DEF x
<1>8. buf' = [bytes |-> EmptyBuf, off |-> 0] /\ buf'.off = 0
  BY <1>1 DEF FlushBuffer
<1>9. out'.vol = out.vol + PageSize /\ out'.flushed = out.flushed + PageSize
  BY <1>7
<1>10. out'.vol \in Nat /\ out'.flushed \in Nat /\ 0 \in 0 .. PageSize - 1
  BY <1>2, <1>9
<1>11. WriteTypes'
  BY <1>1, <1>7, <1>8, <1>9, <1>10 DEF WriteTypes, StaysInv
<1>12. out'.flushed % PageSize = 0
  <2>1. (out.flushed + PageSize) % PageSize = 0
    BY <1>2, <1>3, MultipleNext
  <2> QED
    BY <1>9, <2>1
<1>13. out'.vol = CurPeb.id * PebSize + out'.flushed
  <2>1. CurPeb.id * PebSize \in Nat
    BY <1>4, MkfsWriteAssumption DEF PebSize
  <2> QED
    BY <1>2, <1>3, <1>9, <2>1
<1>14. cur'.off <= out'.flushed
  BY <1>1, <1>2, <1>9
<1>15. CurPeb' = CurPeb /\ Accepted(layout)' /\ x' = x
  BY <1>1 DEF CurPeb, StaysInv, DataInv, x
<1>16. PebInv'
  BY <1>1, <1>3, <1>4, <1>5, <1>8, <1>12, <1>13, <1>14, <1>15 DEF PebInv, x
<1>17. \A b \in Data' : Placed(b)'
  BY <1>1, <1>7, <1>9, SamePebPlaced
<1>18. DataInv'
  BY <1>1, <1>15, <1>17 DEF DataInv
<1> QED
  BY <1>7, <1>11, <1>16, <1>18 DEF StaysInv

LEMMA StaysNextExtent ==
  ASSUME StaysInv, PoolInv', NextExtent
  PROVE  Kept /\ StaysInv'
<1> DEFINE x == CurPeb.extents
           k == cur.ext + 1
<1>1. /\ pc = "peb" /\ pc' = "peb" /\ layout' = layout /\ dev' = dev
      /\ buf' = buf /\ out' = out
      /\ cur.left = 0 /\ cur.ext < Len(x)
      /\ x[k].off >= cur.off
      /\ cur' = [cur EXCEPT !.ext = @ + 1, !.off = x[k].off, !.left = x[k].size]
  BY DEF NextExtent, inputs
<1>2. /\ PageSize \in Nat \ {0}
      /\ cur.off \in Nat /\ cur.left \in Nat /\ cur.ext \in Nat
      /\ buf.off \in 0 .. PageSize - 1 /\ out.flushed \in Nat
  BY <1>1, LoopTypes
<1>3. /\ cur.seg \in 1 .. Len(layout.segs)
      /\ cur.peb \in 1 .. Len(layout.segs[cur.seg].pebs)
      /\ cur.ext \in 0 .. Len(x)
      /\ out.flushed % PageSize = 0
      /\ out.vol = CurPeb.id * PebSize + out.flushed
      /\ \/ out.flushed + buf.off <= cur.off
         \/ cur.ext = Len(x)
  BY <1>1 DEF StaysInv, PebInv
<1>4. Len(x) \in Nat \ {0} /\ x \in Seq(ExtentType)
  BY <1>1, CurPebFacts
<1>5. k \in 1 .. Len(x) /\ k \in Nat /\ k > 0
  BY <1>1, <1>2, <1>4
<1>6. x[k].off \in Nat /\ x[k].size \in Nat
  BY <1>4, <1>5, ExtentTypes
<1>7. /\ cur' \in [seg : Nat \ {0}, peb : Nat \ {0}, ext : Nat, off : Nat, left : Nat]
      /\ cur'.seg = cur.seg /\ cur'.peb = cur.peb /\ cur'.ext = k
      /\ cur'.off = x[k].off /\ cur'.left = x[k].size
  <2>1. cur \in [seg : Nat \ {0}, peb : Nat \ {0}, ext : Nat, off : Nat, left : Nat]
    BY DEF StaysInv, WriteTypes
  <2> QED
    BY <1>1, <1>5, <1>6, <2>1
<1>8. CurPeb' = CurPeb /\ Accepted(layout)'
  BY <1>1, <1>7 DEF CurPeb, StaysInv, DataInv
<1> HIDE DEF x, k
<1>9. out.flushed + buf.off <= cur'.off
  <2>1. \A fl, bo, a, b \in Nat : fl + bo <= a /\ b >= a => fl + bo <= b
    OBVIOUS
  <2>2. buf.off \in Nat /\ ~(cur.ext = Len(x))
    BY <1>1, <1>2, <1>4
  <2> QED
    BY <1>1, <1>2, <1>3, <1>6, <1>7, <2>1, <2>2
<1>10. WriteTypes'
  BY <1>1, <1>7 DEF WriteTypes, StaysInv
<1>11. cur'.off + cur'.left = End(x, cur'.ext)
  BY <1>7 DEF End
<1>12. cur'.ext # 0 /\ cur'.ext \in 0 .. Len(x)
  BY <1>5, <1>7
<1>13. PebInv'
  BY <1>1, <1>3, <1>7, <1>8, <1>9, <1>11, <1>12 DEF PebInv, x
<1>14. \A b \in Data' : Placed(b)'
  <2>1. \A b \in Data' : Placed(b)
    BY <1>1 DEF StaysInv, DataInv, Data
  <2>2. out'.vol = out.vol
    BY <1>1
  <2> QED
    BY <1>1, <1>7, <2>1, <2>2, SamePebPlaced DEF Placed
<1>15. DataInv'
  BY <1>1, <1>8, <1>14 DEF DataInv
<1>16. Kept
  BY <1>1 DEF Kept
<1> QED
  BY <1>10, <1>13, <1>15, <1>16 DEF StaysInv

LEMMA StaysStartPeb ==
  ASSUME StaysInv, PoolInv', StartPeb
  PROVE  Kept /\ StaysInv'
<1>1. /\ pc = "write" /\ layout' = layout /\ dev' = dev
      /\ cur.seg <= Len(layout.segs)
  BY DEF StartPeb, inputs
<1>2. /\ cur \in [seg : Nat \ {0}, peb : Nat \ {0}, ext : Nat, off : Nat, left : Nat]
      /\ cur.seg \in Nat \ {0} /\ cur.peb \in Nat \ {0}
      /\ PageSize \in Nat \ {0} /\ PebSize \in Nat
  BY MkfsWriteAssumption DEF StaysInv, WriteTypes, PebSize
<1>3. Kept /\ Accepted(layout)' /\ Data' = Data
  BY <1>1 DEF Kept, StaysInv, DataInv, Data
<1>4. buf.off = 0 /\ \A b \in Data : Placed(b)
  BY <1>1 DEF StaysInv, DataInv
<1>5. layout \in Layouts /\ layout.segs \in Seq(SegType)
  BY MkfsWriteAssumption DEF StaysInv, PoolInv
<1>6. Len(layout.segs) \in Nat /\ cur.seg \in 1 .. Len(layout.segs)
  BY <1>1, <1>2, <1>5
<1>7. layout.segs[cur.seg].pebs \in Seq(PebType)
  <2>1. layout.segs[cur.seg] \in SegType
    BY <1>5, <1>6
  <2> QED
    BY <2>1 DEF SegType
<1>8. Len(layout.segs[cur.seg].pebs) \in Nat
  BY <1>7
<1>9. CASE cur.peb > Len(layout.segs[cur.seg].pebs)
  <2>1. cur' = [cur EXCEPT !.seg = @ + 1, !.peb = 1] /\ pc' = pc /\ buf' = buf /\ out' = out
    BY <1>9 DEF StartPeb
  <2>2. cur.seg + 1 \in Nat \ {0} /\ 1 \in Nat \ {0}
    BY <1>2
  <2>3. /\ cur' \in [seg : Nat \ {0}, peb : Nat \ {0}, ext : Nat, off : Nat, left : Nat]
        /\ cur'.seg = cur.seg + 1
    BY <1>2, <2>1, <2>2
  <2>4. ASSUME NEW n \in AllPebs(layout), Before(n)
        PROVE  Before(n)'
    <3>1. n[1] \in Nat
      <4>1. PICK s \in DOMAIN layout.segs : \E j : n = <<s, j>>
        BY DEF AllPebs
      <4>2. s \in Nat
        BY <1>5
      <4> QED
        BY <4>1, <4>2
    <3>2. n[1] < cur.seg \/ n[1] = cur.seg
      BY <2>4 DEF Before
    <3>3. n[1] < cur'.seg
      BY <1>2, <2>3, <3>1, <3>2
    <3> QED
      BY <3>3 DEF Before
  <2>5. \A b \in Data' : Placed(b)'
    <3> SUFFICES ASSUME NEW b \in Data PROVE Placed(b)'
      BY <1>3
    <3>1. PICK n \in AllPebs(layout) :
            b \div PageSize \in Blocks(Peb(layout, n)) /\ Before(n)
      BY <1>1, <1>4 DEF Placed
    <3>2. Before(n)'
      BY <2>4, <3>1
    <3>3. n \in AllPebs(layout)' /\ b \div PageSize \in Blocks(Peb(layout, n))'
      BY <1>1, <3>1
    <3> QED
      BY <3>2, <3>3 DEF Placed
  <2>6. WriteTypes'
    BY <2>1, <2>3 DEF WriteTypes, StaysInv
  <2>7. PebInv' /\ DataInv'
    BY <1>1, <1>3, <1>4, <2>1, <2>5 DEF PebInv, DataInv
  <2> QED
    BY <1>3, <2>6, <2>7 DEF StaysInv
<1>10. CASE ~(cur.peb > Len(layout.segs[cur.seg].pebs))
  <2>1. /\ cur' = [cur EXCEPT !.ext = 0, !.off = 0, !.left = 0]
        /\ buf' = [buf EXCEPT !.bytes = EmptyBuf]
        /\ out' = [vol |-> CurPeb.id * PebSize, flushed |-> 0]
        /\ pc' = "peb"
    BY <1>10 DEF StartPeb
  <2>2. cur.peb \in 1 .. Len(layout.segs[cur.seg].pebs)
    BY <1>2, <1>8, <1>10
  <2>3. CurPeb.id \in Nat /\ Len(CurPeb.extents) \in Nat
    BY <1>5, <1>6, <2>2, PebTypes DEF CurPeb
  <2>4. CurPeb.id * PebSize \in Nat /\ CurPeb.id * PebSize + 0 = CurPeb.id * PebSize
    BY <1>2, <2>3
  <2>5. /\ cur' \in [seg : Nat \ {0}, peb : Nat \ {0}, ext : Nat, off : Nat, left : Nat]
        /\ cur'.seg = cur.seg /\ cur'.peb = cur.peb
        /\ cur'.ext = 0 /\ cur'.off = 0 /\ cur'.left = 0
    BY <1>2, <2>1
  <2>6. buf = [bytes |-> buf.bytes, off |-> buf.off]
    BY DEF StaysInv, WriteTypes
  <2>7. buf'.off = 0 /\ buf' = [bytes |-> buf'.bytes, off |-> buf'.off]
    BY <1>4, <2>1, <2>6
  <2>8. out'.vol = CurPeb.id * PebSize /\ out'.flushed = 0
        /\ out' \in [vol : Nat, flushed : Nat] /\ 0 \in 0 .. PageSize - 1
    BY <1>2, <2>1, <2>4
  <2>9. WriteTypes'
    BY <2>5, <2>7, <2>8 DEF WriteTypes
  <2>10. CurPeb' = CurPeb
    BY <1>1, <2>5 DEF CurPeb
  <2>11. 0 % PageSize = 0 /\ 0 \in 0 .. Len(CurPeb.extents) /\ 0 + 0 <= 0
    BY <1>2, <2>3
  <2>12. PebInv'
    BY <1>1, <1>6, <2>1, <2>2, <2>4, <2>5, <2>7, <2>8, <2>10, <2>11 DEF PebInv
  <2>13. \A b \in Data' : Placed(b)'
    <3> SUFFICES ASSUME NEW b \in Data PROVE Placed(b)'
      BY <1>3
    <3>1. PICK n \in AllPebs(layout) :
            b \div PageSize \in Blocks(Peb(layout, n)) /\ Before(n)
      BY <1>1, <1>4 DEF Placed
    <3>2. Before(n)'
      BY <2>5, <3>1 DEF Before
    <3>3. n \in AllPebs(layout)' /\ b \div PageSize \in Blocks(Peb(layout, n))'
      BY <1>1, <3>1
    <3> QED
      BY <3>2, <3>3 DEF Placed
  <2>14. DataInv'
    BY <1>3, <2>1, <2>13 DEF DataInv
  <2> QED
    BY <1>3, <2>9, <2>12, <2>14 DEF StaysInv
<1> QED
  BY <1>9, <1>10

LEMMA StaysFinishPeb ==
  ASSUME StaysInv, PoolInv', FinishPeb
  PROVE  Kept /\ StaysInv'
<1>1. /\ pc = "peb" /\ pc' = "write" /\ layout' = layout /\ dev' = dev
      /\ buf' = buf /\ out' = out /\ cur' = [cur EXCEPT !.peb = @ + 1]
      /\ cur.off <= out.flushed
  BY DEF FinishPeb, PebCopied, inputs
<1>2. /\ cur.peb \in Nat \ {0} /\ cur.seg \in Nat /\ cur.off \in Nat
      /\ buf.off \in 0 .. PageSize - 1 /\ out.flushed \in Nat /\ PageSize \in Nat
  BY <1>1, LoopTypes
<1>3. out.flushed + buf.off <= cur.off \/ buf.off = 0
  BY <1>1 DEF StaysInv, PebInv
<1>4. buf.off = 0
  <2>1. \A fl, bo, off \in Nat : fl + bo <= off /\ off <= fl => bo = 0
    OBVIOUS
  <2>2. buf.off \in Nat
    BY <1>2
  <2> QED
    BY <1>1, <1>2, <1>3, <2>1, <2>2
<1>5. /\ cur' \in [seg : Nat \ {0}, peb : Nat \ {0}, ext : Nat, off : Nat, left : Nat]
      /\ cur'.seg = cur.seg /\ cur'.peb = cur.peb + 1
  <2>1. cur \in [seg : Nat \ {0}, peb : Nat \ {0}, ext : Nat, off : Nat, left : Nat]
    BY DEF StaysInv, WriteTypes
  <2>2. cur.peb + 1 \in Nat \ {0}
    BY <1>2
  <2> QED
    BY <1>1, <2>1, <2>2
<1>6. Kept /\ Accepted(layout)' /\ Data' = Data
  BY <1>1 DEF Kept, StaysInv, DataInv, Data
<1>7. ASSUME NEW n \in AllPebs(layout), Before(n) \/ n = <<cur.seg, cur.peb>>
      PROVE  Before(n)'
  <2>1. CASE n = <<cur.seg, cur.peb>>
    <3>1. n[1] = cur.seg /\ n[2] = cur.peb
      BY <2>1
    <3>2. cur.peb < cur'.peb
      BY <1>2, <1>5
    <3> QED
      BY <1>5, <3>1, <3>2 DEF Before
  <2>2. CASE n[1] < cur.seg
    BY <1>5, <2>2 DEF Before
  <2>3. CASE n[1] = cur.seg /\ n[2] < cur.peb
    <3>1. n[2] \in Int
      <4>0. PICK s \in DOMAIN layout.segs :
              \E j \in DOMAIN layout.segs[s].pebs : n = <<s, j>>
        BY DEF AllPebs
      <4>1. PICK j \in DOMAIN layout.segs[s].pebs : n = <<s, j>>
        BY <4>0
      <4>2. layout.segs \in Seq(SegType)
        BY MkfsWriteAssumption DEF StaysInv, PoolInv
      <4>3. layout.segs[s] \in SegType
        BY <4>2
      <4>4. layout.segs[s].pebs \in Seq(PebType)
        BY <4>3 DEF SegType
      <4>5. j \in Nat
        BY <4>4
      <4> QED
        BY <4>1, <4>5
    <3>2. n[2] < cur'.peb
      BY <1>2, <1>5, <2>3, <3>1
    <3> QED
      BY <1>5, <2>3, <3>2 DEF Before
  <2> QED
    BY <1>7, <2>1, <2>2, <2>3 DEF Before
<1>8. \A b \in Data' : Placed(b)'
  <2> SUFFICES ASSUME NEW b \in Data PROVE Placed(b)'
    BY <1>6
  <2>1. PICK n \in AllPebs(layout) :
          /\ b \div PageSize \in Blocks(Peb(layout, n))
          /\ Before(n) \/ n = <<cur.seg, cur.peb>>
    BY <1>1 DEF StaysInv, DataInv, Placed
  <2>2. Before(n)'
    BY <1>7, <2>1
  <2>3. n \in AllPebs(layout)' /\ b \div PageSize \in Blocks(Peb(layout, n))'
    BY <1>1, <2>1
  <2> QED
    BY <2>2, <2>3 DEF Placed
<1>9. WriteTypes' /\ PebInv'
  BY <1>1, <1>5 DEF WriteTypes, StaysInv, PebInv
<1>10. DataInv'
  BY <1>1, <1>4, <1>6, <1>8 DEF DataInv
<1> QED
  BY <1>6, <1>9, <1>10 DEF StaysInv

(* Every step keeps what is on the device, and the invariant. *)
LEMMA StaysNext ==
  ASSUME StaysInv, [Next]_vars
  PROVE  Kept /\ StaysInv'
<1>1. PoolInv'
  BY PoolNext DEF StaysInv
<1>2. CASE UNCHANGED vars
  <2>1. /\ dev' = dev /\ pc' = pc /\ cur' = cur /\ buf' = buf /\ out' = out
        /\ layout' = layout
    BY <1>2 DEF vars, inputs, writeVars
  <2>2. WriteTypes'
    BY <2>1 DEF WriteTypes, StaysInv
  <2>3. PebInv'
    BY <2>1 DEF PebInv, StaysInv, CurPeb
  <2>4. Data' = Data /\ Accepted(layout)' = Accepted(layout) /\ Kept
    BY <2>1 DEF Data, Kept
  <2>5. \A b : Placed(b)' = Placed(b)
    BY <2>1 DEF Placed, Before
  <2>6. DataInv'
    BY <2>1, <2>4, <2>5 DEF DataInv, StaysInv
  <2> QED
    BY <1>1, <2>2, <2>3, <2>4, <2>6 DEF StaysInv
<1>3. CASE \/ CheckLayout \/ CheckFails \/ EraseStep \/ SpawnStep
           \/ \E t \in Workers : Worker(t)
  BY <1>1, <1>3, StaysQuiet
<1>4. CASE WriteFails \/ FinishZoneFails \/ Sync \/ SyncFails
  <2>1. pc' = "done" /\ dev' = dev /\ cur' = cur /\ buf' = buf /\ out' = out
    BY <1>4 DEF WriteFails, FinishZoneFails, Sync, SyncFails, Return, writeVars
  <2>2. WriteTypes' /\ PebInv' /\ DataInv' /\ Kept
    BY <2>1 DEF WriteTypes, StaysInv, PebInv, DataInv, Kept
  <2> QED
    BY <1>1, <2>2 DEF StaysInv
<1>5. CASE StartPeb
  BY <1>1, <1>5, StaysStartPeb
<1>6. CASE NextExtent
  BY <1>1, <1>6, StaysNextExtent
<1>7. CASE CopyBytes
  BY <1>1, <1>7, StaysCopy
<1>8. CASE FlushRest
  BY <1>1, <1>8, StaysFlushRest
<1>9. CASE FinishPeb
  BY <1>1, <1>9, StaysFinishPeb
<1> QED
  BY <1>2, <1>3, <1>4, <1>5, <1>6, <1>7, <1>8, <1>9, NextSteps DEF WriteStep

(* Whatever the layout, the geometry and the number of erase threads, and  *)
(* whichever calls fail: mkfs.ssdfs never erases or overwrites a byte that *)
(* it has written.  All erase workers have been joined when the write loop *)
(* starts, and the blocks that check_layout_before_write found disjoint    *)
(* are the pages that write_segments flushes.                              *)
THEOREM MkfsWrittenStays == Spec => WrittenStays
<1>1. Init => StaysInv
  BY StaysInit
<1>2. StaysInv /\ [Next]_vars => StaysInv'
  BY StaysNext
<1>3. StaysInv /\ [Next]_vars => [\A b \in Data : dev'[b] = dev[b]]_vars
  BY StaysNext DEF Kept
<1> QED
  BY <1>1, <1>2, <1>3, PTL DEF Spec, WrittenStays

-----------------------------------------------------------------------------
(* Every byte lies in a segment and in a PEB that is somebody's share *)

LEMMA CellOf ==
  ASSUME NEW n \in Nat \ {0}, NEW m \in Nat, NEW b \in 0 .. m * n - 1
  PROVE  \E q \in 0 .. m - 1 : b \in q * n .. (q + 1) * n - 1
<1> DEFINE q == b \div n
           r == b % n
<1>1. b \in Nat /\ m * n \in Nat
  BY SMT
<1>2. q \in Nat /\ r \in 0 .. n - 1 /\ b = n * q + r
  BY <1>1, DivMod
<1> HIDE DEF q, r
<1>3. q * n = n * q /\ n * q \in Nat /\ (q + 1) * n = n * q + n
  BY <1>2, SMT
<1>4. q >= m => n * q >= m * n
  BY <1>2, SMT
<1>5. q \in 0 .. m - 1
  BY <1>1, <1>2, <1>3, <1>4
<1>6. b \in q * n .. (q + 1) * n - 1
  BY <1>1, <1>2, <1>3
<1> QED
  BY <1>5, <1>6

LEMMA InPeb ==
  ASSUME NEW b \in Bytes
  PROVE  \E p \in Pebs : b \in PebBytes(p)
<1>1. PebSize \in Nat \ {0} /\ PebsCount \in Nat
  BY MkfsWriteAssumption DEF PebSize
<1> QED
  BY <1>1, CellOf DEF Bytes, Pebs, PebBytes

(* The volume is a whole number of segments. *)
LEMMA InSegment ==
  ASSUME layout \in Layouts, NEW b \in Bytes
  PROVE  \E s \in 0 .. (PebsCount \div layout.perSeg) - 1 : b \in SegBytes(s)
<1> DEFINE per == layout.perSeg
           m == PebsCount \div per
           size == per * PebSize
<1>1. PebSize \in Nat \ {0} /\ PebsCount \in Nat
  BY MkfsWriteAssumption DEF PebSize
<1>2. per \in Nat \ {0} /\ PebsCount % per = 0
  BY MkfsWriteAssumption
<1> HIDE DEF per
<1>3. m \in Nat /\ PebsCount = per * m
  <2>1. m \in Nat /\ PebsCount = per * m + (PebsCount % per)
    BY <1>1, <1>2, DivMod
  <2>2. per * m \in Nat
    BY <1>2, <2>1
  <2> HIDE DEF m
  <2> QED
    BY <1>2, <2>1, <2>2
<1> HIDE DEF m
<1>4. size \in Nat \ {0}
  BY <1>1, <1>2
<1>5. PebsCount * PebSize = m * size
  <2>1. (per * m) * PebSize = m * (per * PebSize)
    BY <1>1, <1>2, <1>3
  <2> QED
    BY <1>3, <2>1
<1>6. b \in 0 .. m * size - 1
  BY <1>5 DEF Bytes
<1> HIDE DEF size
<1>7. \E s \in 0 .. m - 1 : b \in s * size .. (s + 1) * size - 1
  BY <1>3, <1>4, <1>6, CellOf
<1> QED
  BY <1>7 DEF SegBytes, size, m, per

(* Every PEB is in the share of some worker, before its end: no product    *)
(* wraps, and the share is cut behind the last PEB.                        *)
LEMMA EveryPebShared ==
  ASSUME NEW c \in Nat \ {0}, c * PebsPerThread(PebsCount, c) < U64,
         NEW p \in Pebs, NEW per, per = PebsPerThread(PebsCount, c)
  PROVE  \E t \in 0 .. c - 1 : \E k \in Nat :
           /\ FirstPeb(t, per) \in Nat
           /\ p = FirstPeb(t, per) + k
           /\ k < Share(t, PebsCount, per)
<1> DEFINE t == p \div per
           k == p % per
<1>1. PebsCount \in Nat \ {0} /\ U64 \in Nat \ {0}
  BY MkfsWriteAssumption, U64Assumption
<1>2. p \in Nat /\ p < PebsCount
  BY <1>1 DEF Pebs
<1>3. per \in Nat \ {0} /\ PebsCount <= c * per /\ c * per < U64
  BY <1>1, RoundedUp
<1>4. t \in Nat /\ k \in 0 .. per - 1 /\ p = per * t + k
  BY <1>2, <1>3, DivMod
<1> HIDE DEF t, k
<1>5. t * per = per * t /\ t * per \in Nat /\ c * per \in Nat
  BY <1>3, <1>4
<1>6. t >= c => t * per >= c * per
  BY <1>3, <1>4
<1>7. t \in 0 .. c - 1
  BY <1>1, <1>2, <1>3, <1>4, <1>5, <1>6
<1>8. t * per <= p /\ t * per < U64
  BY <1>1, <1>2, <1>3, <1>4, <1>5
<1>9. FirstPeb(t, per) = t * per
  BY <1>1, <1>5, <1>8, SmallMod DEF FirstPeb
<1> DEFINE rest == PebsCount - t * per
<1>10. rest \in Nat /\ rest < U64
  BY <1>1, <1>2, <1>3, <1>5, <1>8
<1>11. rest % U64 = rest
  BY <1>1, <1>10, SmallMod
<1>12. Share(t, PebsCount, per) = IF rest < per THEN rest ELSE per
  BY <1>9, <1>11 DEF Share
<1>13. k \in Nat /\ k < per /\ k < rest
  BY <1>1, <1>2, <1>3, <1>4, <1>5
<1> HIDE DEF rest
<1>14. k < Share(t, PebsCount, per)
  BY <1>12, <1>13
<1>15. p = FirstPeb(t, per) + k /\ FirstPeb(t, per) \in Nat
  BY <1>4, <1>5, <1>9
<1> QED
  BY <1>7, <1>13, <1>14, <1>15

-----------------------------------------------------------------------------
(* Nothing of the old content is left *)

(* The shares of the pool. *)
ShareInv(t) ==
  /\ done[t] \in Nat
  /\ \A k \in 0 .. done[t] - 1 : Clean(PebBytes(FirstPeb(t, PerThread) + k))
  /\ thr[t] = "exited" /\ "erase" \notin failed =>
       \/ done[t] >= Share(t, PebsCount, PerThread)
       \/ CurrentPeb(t) >= PebsCount

LEMMA ShareTypes ==
  ASSUME cap \in Nat \ {0}, NEW t \in 0 .. cap - 1
  PROVE  /\ PebsCount \in Nat
         /\ FirstPeb(t, PerThread) \in Int
         /\ Share(t, PebsCount, PerThread) \in Int
<1>1. PebsCount \in Nat /\ U64 \in Nat \ {0}
  BY MkfsWriteAssumption, U64Assumption
<1>2. PerThread \in Nat
  BY <1>1, RoundedUp DEF PerThread
<1>3. t * PerThread \in Nat
  BY <1>2
<1>4. FirstPeb(t, PerThread) \in Int
  BY <1>1, <1>3 DEF FirstPeb
<1>5. (PebsCount - FirstPeb(t, PerThread)) % U64 \in Int
  BY <1>1, <1>4
<1> QED
  BY <1>1, <1>2, <1>4, <1>5 DEF Share

LEMMA GoneParts ==
  ASSUME GoneInv, pc \in {"spawn", "wait"}
  PROVE  \A t \in Workers : ShareInv(t)
BY DEF GoneInv, ShareInv

LEMMA GoneInit ==
  ASSUME Init
  PROVE  GoneInv
<1>1. Old # Erased
  BY DEF Old, Erased
<1>2. \A b \in 0 .. PageSize - 1 : buf.bytes[b] # Old
  BY <1>1 DEF Init, EmptyBuf
<1>3. kind = "mtd" => Clean(Bytes)
  BY <1>1 DEF Init, Clean
<1> QED
  BY <1>2, <1>3 DEF Init, GoneInv, Writing

(* Erasing, or leaving the device alone, brings nothing back. *)
LEMMA CleanStays ==
  ASSUME dev' = dev \/ \E S : Erase(S)
  PROVE  \A bytes : Clean(bytes) => Clean(bytes)'
<1>1. \A b \in Bytes : dev'[b] = Erased \/ dev'[b] = dev[b]
  BY DEF Erase
<1>2. Old # Erased
  BY DEF Old, Erased
<1> QED
  BY <1>1, <1>2 DEF Clean

(* All workers have ended, and none of them failed: every PEB is erased. *)
LEMMA PoolErased ==
  ASSUME PoolInv, \A t \in Workers : ShareInv(t),
         \A t \in Workers : thr[t] = "exited", "erase" \notin failed
  PROVE  Clean(Bytes)
<1>1. cap \in Nat \ {0} /\ Workers = 0 .. cap - 1
  BY CapType
<1>2. cap * PebsPerThread(PebsCount, cap) < U64 /\ PebsCount \in Nat
  BY MkfsWriteAssumption DEF PoolInv
<1> SUFFICES ASSUME NEW b \in Bytes PROVE dev[b] # Old
  BY DEF Clean
<1>3. PICK p \in Pebs : b \in PebBytes(p)
  BY InPeb
<1>4. PICK t \in 0 .. cap - 1 : \E k \in Nat :
        /\ FirstPeb(t, PerThread) \in Nat
        /\ p = FirstPeb(t, PerThread) + k
        /\ k < Share(t, PebsCount, PerThread)
  BY <1>1, <1>2, EveryPebShared DEF PerThread
<1>5. PICK k \in Nat : /\ FirstPeb(t, PerThread) \in Nat
                       /\ p = FirstPeb(t, PerThread) + k
                       /\ k < Share(t, PebsCount, PerThread)
  BY <1>4
<1>6. ShareInv(t) /\ thr[t] = "exited"
  BY <1>1
<1>7. /\ done[t] \in Nat
      /\ \/ done[t] >= Share(t, PebsCount, PerThread)
         \/ FirstPeb(t, PerThread) + done[t] >= PebsCount
  BY <1>6 DEF ShareInv, CurrentPeb
<1>8. p \in Nat /\ p < PebsCount
  BY <1>2 DEF Pebs
<1>9. Share(t, PebsCount, PerThread) \in Int
  BY <1>1, <1>4, ShareTypes
<1>10. k < done[t]
  <2> DEFINE d == done[t]
             f == FirstPeb(t, PerThread)
             sh == Share(t, PebsCount, PerThread)
  <2>1. d \in Nat /\ f \in Nat /\ sh \in Int /\ k < sh /\ p = f + k
        /\ (d >= sh \/ f + d >= PebsCount)
    BY <1>5, <1>7, <1>9
  <2> HIDE DEF d, f, sh
  <2>2. k < d
    BY <1>2, <1>8, <2>1
  <2> QED
    BY <2>2 DEF d
<1>11. k \in 0 .. done[t] - 1
  BY <1>7, <1>10
<1>12. Clean(PebBytes(FirstPeb(t, PerThread) + k))
  BY <1>6, <1>11 DEF ShareInv
<1> QED
  BY <1>3, <1>5, <1>12 DEF Clean

(* All segments have been erased. *)
LEMMA SegmentsClean ==
  ASSUME layout \in Layouts,
         \A s \in 0 .. (PebsCount \div layout.perSeg) - 1 : Clean(SegBytes(s))
  PROVE  Clean(Bytes)
BY InSegment DEF Clean

LEMMA GoneErase ==
  ASSUME PoolInv, GoneInv, CheckLayout \/ CheckFails \/ EraseStep
  PROVE  GoneInv'
<1> USE DEF GoneInv
<1>1. /\ layout' = layout /\ kind' = kind /\ need' = need /\ cap' = cap
      /\ buf' = buf /\ thr' = thr /\ done' = done
      /\ dev' = dev \/ \E S : Erase(S)
  <2>1. CASE CheckLayout \/ CheckFails
    BY <2>1 DEF CheckLayout, CheckFails, inputs, writeVars, eraseVars
  <2>2. CASE ChooseErase \/ AllocPoolFails
    BY <2>2 DEF ChooseErase, AllocPoolFails, inputs, writeVars, eraseVars
  <2>3. CASE EraseSegment
    BY <2>3 DEF EraseSegment, inputs, writeVars, eraseVars
  <2>4. CASE EraseSegmentFails \/ SegmentsErased
    BY <2>4 DEF EraseSegmentFails, SegmentsErased, inputs, writeVars, eraseVars
  <2> QED
    BY <2>1, <2>2, <2>3, <2>4 DEF EraseStep
<1>2. \A bytes : Clean(bytes) => Clean(bytes)'
  BY <1>1, CleanStays
<1>4. Workers' = Workers /\ \A s : SegBytes(s)' = SegBytes(s)
  BY <1>1 DEF Workers, SegBytes
<1>3. /\ \A b \in 0 .. PageSize - 1 : buf'.bytes[b] # Old
      /\ kind' = "mtd" => Clean(Bytes)'
      /\ done' \in [Workers' -> Nat]
  BY <1>1, <1>2, <1>4
<1>5. layout \in Layouts /\ layout.perSeg \in Nat \ {0} /\ PebsCount \in Nat
      /\ PebsCount \div layout.perSeg \in Nat
  <2>1. layout \in Layouts /\ layout.perSeg \in Nat \ {0} /\ PebsCount \in Nat
    BY MkfsWriteAssumption DEF PoolInv
  <2> QED
    BY <2>1, DivMod
<1>6. CASE CheckLayout \/ CheckFails
  <2>1. /\ pc = "check" /\ pc' \in {"erase", "done"}
        /\ pc' = "erase" => res' = res
        /\ pc' = "done" => res' \in {"refused", "error"}
    BY <1>6 DEF CheckLayout, CheckFails, Return
  <2> QED
    BY <1>1, <1>3, <1>4, <2>1 DEF Writing
<1>7. CASE ChooseErase
  <2>1. /\ pc = "erase" /\ i' = 0 /\ res' = res /\ failed' = failed
        /\ pc' \in {"write", "erase_allocated", "erase_all", "spawn"}
        /\ pc' = "write" => kind = "mtd"
        /\ pc' = "erase_allocated" => ~need
    BY <1>7 DEF ChooseErase
  <2>2. i' \in 0 .. PebsCount \div layout'.perSeg /\ \A s \in 0 .. i' - 1 : FALSE
    BY <1>1, <1>5, <2>1
  <2>3. pc' = "spawn" => \A t \in Workers : done'[t] = 0 /\ thr'[t] = "none"
    BY <1>1, <2>1 DEF PoolInv
  <2>4. pc' = "spawn" => \A t \in Workers : ShareInv(t)'
    BY <2>3 DEF ShareInv
  <2> QED
    BY <1>1, <1>3, <1>4, <2>1, <2>2, <2>4 DEF Writing, ShareInv
<1>8. CASE AllocPoolFails
  <2>1. pc = "spawn" /\ pc' = "erase_all" /\ i = 0 /\ i' = i /\ res' = res
    BY <1>8 DEF AllocPoolFails
  <2>2. i' \in 0 .. PebsCount \div layout'.perSeg /\ \A s \in 0 .. i' - 1 : FALSE
    BY <1>1, <1>5, <2>1
  <2> QED
    BY <1>3, <2>1, <2>2 DEF Writing
<1>9. CASE EraseSegment
  <2>1. /\ pc \in {"erase_allocated", "erase_all"} /\ pc' = pc /\ i' = i + 1
        /\ i < Len(EraseTargets) /\ Erase(SegBytes(EraseTargets[i + 1]))
        /\ res' = res /\ failed' = failed
    BY <1>9 DEF EraseSegment
  <2>2. CASE pc = "erase_allocated"
    BY <1>1, <1>3, <2>1, <2>2 DEF Writing
  <2>3. CASE pc = "erase_all"
    <3> DEFINE m == PebsCount \div layout.perSeg
    <3>1. i \in 0 .. m /\ m \in Nat
      BY <1>5, <2>3
    <3>2. EraseTargets = [s \in 1 .. m |-> s - 1]
      BY <2>3 DEF EraseTargets
    <3> HIDE DEF m
    <3>3. Len(EraseTargets) = m
      BY <3>1, <3>2
    <3>4. i + 1 \in 1 .. m /\ (i + 1) - 1 = i
      BY <2>1, <3>1, <3>3
    <3>5. EraseTargets[i + 1] = i
      BY <3>2, <3>4
    <3>6. \A s : s = i => Clean(SegBytes(s))'
      <4>1. \A b \in Bytes : b \in SegBytes(i) => dev'[b] = Erased
        BY <2>1, <3>5 DEF Erase
      <4>2. Erased # Old
        BY DEF Old, Erased
      <4> QED
        BY <1>4, <4>1, <4>2 DEF Clean
    <3>7. \A s \in 0 .. i' - 1 : s \in 0 .. i - 1 \/ s = i
      BY <2>1, <3>1
    <3>8. \A s \in 0 .. i' - 1 : Clean(SegBytes(s))'
      <4>1. \A s \in 0 .. i - 1 : Clean(SegBytes(s))
        BY <2>3
      <4>2. \A s \in 0 .. i - 1 : Clean(SegBytes(s))'
        <5> SUFFICES ASSUME NEW s \in 0 .. i - 1 PROVE Clean(SegBytes(s))'
          OBVIOUS
        <5>1. \A b \in Bytes : dev[b] # Old => dev'[b] # Old
          BY <2>1 DEF Erase, Old, Erased
        <5> QED
          BY <1>4, <4>1, <5>1 DEF Clean
      <4> QED
        BY <3>6, <3>7, <4>2
    <3>9. i' \in 0 .. PebsCount \div layout'.perSeg
      <4>1. i' \in 0 .. m
        BY <2>1, <3>1, <3>4
      <4> QED
        BY <1>1, <4>1 DEF m
    <3> QED
      BY <1>3, <2>1, <2>3, <3>8, <3>9 DEF Writing
  <2> QED
    BY <2>1, <2>2, <2>3
<1>10. CASE EraseSegmentFails
  BY <1>3, <1>10 DEF EraseSegmentFails, Return, Writing
<1>11. CASE SegmentsErased
  <2>1. /\ pc \in {"erase_allocated", "erase_all"} /\ pc' = "write" /\ dev' = dev
        /\ i = Len(EraseTargets) /\ res' = res /\ failed' = failed
    BY <1>11 DEF SegmentsErased
  <2>2. need => Clean(Bytes)
    <3> SUFFICES ASSUME need PROVE Clean(Bytes)
      OBVIOUS
    <3> DEFINE m == PebsCount \div layout.perSeg
    <3>1. pc = "erase_all"
      BY <2>1
    <3>2. EraseTargets = [s \in 1 .. m |-> s - 1] /\ m \in Nat
      BY <1>5, <3>1 DEF EraseTargets
    <3> HIDE DEF m
    <3>3. i = m
      BY <2>1, <3>2
    <3>4. \A s \in 0 .. m - 1 : Clean(SegBytes(s))
      BY <3>1, <3>3
    <3> QED
      BY <1>5, <3>4, SegmentsClean DEF m
  <2> QED
    BY <1>1, <1>2, <1>3, <2>1, <2>2 DEF Writing
<1> QED
  BY <1>6, <1>7, <1>8, <1>9, <1>10, <1>11 DEF EraseStep

LEMMA GonePool ==
  ASSUME PoolInv, GoneInv, SpawnStep \/ \E t \in Workers : Worker(t)
  PROVE  GoneInv'
<1>1. cap \in Nat \ {0} /\ Workers = 0 .. cap - 1
  BY CapType
<1>2. /\ layout' = layout /\ kind' = kind /\ need' = need /\ cap' = cap
      /\ buf' = buf /\ res' = res
      /\ dev' = dev \/ \E S : Erase(S)
  <2>1. CASE SpawnStep
    BY <2>1 DEF SpawnStep, Spawn, SpawnFails, AllSpawned, WaitJoin, AllJoined,
                inputs, writeVars
  <2>2. CASE \E t \in Workers : Worker(t)
    BY <2>2 DEF Worker, ErasePeb, ErasePebFails, ExitThread, inputs, writeVars
  <2> QED
    BY <2>1, <2>2
<1>3. \A bytes : Clean(bytes) => Clean(bytes)'
  BY <1>2, CleanStays
<1>4. /\ \A b \in 0 .. PageSize - 1 : buf'.bytes[b] # Old
      /\ kind' = "mtd" => Clean(Bytes)'
  BY <1>2, <1>3 DEF GoneInv
<1>5. Workers' = Workers /\ PerThread' = PerThread
  BY <1>2 DEF Workers, PerThread
<1>10. \A p : Clean(PebBytes(p)) => Clean(PebBytes(p))'
  <2>1. \A p : PebBytes(p)' = PebBytes(p)
    BY DEF PebBytes
  <2>2. \A b \in Bytes : dev[b] # Old => dev'[b] # Old
    BY <1>2 DEF Erase, Old, Erased
  <2> QED
    BY <2>1, <2>2 DEF Clean
<1>11. done' \in [Workers' -> Nat]
  <2>1. CASE SpawnStep
    BY <1>5, <2>1 DEF SpawnStep, Spawn, SpawnFails, AllSpawned, WaitJoin, AllJoined,
                      eraseVars, GoneInv
  <2>2. CASE \E t \in Workers : Worker(t)
    <3>1. done' = done \/ \E t \in Workers : done' = [done EXCEPT ![t] = @ + 1]
      BY <2>2 DEF Worker, ErasePeb, ErasePebFails, ExitThread
    <3> QED
      BY <1>5, <3>1 DEF GoneInv
  <2> QED
    BY <2>1, <2>2
<1>6. CASE SpawnFails
  <2>1. pc = "spawn" /\ pc' = "crashed"
    BY <1>6 DEF SpawnFails
  <2> QED
    BY <1>2, <1>4, <1>11, <2>1 DEF GoneInv, Writing
<1>7. CASE Spawn \/ AllSpawned \/ WaitJoin
  <2>1. /\ pc \in {"spawn", "wait"} /\ pc' \in {"spawn", "wait"}
        /\ dev' = dev /\ done' = done /\ failed' = failed
    BY <1>7 DEF Spawn, AllSpawned, WaitJoin, eraseVars
  <2>2. \A t \in Workers : thr'[t] = "exited" => thr[t] = "exited"
    <3>1. CASE Spawn
      <4>1. i \in Workers /\ thr' = [thr EXCEPT ![i] = "running"]
        BY <1>1, <3>1 DEF Spawn, PoolInv
      <4> QED
        BY <4>1 DEF PoolInv
    <3>2. CASE AllSpawned \/ WaitJoin
      BY <3>2 DEF AllSpawned, WaitJoin, eraseVars
    <3> QED
      BY <1>7, <3>1, <3>2
  <2>3. ASSUME NEW t \in Workers PROVE ShareInv(t)'
    <3>1. ShareInv(t)
      BY <2>1, GoneParts
    <3> QED
      BY <1>2, <1>5, <2>1, <2>2, <3>1 DEF ShareInv, Clean, CurrentPeb
  <2> QED
    BY <1>2, <1>4, <1>5, <1>11, <2>1, <2>3 DEF GoneInv, Writing, ShareInv
<1>8. CASE AllJoined
  <2>1. pc = "wait" /\ pc' = "write" /\ i = requested /\ failed' = failed
    BY <1>8 DEF AllJoined
  <2>2. \A t \in Workers : thr[t] = "exited"
    BY <1>1, <2>1 DEF PoolInv
  <2>3. \A t \in Workers : ShareInv(t)
    BY <2>1, GoneParts
  <2>4. "erase" \notin failed => Clean(Bytes)
    BY <2>2, <2>3, PoolErased
  <2> QED
    BY <1>2, <1>3, <1>4, <1>11, <2>1, <2>4 DEF GoneInv, Writing
<1>9. ASSUME NEW u \in Workers, Worker(u)
      PROVE  GoneInv'
  <2>1. thr[u] = "running" /\ pc' = pc
    BY <1>9 DEF Worker, ErasePeb, ErasePebFails, ExitThread, HasWork
  <2>2. pc \in {"spawn", "wait", "crashed"}
    BY <2>1 DEF PoolInv
  <2>3. CASE pc = "crashed"
    BY <1>2, <1>4, <1>11, <2>1, <2>3 DEF GoneInv, Writing
  <2>4. CASE pc \in {"spawn", "wait"}
    <3>1. \A t \in Workers : ShareInv(t)
      BY <2>4, GoneParts
    <3>2. \A t \in Workers : ShareInv(t)'
      <4>1. CASE ErasePeb(u)
        <5>1. /\ Erase(PebBytes(CurrentPeb(u))) /\ done' = [done EXCEPT ![u] = @ + 1]
              /\ thr' = thr /\ failed' = failed
          BY <4>1 DEF ErasePeb
        <5>2. done'[u] = done[u] + 1 /\ done[u] \in Nat
          BY <5>1 DEF GoneInv
        <5>3. \A t \in Workers : t # u => done'[t] = done[t]
          BY <5>1 DEF GoneInv
        <5>4. ASSUME NEW t \in Workers, t # u PROVE ShareInv(t)'
          <6>1. ShareInv(t) /\ done'[t] = done[t]
            BY <3>1, <5>3, <5>4
          <6>2. \A k \in 0 .. done'[t] - 1 :
                  Clean(PebBytes(FirstPeb(t, PerThread) + k))'
            BY <1>5, <1>10, <6>1 DEF ShareInv
          <6> QED
            BY <1>5, <5>1, <6>1, <6>2 DEF ShareInv, CurrentPeb
        <5>5. ShareInv(u)'
          <6>1. ShareInv(u)
            BY <3>1
          <6>2. \A k \in 0 .. done[u] - 1 :
                  Clean(PebBytes(FirstPeb(u, PerThread) + k))'
            BY <1>5, <1>10, <6>1 DEF ShareInv
          <6>3. \A p : p = FirstPeb(u, PerThread) + done[u] => Clean(PebBytes(p))'
            <7>1. \A b \in Bytes :
                    b \in PebBytes(FirstPeb(u, PerThread) + done[u]) => dev'[b] = Erased
              BY <5>1 DEF Erase, CurrentPeb
            <7>2. Erased # Old
              BY DEF Old, Erased
            <7> QED
              BY <7>1, <7>2 DEF Clean, PebBytes
          <6>4. \A k \in 0 .. done'[u] - 1 : k \in 0 .. done[u] - 1 \/ k = done[u]
            BY <5>2
          <6>5. done'[u] \in Nat /\ thr'[u] = "running"
            BY <2>1, <5>1, <5>2
          <6>6. \A k \in 0 .. done'[u] - 1 :
                  Clean(PebBytes(FirstPeb(u, PerThread) + k))'
            BY <1>5, <6>2, <6>3, <6>4
          <6> QED
            BY <1>5, <6>5, <6>6 DEF ShareInv
        <5> QED
          BY <5>4, <5>5
      <4>2. CASE ErasePebFails(u)
        <5>1. dev' = dev /\ done' = done /\ failed' = failed \cup {"erase"}
          BY <4>2 DEF ErasePebFails
        <5> QED
          BY <1>5, <3>1, <5>1 DEF ShareInv, Clean
      <4>3. CASE ExitThread(u)
        <5>1. /\ dev' = dev /\ done' = done /\ failed' = failed
              /\ thr' = [thr EXCEPT ![u] = "exited"] /\ ~HasWork(u)
          BY <4>3 DEF ExitThread
        <5>2. \A t \in Workers : t # u => thr'[t] = thr[t]
          BY <5>1 DEF PoolInv
        <5>3. ASSUME NEW t \in Workers, t # u PROVE ShareInv(t)'
          BY <1>5, <3>1, <5>1, <5>2, <5>3 DEF ShareInv, Clean, CurrentPeb
        <5>4. \/ ~(done[u] < Share(u, PebsCount, PerThread))
              \/ ~(CurrentPeb(u) < PebsCount)
          BY <2>1, <5>1 DEF HasWork
        <5>5. \/ done[u] >= Share(u, PebsCount, PerThread)
              \/ CurrentPeb(u) >= PebsCount
          <6>1. done[u] \in Nat /\ FirstPeb(u, PerThread) \in Int
                /\ Share(u, PebsCount, PerThread) \in Int /\ PebsCount \in Nat
            BY <1>1, ShareTypes DEF GoneInv
          <6> QED
            BY <5>4, <6>1 DEF CurrentPeb
        <5>6. ShareInv(u)'
          BY <1>5, <3>1, <5>1, <5>5 DEF ShareInv, Clean, CurrentPeb
        <5> QED
          BY <5>3, <5>6
      <4> QED
        BY <1>9, <4>1, <4>2, <4>3 DEF Worker
    <3> QED
      BY <1>2, <1>4, <1>5, <1>11, <2>1, <2>4, <3>2 DEF GoneInv, Writing, ShareInv
  <2> QED
    BY <2>2, <2>3, <2>4
<1> QED
  BY <1>6, <1>7, <1>8, <1>9 DEF SpawnStep

LEMMA GoneWrite ==
  ASSUME StaysInv, GoneInv, WriteStep
  PROVE  GoneInv'
<1>1. /\ pc \in {"write", "peb"} /\ pc' \in {"write", "peb", "done"}
      /\ layout' = layout /\ kind' = kind /\ need' = need /\ cap' = cap
      /\ thr' = thr /\ done' = done
  BY WriteStepFrame
<1>2. done' \in [Workers' -> Nat]
  BY <1>1 DEF GoneInv, Workers
<1>3. /\ PageSize \in Nat \ {0} /\ Bytes \subseteq Nat
      /\ cur.seg \in Nat \ {0} /\ out.vol \in Nat
  BY MkfsWriteAssumption DEF StaysInv, WriteTypes, Bytes
<1>4. Old # Erased /\ \A b \in 0 .. PageSize - 1 : EmptyBuf[b] # Old
  BY DEF Old, Erased, EmptyBuf
<1>5. \A b \in 0 .. PageSize - 1 : Filled[b] # Old /\ buf.bytes[b] # Old
  <2>1. \A b \in 0 .. PageSize - 1 : buf.bytes[b] # Old
    BY DEF GoneInv
  <2>2. \A e, f, g : <<cur.seg, e, f, g>> # Old
    BY <1>3 DEF Old
  <2> QED
    BY <2>1, <2>2 DEF Filled
(* What is flushed is not old content. *)
<1>6. ASSUME NEW bytes, \A b \in 0 .. PageSize - 1 : bytes[b] # Old, FlushBuffer(bytes)
      PROVE  /\ \A b \in Bytes : dev[b] # Old => dev'[b] # Old
             /\ \A b \in 0 .. PageSize - 1 : buf'.bytes[b] # Old
  <2>1. \A b \in Bytes : b \in out.vol .. out.vol + PageSize - 1 =>
          b - out.vol \in 0 .. PageSize - 1
    BY <1>3
  <2>2. dev' = [b \in Bytes |-> IF b \in out.vol .. out.vol + PageSize - 1
                                THEN bytes[b - out.vol] ELSE dev[b]]
        /\ buf' = [bytes |-> EmptyBuf, off |-> 0]
    BY <1>6 DEF FlushBuffer
  <2> QED
    BY <1>4, <1>6, <2>1, <2>2
<1>7. /\ \A b \in Bytes : dev[b] # Old => dev'[b] # Old
      /\ \A b \in 0 .. PageSize - 1 : buf'.bytes[b] # Old
      /\ pc' # "done" => res' = res /\ failed' = failed
      /\ pc' = "done" /\ res' = "ok" => failed' = failed
  <2>1. CASE StartPeb
    <3>1. dev' = dev /\ (buf' = buf \/ buf' = [buf EXCEPT !.bytes = EmptyBuf])
          /\ res' = res /\ failed' = failed /\ pc' # "done"
      BY <1>1, <2>1 DEF StartPeb
    <3>2. buf = [bytes |-> buf.bytes, off |-> buf.off]
      BY DEF StaysInv, WriteTypes
    <3>3. buf'.bytes = buf.bytes \/ buf'.bytes = EmptyBuf
      BY <3>1, <3>2
    <3> QED
      BY <1>4, <1>5, <3>1, <3>3
  <2>2. CASE NextExtent
    BY <1>5, <2>2 DEF NextExtent
  <2>3. CASE CopyBytes
    <3>1. pc' = pc /\ res' = res /\ failed' = failed /\ pc' # "done"
      BY <2>3 DEF CopyBytes
    <3>2. \/ FlushBuffer(Filled)
          \/ dev' = dev /\ buf' = [bytes |-> Filled, off |-> At + Copied]
      BY <2>3 DEF CopyBytes
    <3>3. CASE FlushBuffer(Filled)
      BY <1>5, <1>6, <3>1, <3>3
    <3>4. CASE dev' = dev /\ buf' = [bytes |-> Filled, off |-> At + Copied]
      <4>1. buf'.bytes = Filled
        BY <3>4
      <4> QED
        BY <1>5, <3>1, <3>4, <4>1
    <3> QED
      BY <3>2, <3>3, <3>4
  <2>4. CASE FlushRest
    <3>1. pc' = pc /\ res' = res /\ failed' = failed /\ FlushBuffer(buf.bytes)
          /\ pc' # "done"
      BY <2>4 DEF FlushRest, PebCopied
    <3> QED
      BY <1>5, <1>6, <3>1
  <2>5. CASE FinishPeb
    BY <1>5, <2>5 DEF FinishPeb
  <2>6. CASE WriteFails \/ FinishZoneFails \/ SyncFails
    BY <1>5, <2>6 DEF WriteFails, FinishZoneFails, SyncFails, Return, writeVars
  <2>7. CASE Sync
    BY <1>5, <2>7 DEF Sync, Return, writeVars
  <2> QED
    BY <2>1, <2>2, <2>3, <2>4, <2>5, <2>6, <2>7 DEF WriteStep
<1>8. Clean(Bytes) => Clean(Bytes)'
  BY <1>7 DEF Clean
<1>9. Writing /\ (Writing' => failed' = failed)
  BY <1>1, <1>7 DEF Writing
<1> QED
  BY <1>1, <1>2, <1>7, <1>8, <1>9 DEF GoneInv

(* With option -R, and unless a worker could not erase, no byte of the old *)
(* content is left in a volume that mkfs.ssdfs reports as written: for     *)
(* every number of PEBs and threads the shares cover the volume, and one   *)
(* thread erases every segment.                                            *)
THEOREM MkfsOldContentGone == Spec => []OldContentGone
<1>1. Init => StaysInv /\ GoneInv
  BY StaysInit, GoneInit
<1>2. StaysInv /\ GoneInv /\ [Next]_vars => StaysInv' /\ GoneInv'
  <2> SUFFICES ASSUME StaysInv, GoneInv, [Next]_vars PROVE GoneInv'
    BY StaysNext
  <2>1. PoolInv
    BY DEF StaysInv
  <2>2. CASE UNCHANGED vars
    <3>1. /\ layout' = layout /\ kind' = kind /\ need' = need /\ cap' = cap
          /\ dev' = dev /\ pc' = pc /\ i' = i /\ thr' = thr /\ done' = done
          /\ buf' = buf /\ res' = res /\ failed' = failed
      BY <2>2 DEF vars, inputs, eraseVars, writeVars
    <3> QED
      BY <3>1 DEF GoneInv, Writing, Clean, SegBytes, Workers, PerThread, CurrentPeb
  <2>3. CASE CheckLayout \/ CheckFails \/ EraseStep
    BY <2>1, <2>3, GoneErase
  <2>4. CASE SpawnStep \/ \E t \in Workers : Worker(t)
    BY <2>1, <2>4, GonePool
  <2>5. CASE WriteStep
    BY <2>5, GoneWrite
  <2> QED
    BY <2>2, <2>3, <2>4, <2>5, NextSteps
<1>3. StaysInv /\ GoneInv => OldContentGone
  BY DEF GoneInv, OldContentGone, Writing, Clean
<1> QED
  BY <1>1, <1>2, <1>3, PTL DEF Spec

-----------------------------------------------------------------------------
(* The layout is on the device *)

Blank == {Old, Erased}
Where(n, o) == Peb(layout, n).id * PebSize + o

(* Offset o of PEB n belongs to an extent. *)
Covers(n, o) ==
  \E e \in DOMAIN Peb(layout, n).extents :
    /\ Peb(layout, n).extents[e].off <= o
    /\ o < End(Peb(layout, n).extents, e)

Cur == <<cur.seg, cur.peb>>

(* Where the rest of an extent goes: at most a page behind what is         *)
(* buffered, and right behind it between two extents.                      *)
Window ==
  \/ /\ out.flushed + buf.off <= cur.off
     /\ cur.off < out.flushed + buf.off + PageSize
     /\ cur.left = 0 => cur.off = out.flushed + buf.off
  \/ cur.left = 0 /\ cur.off <= out.flushed

(* Every byte in the buffer is one that the layout wants at its place, and *)
(* none is missing up to where the loop is.                                *)
BufferInv ==
  /\ Window
  /\ cur.ext > 0 => CurPeb.extents[cur.ext].off <= cur.off
  /\ \A o \in Nat : Covers(Cur, o) /\ o < out.flushed => Where(Cur, o) \in Data
  /\ \A d \in 0 .. PageSize - 1 :
       buf.bytes[d] = Erased \/ buf.bytes[d] \in Expected(out.vol + d)
  /\ \A o \in Nat : Covers(Cur, o) /\ out.flushed <= o /\ o < cur.off =>
       /\ o < out.flushed + buf.off
       /\ buf.bytes[o - out.flushed] \notin Blank

(* Every byte on the device is one that the layout wants at its place, and *)
(* no byte of a PEB that is finished is missing.                           *)
DataRight == \A b \in Data : dev[b] \in Expected(b)
PebsWritten ==
  \A n \in AllPebs(layout) : Before(n) =>
    \A o \in Nat : Covers(n, o) => Where(n, o) \in Data

PlaceInv ==
  /\ pc # "done" => res = "none"
  /\ pc \notin {"write", "peb", "done"} => cur.seg = 1 /\ cur.peb = 1
  /\ DataRight
  /\ pc \in {"write", "peb"} => PebsWritten
  /\ pc = "peb" => BufferInv
  /\ LayoutOnDevice

-----------------------------------------------------------------------------
(* One turn of the copy loop, in numbers, as in CopyArith: what is copied  *)
(* comes to the page that is buffered, and after a flush the extent's rest *)
(* goes to the next one.                                                   *)
TurnBefore(n, off, left, bo, fl, at, c) ==
  /\ n \in Nat \ {0} /\ off \in Nat /\ left \in Nat /\ left > 0
  /\ bo \in 0 .. n - 1 /\ fl \in Nat /\ fl % n = 0
  /\ fl + bo <= off /\ off < fl + bo + n
  /\ at = off % n
  /\ at < bo => c = 0
  /\ ~(at < bo) /\ left < n - at => c = left
  /\ ~(at < bo) /\ ~(left < n - at) => c = n - at

TurnAfter(n, off, left, bo, fl, at, c) ==
  /\ at \in 0 .. n - 1 /\ c \in 0 .. left
  /\ at < bo => fl + n <= off /\ c = 0
  /\ ~(at < bo) => off = fl + at
  /\ at < bo \/ at + c = n =>
       /\ fl + n <= off + c /\ off + c < fl + n + n
       /\ left - c = 0 => off + c = fl + n
  /\ ~(at < bo \/ at + c = n) =>
       c = left /\ at + c \in 0 .. n - 1 /\ off + c = fl + (at + c)

LEMMA CopyWindow ==
  ASSUME NEW n, NEW off, NEW left, NEW bo, NEW fl, NEW at, NEW c,
         TurnBefore(n, off, left, bo, fl, at, c)
  PROVE  TurnAfter(n, off, left, bo, fl, at, c)
<1> USE DEF TurnBefore
<1> DEFINE k == off \div n
           f == fl \div n
<1>1. k \in Nat /\ at \in 0 .. n - 1 /\ off = n * k + at
  BY DivMod
<1>2. f \in Nat /\ fl = n * f
  <2>1. f \in Nat /\ fl = n * f + (fl % n)
    BY DivMod
  <2>2. n * f \in Nat
    BY <2>1
  <2> HIDE DEF f
  <2> QED
    BY <2>1, <2>2
<1> HIDE DEF k, f
<1> DEFINE nk == n * k
<1>3. nk \in Nat /\ off = nk + at
  BY <1>1
<1>4. /\ f >= k + 1 => fl >= nk + n
      /\ k = f => nk = fl
      /\ k = f + 1 => nk = fl + n
      /\ k >= f + 2 => nk >= fl + n + n
  BY <1>1, <1>2
<1> HIDE DEF nk
<1>5. f <= k
  BY <1>1, <1>2, <1>3, <1>4
<1>6. k <= f + 1
  BY <1>1, <1>2, <1>3, <1>4
<1>7. nk = fl \/ nk = fl + n
  BY <1>1, <1>2, <1>4, <1>5, <1>6
<1>8. at < bo <=> nk = fl + n
  BY <1>1, <1>3, <1>7
<1>9. c \in 0 .. left /\ c <= n - at
  BY <1>1
<1>10. at < bo => fl + n <= off /\ off < fl + n + n /\ c = 0
  BY <1>1, <1>3, <1>8
<1>11. ~(at < bo) => off = fl + at
  BY <1>1, <1>3, <1>7, <1>8
<1>12. at < bo \/ at + c = n =>
         /\ fl + n <= off + c /\ off + c < fl + n + n
         /\ left - c = 0 => off + c = fl + n
  BY <1>1, <1>9, <1>10, <1>11
<1>13. ~(at < bo \/ at + c = n) =>
         c = left /\ at + c \in 0 .. n - 1 /\ off + c = fl + (at + c)
  <2> SUFFICES ASSUME ~(at < bo), at + c # n
               PROVE  c = left /\ at + c \in 0 .. n - 1 /\ off + c = fl + (at + c)
    OBVIOUS
  <2>1. c # n - at
    BY <1>1, <1>9
  <2>2. c = left
    BY <2>1
  <2>3. at + c \in 0 .. n - 1
    BY <1>1, <1>9
  <2>4. off + c = fl + (at + c)
    BY <1>1, <1>9, <1>11
  <2> QED
    BY <2>2, <2>3, <2>4
<1> QED
  BY <1>1, <1>9, <1>10, <1>11, <1>12, <1>13 DEF TurnAfter

(* An extent ends before every later one starts. *)
LEMMA ExtentsApart ==
  ASSUME NEW x \in Seq(ExtentType), ExtentsInOrder(x),
         NEW a \in 1 .. Len(x), NEW e \in 1 .. Len(x), a < e
  PROVE  End(x, a) <= x[e].off
<1> DEFINE Bad == { d \in Nat : d \in 1 .. Len(x) /\ a < d /\ ~(End(x, a) <= x[d].off) }
<1>1. Len(x) \in Nat
  OBVIOUS
<1>2. \A m \in 1 .. Len(x) : End(x, m) \in Nat /\ x[m].off < End(x, m) /\ x[m].off \in Nat
  BY ExtentTypes
<1>3. \A m \in 1 .. Len(x) - 1 : End(x, m) <= x[m + 1].off
  BY DEF ExtentsInOrder, End
<1>4. Bad = {}
  <2> SUFFICES ASSUME Bad # {} PROVE FALSE
    OBVIOUS
  <2>1. PICK d \in Bad : \A y \in Bad : ~(<<y, d>> \in OpToRel(<, Nat))
    BY WFMin, NatLessThanWellFounded
  <2>2. d \in Nat /\ d \in 1 .. Len(x) /\ a < d /\ ~(End(x, a) <= x[d].off)
    OBVIOUS
  <2>3. d - 1 \in Nat /\ d - 1 < d /\ d - 1 \in 1 .. Len(x) - 1 /\ (d - 1) + 1 = d
        /\ d - 1 \in 1 .. Len(x)
    BY <1>1, <2>2
  <2>4. End(x, d - 1) <= x[d].off
    BY <1>3, <2>3
  <2>5. a # d - 1
    BY <2>2, <2>4
  <2>6. a < d - 1
    BY <2>2, <2>5
  <2>7. <<d - 1, d>> \in OpToRel(<, Nat)
    BY <2>2, <2>3 DEF OpToRel
  <2>8. End(x, a) <= x[d - 1].off
    BY <2>1, <2>3, <2>6, <2>7
  <2>9. /\ End(x, a) \in Nat /\ x[d].off \in Nat
        /\ End(x, d - 1) \in Nat /\ x[d - 1].off \in Nat /\ x[d - 1].off < End(x, d - 1)
    BY <1>2, <2>2, <2>3
  <2> HIDE DEF Bad
  <2> QED
    BY <2>2, <2>4, <2>8, <2>9
<1> QED
  BY <1>1, <1>4

LEMMA ExpectedIs ==
  ASSUME NEW b, NEW v
  PROVE  v \in Expected(b) <=>
           \E n \in AllPebs(layout) : \E e \in DOMAIN Peb(layout, n).extents :
             /\ b - Peb(layout, n).id * PebSize \in
                  Peb(layout, n).extents[e].off ..
                    Peb(layout, n).extents[e].off + Peb(layout, n).extents[e].size - 1
             /\ v = <<n[1], n[2], e,
                      b - Peb(layout, n).id * PebSize - Peb(layout, n).extents[e].off>>
  BY DEF Expected

(* The PEBs of a layout that has passed the check. *)
LEMMA PebFacts ==
  ASSUME layout \in Layouts, Accepted(layout), NEW n \in AllPebs(layout),
         NEW x, x = Peb(layout, n).extents
  PROVE  /\ n[1] \in Nat \ {0} /\ n[2] \in Nat \ {0} /\ n = <<n[1], n[2]>>
         /\ n[1] \in 1 .. Len(layout.segs) /\ n[2] \in 1 .. Len(layout.segs[n[1]].pebs)
         /\ Peb(layout, n).id \in Nat /\ Peb(layout, n).id < PebsCount
         /\ x \in Seq(ExtentType) /\ DOMAIN x = 1 .. Len(x)
         /\ ExtentsInOrder(x)
         /\ \A e \in 1 .. Len(x) : End(x, e) <= PebSize
<1>1. layout.segs \in Seq(SegType)
  BY MkfsWriteAssumption
<1>2. PICK s \in DOMAIN layout.segs : \E j \in DOMAIN layout.segs[s].pebs : n = <<s, j>>
  BY DEF AllPebs
<1>3. PICK j \in DOMAIN layout.segs[s].pebs : n = <<s, j>>
  BY <1>2
<1>4. s \in 1 .. Len(layout.segs) /\ layout.segs[s] \in SegType /\ Len(layout.segs) \in Nat
  BY <1>1, <1>2
<1>5. layout.segs[s].pebs \in Seq(PebType)
  BY <1>4 DEF SegType
<1>6. j \in 1 .. Len(layout.segs[s].pebs) /\ Len(layout.segs[s].pebs) \in Nat
  BY <1>3, <1>5
<1>7. n[1] = s /\ n[2] = j /\ n = <<n[1], n[2]>> /\ Peb(layout, n) = layout.segs[s].pebs[j]
  BY <1>3 DEF Peb
<1>8. /\ Peb(layout, n).id \in Nat /\ x \in Seq(ExtentType) /\ Len(x) \in Nat \ {0}
  BY <1>4, <1>6, <1>7, PebTypes
<1>9. /\ \A e \in DOMAIN x : ExtentFits(Peb(layout, n), x[e])
      /\ ExtentsInOrder(x)
  BY DEF Accepted
<1>10. DOMAIN x = 1 .. Len(x) /\ 1 \in DOMAIN x
  BY <1>8
<1>11. Peb(layout, n).id < PebsCount /\ \A e \in 1 .. Len(x) : End(x, e) <= PebSize
  BY <1>9, <1>10 DEF ExtentFits, End
<1> QED
  BY <1>4, <1>6, <1>7, <1>8, <1>9, <1>10, <1>11

(* A byte of an extent has its place on the device, and the layout wants   *)
(* something there.                                                        *)
LEMMA CoveredPlace ==
  ASSUME layout \in Layouts, Accepted(layout), NEW n \in AllPebs(layout),
         NEW o \in Nat, Covers(n, o)
  PROVE  Where(n, o) \in Bytes
<1> DEFINE x == Peb(layout, n).extents
           id == Peb(layout, n).id
<1>1. /\ id \in Nat /\ id < PebsCount /\ x \in Seq(ExtentType) /\ DOMAIN x = 1 .. Len(x)
      /\ \A e \in 1 .. Len(x) : End(x, e) <= PebSize
  BY PebFacts
<1>2. PICK e \in 1 .. Len(x) : o < End(x, e)
  BY <1>1 DEF Covers
<1>3. End(x, e) \in Nat
  BY <1>1, ExtentTypes
<1>4. PebSize \in Nat /\ PebsCount \in Nat
  BY MkfsWriteAssumption DEF PebSize
<1>5. o < PebSize
  BY <1>1, <1>2, <1>3, <1>4
<1> HIDE DEF id
<1>6. id * PebSize + PebSize <= PebsCount * PebSize /\ id * PebSize \in Nat
      /\ PebsCount * PebSize \in Nat
  BY <1>1, <1>4
<1>7. id * PebSize + o \in 0 .. PebsCount * PebSize - 1
  BY <1>4, <1>5, <1>6
<1> QED
  BY <1>7 DEF Where, Bytes, id

(* The numbers of a turn of the copy loop. *)
LEMMA TurnFacts ==
  ASSUME StaysInv, PlaceInv, pc = "peb", cur.left > 0
  PROVE  /\ At \in 0 .. PageSize - 1 /\ Copied \in 0 .. cur.left
         /\ At < buf.off => /\ out.flushed + PageSize <= cur.off
                            /\ Copied = 0
         /\ ~(At < buf.off) => cur.off = out.flushed + At
         /\ MustFlush =>
              /\ At < buf.off \/ At + Copied = PageSize
              /\ out.flushed + PageSize <= cur.off + Copied
              /\ cur.off + Copied < out.flushed + PageSize + PageSize
              /\ cur.left - Copied = 0 => cur.off + Copied = out.flushed + PageSize
         /\ ~MustFlush =>
              /\ ~(At < buf.off)
              /\ Copied = cur.left /\ At + Copied \in 0 .. PageSize - 1
              /\ cur.off + Copied = out.flushed + (At + Copied)
<1> DEFINE n == PageSize
           off == cur.off
           left == cur.left
           bo == buf.off
           fl == out.flushed
           at == At
           c == Copied
<1>1. /\ n \in Nat \ {0} /\ off \in Nat /\ left \in Nat /\ left > 0
      /\ bo \in 0 .. n - 1 /\ fl \in Nat
  BY LoopTypes
<1>2. fl % n = 0
  BY DEF StaysInv, PebInv
<1>3. fl + bo <= off /\ off < fl + bo + n
  BY <1>1 DEF PlaceInv, BufferInv, Window
<1>4. at = off % n
  BY DEF At
<1>5. /\ at < bo => c = 0
      /\ ~(at < bo) /\ left < n - at => c = left
      /\ ~(at < bo) /\ ~(left < n - at) => c = n - at
  BY DEF Copied
<1>6. MustFlush <=> (at < bo \/ at + c = n)
  BY DEF MustFlush
<1> HIDE DEF n, off, left, bo, fl, at, c
<1>7. TurnBefore(n, off, left, bo, fl, at, c)
  BY <1>1, <1>2, <1>3, <1>4, <1>5 DEF TurnBefore
<1>8. TurnAfter(n, off, left, bo, fl, at, c)
  BY <1>7, CopyWindow
<1>9. /\ at \in 0 .. n - 1 /\ c \in 0 .. left
      /\ at < bo => fl + n <= off /\ c = 0
      /\ ~(at < bo) => off = fl + at
      /\ MustFlush =>
           /\ at < bo \/ at + c = n
           /\ fl + n <= off + c /\ off + c < fl + n + n
           /\ left - c = 0 => off + c = fl + n
      /\ ~MustFlush =>
           /\ ~(at < bo)
           /\ c = left /\ at + c \in 0 .. n - 1 /\ off + c = fl + (at + c)
  BY <1>6, <1>8 DEF TurnAfter
<1> QED
  BY <1>9 DEF n, off, left, bo, fl, at, c

(* What is put into the buffer is what the layout wants there, and the     *)
(* buffer then lacks no byte below the place that the loop has reached.    *)
LEMMA FilledFacts ==
  ASSUME StaysInv, PlaceInv, pc = "peb", cur.left > 0
  PROVE  /\ \A d \in 0 .. PageSize - 1 :
              Filled[d] = Erased \/ Filled[d] \in Expected(out.vol + d)
         /\ \A o \in Nat : /\ Covers(Cur, o) /\ out.flushed <= o
                           /\ o < out.flushed + PageSize
                           /\ o < cur.off \/ (~(At < buf.off) /\ o < out.flushed + (At + Copied))
              => Filled[o - out.flushed] \notin Blank
<1> DEFINE x == CurPeb.extents
           ext == cur.ext
           tag(d) == <<cur.seg, cur.peb, ext, CurExtent.size - cur.left + d - At>>
<1>1. /\ PageSize \in Nat \ {0} /\ cur.off \in Nat /\ cur.left \in Nat
      /\ out.vol \in Nat /\ out.flushed \in Nat /\ ext \in Nat
      /\ cur.seg \in Nat \ {0} /\ buf.off \in 0 .. PageSize - 1
  BY LoopTypes
<1>2. /\ Cur \in AllPebs(layout) /\ Peb(layout, Cur) = CurPeb
      /\ CurPeb.id \in Nat /\ x \in Seq(ExtentType) /\ Len(x) \in Nat \ {0}
  BY CurPebFacts DEF Cur
<1>3. ext \in 1 .. Len(x) /\ cur.off + cur.left = End(x, ext)
      /\ out.vol = CurPeb.id * PebSize + out.flushed
  <2>1. /\ ext \in 0 .. Len(x)
        /\ ext = 0 => cur.left = 0 /\ cur.off = 0
        /\ ext > 0 => cur.off + cur.left = End(x, ext)
        /\ out.vol = CurPeb.id * PebSize + out.flushed
    BY DEF StaysInv, PebInv
  <2>2. ext # 0
    BY <1>1, <2>1
  <2>3. \A e, l \in Nat : e \in 0 .. l /\ e # 0 => e \in 1 .. l /\ e > 0
    OBVIOUS
  <2>4. ext \in 1 .. Len(x) /\ ext > 0
    BY <1>1, <1>2, <2>1, <2>2, <2>3
  <2> QED
    BY <2>1, <2>4
<1>4. /\ x[ext].off \in Nat /\ x[ext].size \in Nat \ {0} /\ ext \in DOMAIN x
      /\ x[ext].off <= cur.off /\ CurExtent = x[ext]
  <2>1. x[ext].off <= cur.off
    BY <1>1, <1>3 DEF PlaceInv, BufferInv
  <2> QED
    BY <1>2, <1>3, <2>1, ExtentTypes DEF CurExtent
<1>5. /\ At \in 0 .. PageSize - 1 /\ Copied \in 0 .. cur.left
      /\ At < buf.off => out.flushed + PageSize <= cur.off /\ Copied = 0
      /\ ~(At < buf.off) => cur.off = out.flushed + At
  BY TurnFacts
<1>6. \A d \in 0 .. PageSize - 1 :
        Filled[d] = IF d \in At .. At + Copied - 1 THEN tag(d) ELSE buf.bytes[d]
  BY DEF Filled
<1>7. \A d : tag(d) \notin Blank
  BY <1>1 DEF Blank, Old, Erased
<1>8. ASSUME NEW d \in 0 .. PageSize - 1, d \in At .. At + Copied - 1
      PROVE  tag(d) \in Expected(out.vol + d)
  <2> DEFINE base == CurPeb.id * PebSize
             vol == out.vol
             xo == x[ext].off
             xs == x[ext].size
             off == cur.off
             left == cur.left
             fl == out.flushed
             at == At
             c == Copied
             num == CurExtent.size - cur.left + d - At
  <2>1. base \in Nat
    BY <1>2, MkfsWriteAssumption DEF PebSize
  <2>2. /\ xo \in Nat /\ xs \in Nat /\ off \in Nat /\ left \in Nat /\ vol \in Nat
        /\ fl \in Nat /\ at \in 0 .. PageSize - 1 /\ c \in 0 .. left /\ d \in at .. at + c - 1
        /\ xo <= off /\ PageSize \in Nat /\ d \in 0 .. PageSize - 1
    BY <1>1, <1>4, <1>5, <1>8
  <2>3. off + left = xo + xs /\ vol = base + fl
    BY <1>3 DEF End
  <2>4. num = xs - left + d - at
    BY <1>4
  <2>5. off = fl + at
    <3>1. ~(At < buf.off)
      BY <1>5, <1>8
    <3> QED
      BY <1>5, <3>1
  <2> HIDE DEF base, vol, xo, xs, off, left, fl, at, c, num
  <2>6. /\ (vol + d) - base \in xo .. xo + xs - 1
        /\ num = (vol + d) - base - xo
    BY <2>1, <2>2, <2>3, <2>4, <2>5
  <2>7. /\ (out.vol + d) - Peb(layout, Cur).id * PebSize \in
             Peb(layout, Cur).extents[ext].off ..
               Peb(layout, Cur).extents[ext].off + Peb(layout, Cur).extents[ext].size - 1
        /\ num = (out.vol + d) - Peb(layout, Cur).id * PebSize - Peb(layout, Cur).extents[ext].off
    BY <1>2, <2>6 DEF base, vol, xo, xs
  <2>8. tag(d) = <<Cur[1], Cur[2], ext, num>>
    BY DEF Cur, num
  <2>9. ext \in DOMAIN Peb(layout, Cur).extents
    BY <1>2, <1>4
  <2> HIDE DEF x, ext, tag
  <2> QED
    BY <1>2, <2>7, <2>8, <2>9, ExpectedIs
<1> HIDE DEF x, ext, tag
<1>9. \A d \in 0 .. PageSize - 1 :
        Filled[d] = Erased \/ Filled[d] \in Expected(out.vol + d)
  <2>1. \A d \in 0 .. PageSize - 1 :
          buf.bytes[d] = Erased \/ buf.bytes[d] \in Expected(out.vol + d)
    BY DEF PlaceInv, BufferInv
  <2> QED
    BY <1>6, <1>8, <2>1
<1>10. ASSUME NEW o \in Nat, Covers(Cur, o), out.flushed <= o, o < out.flushed + PageSize,
              o < cur.off \/ (~(At < buf.off) /\ o < out.flushed + (At + Copied))
       PROVE  Filled[o - out.flushed] \notin Blank
  <2> DEFINE d == o - out.flushed
  <2>1. d \in 0 .. PageSize - 1
    BY <1>1, <1>10
  <2>2. CASE o < cur.off
    <3>1. buf.bytes[d] \notin Blank
      BY <1>10, <2>2 DEF PlaceInv, BufferInv
    <3> HIDE DEF d
    <3> QED
      BY <1>6, <1>7, <2>1, <3>1 DEF d
  <2>3. CASE ~(o < cur.off)
    <3>1. cur.off = out.flushed + At /\ o < out.flushed + (At + Copied)
      BY <1>5, <1>10, <2>3
    <3>2. \A fl, at, c \in Nat : o < fl + (at + c) /\ ~(o < fl + at) =>
             o - fl \in at .. at + c - 1
      OBVIOUS
    <3>3. At \in Nat /\ Copied \in Nat
      BY <1>1, <1>5
    <3>4. d \in At .. At + Copied - 1
      BY <1>1, <2>3, <3>1, <3>2, <3>3
    <3> HIDE DEF d
    <3> QED
      BY <1>6, <1>7, <2>1, <3>4 DEF d
  <2> QED
    BY <2>2, <2>3
<1> QED
  BY <1>9, <1>10

LEMMA DataGrows ==
  ASSUME Kept
  PROVE  Data \subseteq Data'
<1>1. \A b \in Data : b \in Bytes /\ dev'[b] = dev[b] /\ dev[b] \notin {Old, Erased}
  BY DEF Kept, Data
<1> QED
  BY <1>1 DEF Data

(* What the layout wants does not change. *)
LEMMA SameLayout ==
  ASSUME layout' = layout
  PROVE  /\ AllPebs(layout)' = AllPebs(layout)
         /\ \A b : Expected(b)' = Expected(b)
         /\ \A n, o : (Covers(n, o)' <=> Covers(n, o)) /\ Where(n, o)' = Where(n, o)
<1>1. \A b : Expected(b)' = Expected(b)
  BY DEF Expected
<1>2. \A n, o : (Covers(n, o)' <=> Covers(n, o)) /\ Where(n, o)' = Where(n, o)
  BY DEF Covers, Where
<1> QED
  BY <1>1, <1>2

(* A page is flushed that holds what the layout wants there. *)
LEMMA FlushPlaces ==
  ASSUME StaysInv, PlaceInv, pc = "peb", layout' = layout, NEW bytes, FlushBuffer(bytes),
         out.flushed < End(CurPeb.extents, Len(CurPeb.extents)),
         \A d \in 0 .. PageSize - 1 : bytes[d] = Erased \/ bytes[d] \in Expected(out.vol + d),
         \A o \in Nat : Covers(Cur, o) /\ out.flushed <= o /\ o < out.flushed + PageSize
           => bytes[o - out.flushed] \notin Blank
  PROVE  /\ Data \subseteq Data'
         /\ DataRight'
         /\ \A o \in Nat : Covers(Cur, o) /\ o < out.flushed + PageSize => Where(Cur, o) \in Data'
<1> DEFINE v == out.vol
           page == v .. v + PageSize - 1
<1>1. /\ PageSize \in Nat \ {0} /\ v \in Nat /\ out.flushed \in Nat /\ Bytes \subseteq Nat
      /\ v = CurPeb.id * PebSize + out.flushed /\ CurPeb.id * PebSize \in Nat
  <2>1. PageSize \in Nat \ {0} /\ v \in Nat /\ out.flushed \in Nat
    BY LoopTypes
  <2>2. v = CurPeb.id * PebSize + out.flushed
    BY DEF StaysInv, PebInv
  <2>3. CurPeb.id * PebSize \in Nat /\ Bytes \subseteq Nat
    BY CurPebFacts, MkfsWriteAssumption DEF PebSize, Bytes
  <2> QED
    BY <2>1, <2>2, <2>3
<1>2. dev' = [b \in Bytes |-> IF b \in page THEN bytes[b - v] ELSE dev[b]]
  BY DEF FlushBuffer
<1>3. Kept /\ Data \subseteq Data'
  BY FlushKeeps, DataGrows
<1>4. \A b \in page : b - v \in 0 .. PageSize - 1 /\ v + (b - v) = b
  <2> HIDE DEF v
  <2> QED
    BY <1>1
<1>5. DataRight'
  <2> SUFFICES ASSUME NEW b \in Data' PROVE dev'[b] \in Expected(b)
    BY SameLayout DEF DataRight
  <2>1. b \in Bytes /\ dev'[b] \notin {Old, Erased}
    BY DEF Data
  <2>2. CASE b \in page
    <3>1. dev'[b] = bytes[b - v]
      BY <1>2, <2>1, <2>2
    <3>2. bytes[b - v] = Erased \/ bytes[b - v] \in Expected(v + (b - v))
      BY <1>4, <2>2
    <3> QED
      BY <1>4, <2>1, <2>2, <3>1, <3>2
  <2>3. CASE b \notin page
    <3>1. dev'[b] = dev[b]
      BY <1>2, <2>1, <2>3
    <3> QED
      BY <2>1, <3>1 DEF Data, PlaceInv, DataRight
  <2> QED
    BY <2>2, <2>3
<1>6. ASSUME NEW o \in Nat, Covers(Cur, o), o < out.flushed + PageSize
      PROVE  Where(Cur, o) \in Data'
  <2>1. CASE o < out.flushed
    BY <1>3, <1>6, <2>1 DEF PlaceInv, BufferInv
  <2>2. CASE ~(o < out.flushed)
    <3>1. Cur \in AllPebs(layout) /\ Peb(layout, Cur) = CurPeb
      BY CurPebFacts DEF Cur
    <3>2. layout \in Layouts /\ Accepted(layout)
      BY DEF StaysInv, PoolInv, DataInv
    <3>3. Where(Cur, o) \in Bytes
      BY <1>6, <3>1, <3>2, CoveredPlace
    <3>4. out.flushed <= o
      BY <1>1, <2>2
    <3>5. bytes[o - out.flushed] \notin Blank
      BY <1>6, <3>4
    <3>6. Where(Cur, o) = CurPeb.id * PebSize + o
      BY <3>1 DEF Where
    <3>7. \A base, fl, n \in Nat : fl <= o /\ o < fl + n =>
             /\ base + o \in (base + fl) .. (base + fl) + n - 1
             /\ (base + o) - (base + fl) = o - fl
      OBVIOUS
    <3>8. Where(Cur, o) \in page /\ Where(Cur, o) - v = o - out.flushed
      BY <1>1, <1>6, <3>4, <3>6, <3>7
    <3>9. dev'[Where(Cur, o)] = bytes[o - out.flushed]
      BY <1>2, <3>3, <3>8
    <3> QED
      BY <3>3, <3>5, <3>9 DEF Data, Blank
  <2> QED
    BY <2>1, <2>2
<1> QED
  BY <1>3, <1>5, <1>6

LEMMA PebsStayWritten ==
  ASSUME PebsWritten, layout' = layout, Data \subseteq Data',
         \A n \in AllPebs(layout) : Before(n)' => Before(n)
  PROVE  PebsWritten'
  BY SameLayout DEF PebsWritten

(* A turn of the copy loop: with the page that is flushed, or without. *)
LEMMA PlaceCopy ==
  ASSUME StaysInv, PlaceInv, CopyBytes
  PROVE  PlaceInv'
<1>1. /\ pc = "peb" /\ pc' = "peb" /\ cur.left > 0 /\ layout' = layout /\ res' = res
      /\ cur' = [cur EXCEPT !.off = @ + Copied, !.left = @ - Copied]
  BY DEF CopyBytes, inputs
<1>2. /\ PageSize \in Nat \ {0} /\ cur.off \in Nat /\ cur.left \in Nat
      /\ out.vol \in Nat /\ out.flushed \in Nat /\ buf.off \in 0 .. PageSize - 1
      /\ cur.ext \in Nat
  BY <1>1, LoopTypes
<1>3. /\ cur'.seg = cur.seg /\ cur'.peb = cur.peb /\ cur'.ext = cur.ext
      /\ cur'.off = cur.off + Copied /\ cur'.left = cur.left - Copied
  <2>1. cur \in [seg : Nat \ {0}, peb : Nat \ {0}, ext : Nat, off : Nat, left : Nat]
    BY DEF StaysInv, WriteTypes
  <2> QED
    BY <1>1, <2>1
<1>4. Cur' = Cur /\ CurPeb' = CurPeb /\ \A n : Before(n)' <=> Before(n)
  BY <1>1, <1>3 DEF Cur, CurPeb, Before
<1>5. /\ At \in 0 .. PageSize - 1 /\ Copied \in 0 .. cur.left
      /\ At < buf.off => out.flushed + PageSize <= cur.off /\ Copied = 0
      /\ ~(At < buf.off) => cur.off = out.flushed + At
  BY <1>1, TurnFacts
<1>6. /\ \A d \in 0 .. PageSize - 1 : Filled[d] = Erased \/ Filled[d] \in Expected(out.vol + d)
      /\ \A o \in Nat : /\ Covers(Cur, o) /\ out.flushed <= o
                        /\ o < out.flushed + PageSize
                        /\ o < cur.off \/ (~(At < buf.off) /\ o < out.flushed + (At + Copied))
           => Filled[o - out.flushed] \notin Blank
  BY <1>1, FilledFacts
<1>7. /\ \A n, o : (Covers(n, o)' <=> Covers(n, o)) /\ Where(n, o)' = Where(n, o)
      /\ \A b : Expected(b)' = Expected(b)
  BY <1>1, SameLayout
<1>8. /\ res = "none" /\ res' = "none" /\ LayoutOnDevice' /\ DataRight /\ PebsWritten /\ BufferInv
  BY <1>1 DEF PlaceInv, LayoutOnDevice
<1>9. cur.ext > 0 => CurPeb.extents[cur.ext].off <= cur'.off
  <2>1. cur.ext > 0 => cur.ext \in 1 .. Len(CurPeb.extents)
    BY <1>1, <1>2 DEF StaysInv, PebInv
  <2>2. cur.ext > 0 => CurPeb.extents[cur.ext].off \in Nat
    BY <1>1, <2>1, CurPebFacts, ExtentTypes
  <2>3. \A a, off, c \in Nat : a <= off => a <= off + c
    OBVIOUS
  <2>4. Copied \in Nat
    BY <1>2, <1>5
  <2> QED
    BY <1>2, <1>3, <1>8, <2>2, <2>3, <2>4 DEF BufferInv
<1>10. CASE MustFlush
  <2>1. FlushBuffer(Filled)
    BY <1>10 DEF CopyBytes
  <2>2. /\ At < buf.off \/ At + Copied = PageSize
        /\ out.flushed + PageSize <= cur.off + Copied
        /\ cur.off + Copied < out.flushed + PageSize + PageSize
        /\ cur.left - Copied = 0 => cur.off + Copied = out.flushed + PageSize
    BY <1>1, <1>10, TurnFacts
  <2>3. /\ buf' = [bytes |-> EmptyBuf, off |-> 0]
        /\ out' = [vol |-> out.vol + PageSize, flushed |-> out.flushed + PageSize]
    BY <2>1 DEF FlushBuffer
  <2>4. /\ out'.vol = out.vol + PageSize /\ out'.flushed = out.flushed + PageSize
        /\ buf'.off = 0 /\ buf'.bytes = EmptyBuf
    BY <2>3
  <2>5. \A o \in Nat : Covers(Cur, o) /\ out.flushed <= o /\ o < out.flushed + PageSize
          => Filled[o - out.flushed] \notin Blank
    <3> SUFFICES ASSUME NEW o \in Nat, Covers(Cur, o), out.flushed <= o,
                        o < out.flushed + PageSize
                 PROVE  o < cur.off \/ (~(At < buf.off) /\ o < out.flushed + (At + Copied))
      BY <1>6
    <3>1. CASE At < buf.off
      BY <1>2, <1>5, <3>1
    <3>2. CASE ~(At < buf.off)
      BY <2>2, <3>2
    <3> QED
      BY <3>1, <3>2
  <2>6. out.flushed < End(CurPeb.extents, Len(CurPeb.extents))
    <3> DEFINE x == CurPeb.extents
    <3>1. cur.ext \in 1 .. Len(x) /\ cur.off + cur.left = End(x, cur.ext)
      <4>1. cur.ext \in 0 .. Len(x) /\ (cur.ext > 0 => cur.off + cur.left = End(x, cur.ext))
            /\ (cur.ext = 0 => cur.left = 0)
        BY <1>1 DEF StaysInv, PebInv
      <4>2. Len(x) \in Nat
        BY <1>1, CurPebFacts
      <4>3. cur.ext # 0
        BY <1>1, <1>2, <4>1
      <4>4. \A e, l \in Nat : e \in 0 .. l /\ e # 0 => e \in 1 .. l /\ e > 0
        OBVIOUS
      <4> QED
        BY <1>2, <4>1, <4>2, <4>3, <4>4
    <3>2. End(x, cur.ext) \in Nat /\ End(x, Len(x)) \in Nat /\ End(x, cur.ext) <= End(x, Len(x))
      <4>1. Len(x) \in Nat \ {0}
        BY <1>1, CurPebFacts
      <4>2. Len(x) \in 1 .. Len(x)
        BY <4>1
      <4> QED
        BY <1>1, <3>1, <4>2, LoopTypes
    <3>3. out.flushed + buf.off <= cur.off
      BY <1>1, <1>2, <1>8 DEF BufferInv, Window
    <3>4. \A fl, bo, off, left, e, l \in Nat :
            fl + bo <= off /\ left > 0 /\ off + left = e /\ e <= l => fl < l
      OBVIOUS
    <3>5. buf.off \in Nat
      BY <1>2
    <3> HIDE DEF x
    <3>6. out.flushed < End(x, Len(x))
      BY <1>1, <1>2, <3>1, <3>2, <3>3, <3>4, <3>5
    <3> QED
      BY <3>6 DEF x
  <2>7. /\ Data \subseteq Data' /\ DataRight'
        /\ \A o \in Nat : Covers(Cur, o) /\ o < out.flushed + PageSize => Where(Cur, o) \in Data'
    BY <1>1, <1>6, <2>1, <2>5, <2>6, FlushPlaces
  <2>8. Window'
    <3>1. \A fl, n, off, c, left \in Nat :
            /\ fl + n <= off + c /\ off + c < fl + n + n
            /\ left - c = 0 => off + c = fl + n
            => /\ (fl + n) + 0 <= off + c /\ off + c < (fl + n) + 0 + n
               /\ left - c = 0 => off + c = (fl + n) + 0
      OBVIOUS
    <3>2. Copied \in Nat /\ PageSize \in Nat
      BY <1>2, <1>5
    <3>3. /\ (out.flushed + PageSize) + 0 <= cur.off + Copied
          /\ cur.off + Copied < (out.flushed + PageSize) + 0 + PageSize
          /\ cur.left - Copied = 0 => cur.off + Copied = (out.flushed + PageSize) + 0
      BY <1>2, <2>2, <3>1, <3>2
    <3> QED
      BY <1>3, <2>4, <3>3 DEF Window
  <2>9. \A o \in Nat : ~(Covers(Cur, o) /\ out'.flushed <= o /\ o < cur'.off)
    <3> SUFFICES ASSUME NEW o \in Nat, Covers(Cur, o), out.flushed + PageSize <= o,
                        o < cur.off + Copied
                 PROVE  FALSE
      BY <1>3, <2>4
    <3>1. CASE At < buf.off
      <4>1. o < cur.off /\ out.flushed <= o
        BY <1>2, <1>5, <3>1
      <4>2. o < out.flushed + buf.off
        BY <1>8, <4>1 DEF BufferInv
      <4> QED
        BY <1>2, <4>2
    <3>2. CASE ~(At < buf.off)
      <4>1. At + Copied = PageSize /\ cur.off = out.flushed + At
        BY <1>5, <2>2, <3>2
      <4>2. \A fl, at, c, n \in Nat : at + c = n => (fl + at) + c = fl + n
        OBVIOUS
      <4>3. At \in Nat /\ Copied \in Nat /\ PageSize \in Nat
        BY <1>2, <1>5
      <4>4. cur.off + Copied = out.flushed + PageSize
        BY <1>2, <4>1, <4>2, <4>3
      <4> QED
        BY <1>2, <4>4
    <3> QED
      BY <3>1, <3>2
  <2>10. \A d \in 0 .. PageSize - 1 : buf'.bytes[d] = Erased
    BY <2>4 DEF EmptyBuf
  <2>11. BufferInv'
    BY <1>3, <1>4, <1>7, <1>9, <2>4, <2>7, <2>8, <2>9, <2>10 DEF BufferInv
  <2>12. PebsWritten'
    BY <1>1, <1>4, <1>8, <2>7, PebsStayWritten
  <2> QED
    BY <1>1, <1>8, <2>7, <2>11, <2>12 DEF PlaceInv
<1>11. CASE ~MustFlush
  <2>1. dev' = dev /\ out' = out /\ buf' = [bytes |-> Filled, off |-> At + Copied]
    BY <1>11 DEF CopyBytes
  <2>2. buf'.off = At + Copied /\ buf'.bytes = Filled
    BY <2>1
  <2>3. /\ ~(At < buf.off)
        /\ Copied = cur.left /\ At + Copied \in 0 .. PageSize - 1
        /\ cur.off + Copied = out.flushed + (At + Copied)
    BY <1>1, <1>11, TurnFacts
  <2>4. Data' = Data /\ DataRight'
    BY <1>7, <1>8, <2>1 DEF Data, DataRight
  <2>5. Window'
    <3>1. \A fl, b, n \in Nat : n # 0 => fl + b <= fl + b /\ fl + b < fl + b + n
      OBVIOUS
    <3>2. At + Copied \in Nat /\ PageSize \in Nat /\ PageSize # 0
      BY <1>2, <2>3
    <3> QED
      BY <1>2, <1>3, <2>1, <2>2, <2>3, <3>1, <3>2 DEF Window
  <2>6. ASSUME NEW o \in Nat, Covers(Cur, o), out.flushed <= o, o < cur'.off
        PROVE  o < out.flushed + buf'.off /\ buf'.bytes[o - out.flushed] \notin Blank
    <3>1. o < out.flushed + (At + Copied)
      BY <1>3, <2>3, <2>6
    <3>2. o < out.flushed + PageSize
      <4>1. \A fl, b, n \in Nat : o < fl + b /\ b \in 0 .. n - 1 => o < fl + n
        OBVIOUS
      <4>2. At + Copied \in Nat /\ PageSize \in Nat
        BY <1>2, <2>3
      <4> QED
        BY <1>2, <2>3, <3>1, <4>1, <4>2
    <3> QED
      BY <1>6, <2>2, <2>3, <2>6, <3>1, <3>2
  <2>7. BufferInv'
    BY <1>3, <1>4, <1>6, <1>7, <1>8, <1>9, <2>1, <2>2, <2>4, <2>5, <2>6 DEF BufferInv
  <2>8. PebsWritten'
    BY <1>1, <1>4, <1>8, <2>4, PebsStayWritten
  <2> QED
    BY <1>1, <1>8, <2>4, <2>7, <2>8 DEF PlaceInv
<1> QED
  BY <1>10, <1>11

(* A byte of the current PEB's extents lies before the end of the last one. *)
LEMMA CoveredBelowEnd ==
  ASSUME StaysInv, pc = "peb", NEW o \in Nat, Covers(Cur, o)
  PROVE  o < End(CurPeb.extents, Len(CurPeb.extents))
<1> DEFINE x == CurPeb.extents
<1>1. Peb(layout, Cur) = CurPeb /\ x \in Seq(ExtentType) /\ Len(x) \in Nat \ {0}
  BY CurPebFacts DEF Cur
<1>2. PICK e \in DOMAIN x : o < End(x, e)
  BY <1>1 DEF Covers
<1>3. e \in 1 .. Len(x) /\ Len(x) \in 1 .. Len(x)
  BY <1>1
<1>4. End(x, e) \in Nat /\ End(x, Len(x)) \in Nat /\ End(x, e) <= End(x, Len(x))
  BY <1>3, LoopTypes
<1> HIDE DEF x
<1>5. o < End(x, Len(x))
  BY <1>2, <1>4
<1> QED
  BY <1>5 DEF x

(* At the end of the last extent. *)
LEMMA CopiedEnd ==
  ASSUME StaysInv, PebCopied
  PROVE  cur.off = End(CurPeb.extents, Len(CurPeb.extents))
<1>1. pc = "peb" /\ cur.left = 0 /\ cur.ext = Len(CurPeb.extents)
  BY DEF PebCopied
<1>2. cur.ext > 0
  BY <1>1, CurPebFacts
<1>3. cur.off + cur.left = End(CurPeb.extents, Len(CurPeb.extents)) /\ cur.off \in Nat
  BY <1>1, <1>2, LoopTypes DEF StaysInv, PebInv
<1> QED
  BY <1>1, <1>3

LEMMA PlaceFlushRest ==
  ASSUME StaysInv, PlaceInv, FlushRest
  PROVE  PlaceInv'
<1>1. /\ pc = "peb" /\ pc' = "peb" /\ cur' = cur /\ layout' = layout /\ res' = res
      /\ cur.left = 0 /\ PebCopied
      /\ cur.off > out.flushed /\ cur.off - out.flushed <= PageSize
      /\ FlushBuffer(buf.bytes)
  BY DEF FlushRest, PebCopied, inputs
<1>2. /\ PageSize \in Nat \ {0} /\ cur.off \in Nat /\ out.flushed \in Nat
  BY <1>1, LoopTypes
<1>3. cur.off = End(CurPeb.extents, Len(CurPeb.extents))
  BY <1>1, CopiedEnd
<1>4. out.flushed < End(CurPeb.extents, Len(CurPeb.extents))
  BY <1>1, <1>2, <1>3
<1>5. res = "none" /\ LayoutOnDevice' /\ PebsWritten /\ BufferInv
  BY <1>1 DEF PlaceInv, LayoutOnDevice
<1>6. \A o \in Nat : Covers(Cur, o) /\ out.flushed <= o /\ o < out.flushed + PageSize
        => buf.bytes[o - out.flushed] \notin Blank
  BY <1>1, <1>3, <1>5, CoveredBelowEnd DEF BufferInv
<1>7. \A d \in 0 .. PageSize - 1 : buf.bytes[d] = Erased \/ buf.bytes[d] \in Expected(out.vol + d)
  BY <1>5 DEF BufferInv
<1>8. /\ Data \subseteq Data' /\ DataRight'
      /\ \A o \in Nat : Covers(Cur, o) /\ o < out.flushed + PageSize => Where(Cur, o) \in Data'
  BY <1>1, <1>4, <1>6, <1>7, FlushPlaces
<1>9. /\ buf' = [bytes |-> EmptyBuf, off |-> 0]
      /\ out' = [vol |-> out.vol + PageSize, flushed |-> out.flushed + PageSize]
  BY <1>1 DEF FlushBuffer
<1>10. out'.flushed = out.flushed + PageSize /\ buf'.off = 0 /\ buf'.bytes = EmptyBuf
  BY <1>9
<1>11. cur.off <= out.flushed + PageSize
  BY <1>1, <1>2
<1>12. Window'
  BY <1>1, <1>10, <1>11 DEF Window
<1>13. \A o \in Nat : ~(out'.flushed <= o /\ o < cur.off)
  BY <1>2, <1>10, <1>11
<1>14. Cur' = Cur /\ CurPeb' = CurPeb /\ \A n : Before(n)' <=> Before(n)
  BY <1>1 DEF Cur, CurPeb, Before
<1>15. \A d \in 0 .. PageSize - 1 : buf'.bytes[d] = Erased
  BY <1>10 DEF EmptyBuf
<1>16. \A n, o : (Covers(n, o)' <=> Covers(n, o)) /\ Where(n, o)' = Where(n, o)
  BY <1>1, SameLayout
<1>17. BufferInv'
  BY <1>1, <1>5, <1>8, <1>10, <1>12, <1>13, <1>14, <1>15, <1>16 DEF BufferInv
<1>18. PebsWritten'
  BY <1>1, <1>5, <1>8, <1>14, PebsStayWritten
<1> QED
  BY <1>1, <1>5, <1>8, <1>17, <1>18 DEF PlaceInv

(* The next extent starts less than a page behind, and the space between   *)
(* the two belongs to none.                                                *)
LEMMA PlaceNextExtent ==
  ASSUME StaysInv, PlaceInv, NextExtent
  PROVE  PlaceInv'
<1> DEFINE x == CurPeb.extents
           k == cur.ext + 1
<1>1. /\ pc = "peb" /\ pc' = "peb" /\ layout' = layout /\ dev' = dev /\ res' = res
      /\ buf' = buf /\ out' = out
      /\ cur.left = 0 /\ cur.ext < Len(x)
      /\ x[k].off >= cur.off
      /\ cur' = [cur EXCEPT !.ext = @ + 1, !.off = x[k].off, !.left = x[k].size]
  BY DEF NextExtent, inputs
<1>2. /\ PageSize \in Nat \ {0} /\ cur.off \in Nat /\ cur.left \in Nat
      /\ out.flushed \in Nat /\ buf.off \in 0 .. PageSize - 1 /\ cur.ext \in Nat
  BY <1>1, LoopTypes
<1>3. /\ Cur \in AllPebs(layout) /\ Peb(layout, Cur) = CurPeb
      /\ x \in Seq(ExtentType) /\ Len(x) \in Nat \ {0} /\ x[1].off < PageSize
      /\ ExtentsInOrder(x)
  BY <1>1, CurPebFacts DEF Cur
<1>4. k \in 1 .. Len(x) /\ k \in Nat
  BY <1>1, <1>2, <1>3
<1>5. x[k].off \in Nat /\ x[k].size \in Nat
  BY <1>3, <1>4, ExtentTypes
<1>6. /\ cur'.seg = cur.seg /\ cur'.peb = cur.peb /\ cur'.ext = k
      /\ cur'.off = x[k].off /\ cur'.left = x[k].size
  <2>1. cur \in [seg : Nat \ {0}, peb : Nat \ {0}, ext : Nat, off : Nat, left : Nat]
    BY DEF StaysInv, WriteTypes
  <2> QED
    BY <1>1, <2>1
<1>7. /\ cur.ext \in 0 .. Len(x)
      /\ cur.ext = 0 => cur.off = 0
      /\ cur.ext > 0 => cur.off + cur.left = End(x, cur.ext)
      /\ \/ out.flushed + buf.off <= cur.off
         \/ cur.ext = Len(x)
  BY <1>1 DEF StaysInv, PebInv
<1>8. BufferInv /\ PebsWritten /\ DataRight /\ res = "none" /\ LayoutOnDevice'
  BY <1>1 DEF PlaceInv, LayoutOnDevice
<1>9. cur.off = out.flushed + buf.off
  <2>1. out.flushed + buf.off <= cur.off
    BY <1>1, <1>2, <1>3, <1>7
  <2>2. cur.off = out.flushed + buf.off \/ cur.off <= out.flushed
    BY <1>1, <1>8 DEF BufferInv, Window
  <2>3. \A fl, bo, off \in Nat : fl + bo <= off /\ off <= fl => off = fl + bo
    OBVIOUS
  <2>4. buf.off \in Nat
    BY <1>2
  <2> QED
    BY <1>2, <2>1, <2>2, <2>3, <2>4
<1>10. cur.ext > 0 => cur.off = End(x, cur.ext) /\ cur.ext \in 1 .. Len(x) /\ k > cur.ext
  BY <1>1, <1>2, <1>3, <1>7
<1>11. x[k].off - cur.off < PageSize
  <2>1. CASE cur.ext = 0
    BY <1>2, <1>3, <1>5, <1>7, <2>1
  <2>2. CASE cur.ext > 0
    <3>1. cur.ext \in 1 .. Len(x) - 1
      BY <1>1, <1>2, <1>3, <2>2
    <3>2. x[cur.ext + 1].off - (x[cur.ext].off + x[cur.ext].size) < PageSize
      BY <1>3, <3>1 DEF ExtentsInOrder
    <3> QED
      BY <1>10, <2>2, <3>2 DEF End
  <2> QED
    BY <1>2, <2>1, <2>2
<1>12. Window'
  <2> DEFINE xo == x[k].off
             fb == out.flushed + buf.off
  <2>1. xo \in Nat /\ fb \in Nat /\ PageSize \in Nat /\ xo >= fb /\ xo - fb < PageSize
    BY <1>1, <1>2, <1>5, <1>9, <1>11
  <2> HIDE DEF xo, fb
  <2>2. fb <= xo /\ xo < fb + PageSize
    BY <2>1
  <2>3. x[k].size \in Nat \ {0}
    BY <1>3, <1>4, ExtentTypes
  <2>4. /\ out.flushed + buf.off <= x[k].off /\ x[k].off < out.flushed + buf.off + PageSize
    BY <2>2 DEF xo, fb
  <2>5. x[k].size # 0
    BY <2>3
  <2> QED
    BY <1>1, <1>6, <2>4, <2>5 DEF Window
<1>13. ASSUME NEW o \in Nat, Covers(Cur, o), o < x[k].off
       PROVE  o < cur.off
  <2>1. PICK e \in DOMAIN x : x[e].off <= o /\ o < End(x, e)
    BY <1>3, <1>13 DEF Covers
  <2>2. e \in 1 .. Len(x) /\ e \in Nat
    BY <1>3
  <2>3. x[e].off \in Nat /\ End(x, e) \in Nat
    BY <1>3, <2>2, ExtentTypes
  <2>4. ~(k < e)
    <3> SUFFICES ASSUME k < e PROVE FALSE
      OBVIOUS
    <3>1. End(x, k) <= x[e].off /\ x[k].off < End(x, k) /\ End(x, k) \in Nat
      BY <1>3, <1>4, <2>2, ExtentsApart, ExtentTypes
    <3> QED
      BY <1>5, <1>13, <2>1, <2>3, <3>1
  <2>5. e # k
    BY <1>5, <1>13, <2>1, <2>3
  <2>6. e <= cur.ext
    BY <1>2, <2>2, <2>4, <2>5
  <2>7. cur.ext > 0
    BY <1>2, <2>2, <2>6
  <2>8. End(x, e) <= End(x, cur.ext) /\ End(x, cur.ext) \in Nat
    <3>1. CASE e = cur.ext
      BY <2>3, <3>1
    <3>2. CASE e < cur.ext
      <4>1. /\ End(x, e) <= x[cur.ext].off /\ x[cur.ext].off \in Nat
            /\ x[cur.ext].off < End(x, cur.ext) /\ End(x, cur.ext) \in Nat
        BY <1>3, <1>10, <2>2, <2>7, <3>2, ExtentsApart, ExtentTypes
      <4> QED
        BY <2>3, <4>1
    <3> QED
      BY <1>2, <2>2, <2>6, <3>1, <3>2
  <2> QED
    BY <1>10, <2>1, <2>3, <2>7, <2>8
<1>14. Cur' = Cur /\ CurPeb' = CurPeb /\ \A n : Before(n)' <=> Before(n)
  BY <1>1, <1>6 DEF Cur, CurPeb, Before
<1>15. /\ \A n, o : (Covers(n, o)' <=> Covers(n, o)) /\ Where(n, o)' = Where(n, o)
       /\ \A b : Expected(b)' = Expected(b)
  BY <1>1, SameLayout
<1>16. Data' = Data /\ DataRight'
  BY <1>1, <1>8, <1>15 DEF Data, DataRight
<1>17. CurPeb'.extents[cur'.ext].off <= cur'.off
  BY <1>5, <1>6, <1>14
<1>18. \A o \in Nat : Covers(Cur, o) /\ out.flushed <= o /\ o < cur'.off =>
         o < out.flushed + buf.off /\ buf.bytes[o - out.flushed] \notin Blank
  BY <1>6, <1>8, <1>13 DEF BufferInv
<1>19. BufferInv'
  BY <1>1, <1>8, <1>12, <1>14, <1>15, <1>16, <1>17, <1>18 DEF BufferInv
<1>20. PebsWritten'
  BY <1>1, <1>8, <1>14, <1>16, PebsStayWritten
<1> QED
  BY <1>1, <1>8, <1>16, <1>19, <1>20 DEF PlaceInv

LEMMA PebsLength ==
  ASSUME NEW l \in Layouts, NEW s \in 1 .. Len(l.segs)
  PROVE  Len(l.segs[s].pebs) \in Nat
<1>1. l.segs \in Seq(SegType)
  BY MkfsWriteAssumption
<1>2. l.segs[s] \in SegType
  BY <1>1
<1>3. l.segs[s].pebs \in Seq(PebType)
  BY <1>2 DEF SegType
<1> QED
  BY <1>3

LEMMA PlaceStartPeb ==
  ASSUME StaysInv, PlaceInv, StartPeb
  PROVE  PlaceInv'
<1>1. /\ pc = "write" /\ layout' = layout /\ dev' = dev /\ res' = res
  BY DEF StartPeb, inputs
<1>2. /\ cur \in [seg : Nat \ {0}, peb : Nat \ {0}, ext : Nat, off : Nat, left : Nat]
      /\ cur.seg \in Nat /\ cur.peb \in Nat
      /\ PageSize \in Nat \ {0} /\ buf.off = 0
  BY <1>1, MkfsWriteAssumption DEF StaysInv, WriteTypes, DataInv
<1>3. PebsWritten /\ DataRight /\ res = "none" /\ LayoutOnDevice'
  BY <1>1 DEF PlaceInv, LayoutOnDevice
<1>4. Data' = Data /\ DataRight'
  BY <1>1, <1>3, SameLayout DEF Data, DataRight
<1>5. layout \in Layouts /\ Accepted(layout)
  BY <1>1 DEF StaysInv, PoolInv, DataInv
<1>6. CASE cur.peb > Len(layout.segs[cur.seg].pebs)
  <2>1. cur' = [cur EXCEPT !.seg = @ + 1, !.peb = 1] /\ pc' = pc
    BY <1>6 DEF StartPeb
  <2>2. cur'.seg = cur.seg + 1 /\ cur'.peb = 1
    BY <1>2, <2>1
  <2>3. ASSUME NEW n \in AllPebs(layout), Before(n)'
        PROVE  Before(n)
    <3>1. /\ n[1] \in Nat /\ n[2] \in Nat \ {0} /\ n[1] \in 1 .. Len(layout.segs)
          /\ n[2] \in 1 .. Len(layout.segs[n[1]].pebs)
      BY <1>5, PebFacts
    <3>2. n[1] < cur.seg + 1
      BY <2>2, <2>3, <3>1 DEF Before
    <3>3. CASE n[1] = cur.seg
      <4>1. n[2] <= Len(layout.segs[cur.seg].pebs)
        BY <3>1, <3>3
      <4>2. n[2] < cur.peb
        <5>1. \A a, b, c \in Nat : a \in 1 .. b /\ c > b => a < c
          OBVIOUS
        <5>2. Len(layout.segs[cur.seg].pebs) \in Nat
          BY <1>5, <3>1, <3>3, PebsLength
        <5> QED
          BY <1>2, <1>6, <3>1, <3>3, <5>1, <5>2
      <4> QED
        BY <3>3, <4>2 DEF Before
    <3>4. CASE n[1] # cur.seg
      BY <1>2, <3>1, <3>2, <3>4 DEF Before
    <3> QED
      BY <3>3, <3>4
  <2>4. PebsWritten'
    BY <1>1, <1>3, <1>4, <2>3, PebsStayWritten
  <2> QED
    BY <1>1, <1>3, <1>4, <2>1, <2>4 DEF PlaceInv
<1>7. CASE ~(cur.peb > Len(layout.segs[cur.seg].pebs))
  <2>1. /\ cur' = [cur EXCEPT !.ext = 0, !.off = 0, !.left = 0]
        /\ buf' = [buf EXCEPT !.bytes = EmptyBuf]
        /\ out' = [vol |-> CurPeb.id * PebSize, flushed |-> 0]
        /\ pc' = "peb"
    BY <1>7 DEF StartPeb
  <2>2. /\ cur'.seg = cur.seg /\ cur'.peb = cur.peb /\ cur'.ext = 0
        /\ cur'.off = 0 /\ cur'.left = 0
    BY <1>2, <2>1
  <2>3. buf'.bytes = EmptyBuf /\ buf'.off = 0 /\ out'.flushed = 0
    <3>1. buf = [bytes |-> buf.bytes, off |-> buf.off]
      BY DEF StaysInv, WriteTypes
    <3> QED
      BY <1>2, <2>1, <3>1
  <2>4. \A n : Before(n)' <=> Before(n)
    BY <2>2 DEF Before
  <2>5. PebsWritten'
    BY <1>1, <1>3, <1>4, <2>4, PebsStayWritten
  <2>6. Window'
    BY <2>2, <2>3 DEF Window
  <2>7. \A d \in 0 .. PageSize - 1 : buf'.bytes[d] = Erased
    BY <2>3 DEF EmptyBuf
  <2>8. \A o \in Nat : ~(o < out'.flushed) /\ ~(o < cur'.off)
    BY <2>2, <2>3
  <2>9. ~(cur'.ext > 0)
    BY <2>2
  <2>10. BufferInv'
    BY <2>6, <2>7, <2>8, <2>9 DEF BufferInv
  <2> QED
    BY <1>1, <1>3, <1>4, <2>1, <2>5, <2>10 DEF PlaceInv
<1> QED
  BY <1>6, <1>7

(* The PEB is finished when its last page has been flushed. *)
LEMMA PlaceFinishPeb ==
  ASSUME StaysInv, PlaceInv, FinishPeb
  PROVE  PlaceInv'
<1>1. /\ pc = "peb" /\ pc' = "write" /\ layout' = layout /\ dev' = dev /\ res' = res
      /\ PebCopied /\ cur.off <= out.flushed
      /\ cur' = [cur EXCEPT !.peb = @ + 1]
  BY DEF FinishPeb, PebCopied, inputs
<1>2. cur.seg \in Nat /\ cur.peb \in Nat /\ out.flushed \in Nat /\ cur.off \in Nat
  BY <1>1, LoopTypes
<1>3. cur'.seg = cur.seg /\ cur'.peb = cur.peb + 1
  <2>1. cur \in [seg : Nat \ {0}, peb : Nat \ {0}, ext : Nat, off : Nat, left : Nat]
    BY DEF StaysInv, WriteTypes
  <2> QED
    BY <1>1, <2>1
<1>4. PebsWritten /\ BufferInv /\ DataRight /\ res = "none" /\ LayoutOnDevice'
  BY <1>1 DEF PlaceInv, LayoutOnDevice
<1>5. Data' = Data /\ DataRight'
  BY <1>1, <1>4, SameLayout DEF Data, DataRight
<1>6. layout \in Layouts /\ Accepted(layout)
  BY <1>1 DEF StaysInv, PoolInv, DataInv
<1>7. ASSUME NEW o \in Nat, Covers(Cur, o) PROVE Where(Cur, o) \in Data
  <2>1. o < cur.off
    BY <1>1, <1>7, CoveredBelowEnd, CopiedEnd
  <2>2. o < out.flushed
    BY <1>1, <1>2, <2>1
  <2> QED
    BY <1>4, <1>7, <2>2 DEF BufferInv
<1>8. ASSUME NEW n \in AllPebs(layout), Before(n)', ~Before(n)
      PROVE  n = Cur
  <2>1. n[1] \in Nat /\ n[2] \in Nat /\ n = <<n[1], n[2]>>
    BY <1>6, PebFacts
  <2>2. n[1] = cur.seg /\ n[2] = cur.peb
    BY <1>2, <1>3, <1>8, <2>1 DEF Before
  <2> QED
    BY <2>1, <2>2 DEF Cur
<1>9. PebsWritten'
  <2> SUFFICES ASSUME NEW n \in AllPebs(layout), Before(n)', NEW o \in Nat, Covers(n, o)
               PROVE  Where(n, o) \in Data
    BY <1>1, <1>5, SameLayout DEF PebsWritten
  <2> QED
    BY <1>4, <1>7, <1>8 DEF PebsWritten
<1> QED
  BY <1>1, <1>4, <1>5, <1>9 DEF PlaceInv

(* When all segments are behind the loop the whole layout is written. *)
LEMMA PlaceSync ==
  ASSUME StaysInv, PlaceInv, Sync
  PROVE  PlaceInv'
<1>1. /\ pc = "write" /\ pc' = "done" /\ layout' = layout /\ dev' = dev
      /\ cur.seg > Len(layout.segs)
  BY DEF Sync, inputs, Return
<1>2. PebsWritten /\ DataRight
  BY <1>1 DEF PlaceInv
<1>3. Data' = Data /\ DataRight'
  BY <1>1, <1>2, SameLayout DEF Data, DataRight
<1>4. layout \in Layouts /\ Accepted(layout)
  BY <1>1 DEF StaysInv, PoolInv, DataInv
<1>5. \A n \in AllPebs(layout) : Before(n)
  <2> SUFFICES ASSUME NEW n \in AllPebs(layout) PROVE Before(n)
    OBVIOUS
  <2>1. n[1] \in 1 .. Len(layout.segs)
    BY <1>4, PebFacts
  <2>2. cur.seg \in Nat /\ Len(layout.segs) \in Nat
    <3>1. layout.segs \in Seq(SegType)
      BY <1>4, MkfsWriteAssumption
    <3> QED
      BY <3>1 DEF StaysInv, WriteTypes
  <2>3. n[1] < cur.seg
    BY <1>1, <2>1, <2>2
  <2> QED
    BY <2>3 DEF Before
<1>6. ASSUME NEW b \in Bytes, Expected(b) # {}
      PROVE  b \in Data
  <2>1. PICK v : v \in Expected(b)
    BY <1>6
  <2>2. PICK n \in AllPebs(layout) : \E e \in DOMAIN Peb(layout, n).extents :
          b - Peb(layout, n).id * PebSize \in
            Peb(layout, n).extents[e].off ..
              Peb(layout, n).extents[e].off + Peb(layout, n).extents[e].size - 1
    BY <2>1, ExpectedIs
  <2> DEFINE x == Peb(layout, n).extents
             base == Peb(layout, n).id * PebSize
             o == b - base
  <2>3. PICK e \in DOMAIN x : o \in x[e].off .. x[e].off + x[e].size - 1
    BY <2>2
  <2>4. x \in Seq(ExtentType) /\ e \in 1 .. Len(x) /\ Peb(layout, n).id \in Nat
    BY <1>4, PebFacts
  <2>5. x[e].off \in Nat /\ x[e].size \in Nat
    BY <2>4, ExtentTypes
  <2>6. base \in Nat /\ b \in Nat
    BY <2>4, MkfsWriteAssumption DEF PebSize, Bytes
  <2>7. o \in Nat /\ x[e].off <= o /\ o < x[e].off + x[e].size /\ base + o = b
    <3>1. \A a, c, d, z \in Nat : z - d \in a .. a + c - 1 =>
             /\ z - d \in Nat /\ a <= z - d /\ z - d < a + c /\ d + (z - d) = z
      OBVIOUS
    <3> HIDE DEF base
    <3> QED
      BY <2>3, <2>5, <2>6, <3>1
  <2>8. Covers(n, o)
    BY <2>7 DEF Covers, End
  <2>9. Where(n, o) \in Data
    BY <1>2, <1>5, <2>7, <2>8 DEF PebsWritten
  <2> QED
    BY <2>7, <2>9 DEF Where
<1>7. LayoutOnDevice'
  <2> SUFFICES ASSUME NEW b \in Bytes
               PROVE  IF Expected(b) # {} THEN dev[b] \in Expected(b) ELSE b \notin Data
    BY <1>1, <1>3, SameLayout DEF LayoutOnDevice
  <2>1. CASE Expected(b) # {}
    BY <1>2, <1>6, <2>1 DEF DataRight
  <2>2. CASE Expected(b) = {}
    BY <1>2, <2>2 DEF DataRight
  <2> QED
    BY <2>1, <2>2
<1> QED
  BY <1>1, <1>3, <1>7 DEF PlaceInv

(* Before the write loop there is nothing to be right or wrong. *)
LEMMA PlaceQuiet ==
  ASSUME StaysInv, PlaceInv, StaysInv',
         \/ CheckLayout \/ CheckFails \/ EraseStep \/ SpawnStep
         \/ \E t \in Workers : Worker(t)
  PROVE  PlaceInv'
<1>1. /\ layout' = layout /\ cur' = cur
      /\ pc' # "peb" /\ pc \notin {"write", "peb", "done"}
      /\ dev' = dev \/ \E S : Erase(S)
      /\ res' = res \/ (pc' = "done" /\ res' # "ok")
      /\ pc' = "done" => res' # "ok"
  <2>1. CASE CheckLayout \/ CheckFails
    BY <2>1 DEF CheckLayout, CheckFails, Return, inputs, writeVars, PlaceInv
  <2>2. CASE EraseStep
    BY <2>2 DEF EraseStep, ChooseErase, AllocPoolFails, EraseSegment, EraseSegmentFails,
                SegmentsErased, Return, inputs, writeVars
  <2>3. CASE SpawnStep
    BY <2>3 DEF SpawnStep, Spawn, SpawnFails, AllSpawned, WaitJoin, AllJoined, inputs, writeVars
  <2>4. CASE \E t \in Workers : Worker(t)
    <3>1. PICK t \in Workers : Worker(t)
      BY <2>4
    <3>2. thr[t] = "running"
      BY <3>1 DEF Worker, ErasePeb, ErasePebFails, ExitThread, HasWork
    <3>3. pc \in {"spawn", "wait", "crashed"}
      BY <3>2 DEF StaysInv, PoolInv
    <3> QED
      BY <3>1, <3>3 DEF Worker, ErasePeb, ErasePebFails, ExitThread, inputs, writeVars
  <2> QED
    BY <2>1, <2>2, <2>3, <2>4
<1>2. Data = {}
  BY <1>1 DEF StaysInv, DataInv
<1>3. Data' = {}
  <2>1. \A b \in Bytes : dev'[b] = dev[b] \/ dev'[b] = Erased
    BY <1>1 DEF Erase
  <2> QED
    BY <1>2, <2>1 DEF Data
<1>4. res = "none" /\ cur.seg = 1 /\ cur.peb = 1
  BY <1>1 DEF PlaceInv
<1>5. LayoutOnDevice' /\ (pc' # "done" => res' = "none")
  BY <1>1, <1>4 DEF LayoutOnDevice
<1>6. pc' = "write" => PebsWritten'
  <2> SUFFICES ASSUME pc' = "write", NEW n \in AllPebs(layout), Before(n)
               PROVE  FALSE
    BY <1>1 DEF PebsWritten, Before
  <2>1. layout \in Layouts /\ Accepted(layout)
    BY <1>1 DEF StaysInv, PoolInv, DataInv
  <2>2. n[1] \in Nat \ {0} /\ n[2] \in Nat \ {0}
    BY <2>1, PebFacts
  <2> QED
    BY <1>4, <2>2 DEF Before
<1> QED
  BY <1>1, <1>3, <1>4, <1>5, <1>6 DEF PlaceInv, DataRight

LEMMA PlaceInit ==
  ASSUME Init
  PROVE  PlaceInv
<1>1. Data = {} /\ res = "none" /\ pc = "check" /\ cur.seg = 1 /\ cur.peb = 1
  BY DEF Init, Data
<1> QED
  BY <1>1 DEF PlaceInv, DataRight, LayoutOnDevice

LEMMA PlaceNext ==
  ASSUME StaysInv, PlaceInv, [Next]_vars
  PROVE  PlaceInv'
<1>1. StaysInv'
  BY StaysNext
<1>2. CASE UNCHANGED vars
  <2>1. /\ dev' = dev /\ pc' = pc /\ cur' = cur /\ buf' = buf /\ out' = out
        /\ layout' = layout /\ res' = res
    BY <1>2 DEF vars, inputs, writeVars
  <2>2. /\ \A n, o : (Covers(n, o)' <=> Covers(n, o)) /\ Where(n, o)' = Where(n, o)
        /\ \A b : Expected(b)' = Expected(b)
    BY <2>1, SameLayout
  <2>3. Data' = Data
    BY <2>1 DEF Data
  <2>4. DataRight' <=> DataRight
    BY <2>1, <2>2, <2>3 DEF DataRight
  <2>5. PebsWritten' <=> PebsWritten
    BY <2>1, <2>2, <2>3 DEF PebsWritten, Before
  <2>6. BufferInv' <=> BufferInv
    BY <2>1, <2>2, <2>3 DEF BufferInv, Window, Cur, CurPeb
  <2>7. LayoutOnDevice' <=> LayoutOnDevice
    BY <2>1, <2>2, <2>3 DEF LayoutOnDevice
  <2> QED
    BY <2>1, <2>4, <2>5, <2>6, <2>7 DEF PlaceInv
<1>3. CASE \/ CheckLayout \/ CheckFails \/ EraseStep \/ SpawnStep
           \/ \E t \in Workers : Worker(t)
  BY <1>1, <1>3, PlaceQuiet
<1>4. CASE WriteFails \/ FinishZoneFails \/ SyncFails
  <2>1. pc' = "done" /\ dev' = dev /\ layout' = layout /\ res' = "error"
    BY <1>4 DEF WriteFails, FinishZoneFails, SyncFails, Return, inputs
  <2>2. DataRight'
    BY <2>1, SameLayout DEF PlaceInv, DataRight, Data
  <2> QED
    BY <2>1, <2>2 DEF PlaceInv, LayoutOnDevice
<1> QED
  BY <1>2, <1>3, <1>4, NextSteps, PlaceStartPeb, PlaceNextExtent, PlaceCopy,
     PlaceFlushRest, PlaceFinishPeb, PlaceSync DEF WriteStep

(* Whatever the layout, the page and the PEB: when mkfs.ssdfs reports that *)
(* the volume is written, every extent is on the device, byte for byte at  *)
(* its offset of its PEB, and between and behind the extents nothing is.   *)
(* The copy loop keeps to the page it buffers because the check of the     *)
(* layout bounds the gaps between extents; what it flushes is right and    *)
(* complete because it starts anew, and empty, with every page and PEB.    *)
THEOREM MkfsLayoutOnDevice == Spec => []LayoutOnDevice
<1>1. Init => StaysInv /\ PlaceInv
  BY StaysInit, PlaceInit
<1>2. StaysInv /\ PlaceInv /\ [Next]_vars => (StaysInv /\ PlaceInv)'
  BY StaysNext, PlaceNext
<1>3. PlaceInv => LayoutOnDevice
  BY DEF PlaceInv
<1> QED
  BY <1>1, <1>2, <1>3, PTL DEF Spec

-----------------------------------------------------------------------------
(* Zones: every page is written at the write pointer, every zone counted *)

Zeroed(p) == p \in Pebs => wp[p] = 0
Opened == { n \in AllPebs(layout) : Before(n) /\ layout.segs[n[1]].type # "snapshot" }

(* Types that the invariants above leave out. *)
RestTypes ==
  /\ requested \in 0 .. cap
  /\ \A t \in Workers : done[t] \in 0 .. PebsCount
  /\ wp \in [Pebs -> 0 .. PebSize]
  /\ res \in {"none", "ok", "refused", "error", "zones"}
  /\ failed \subseteq {"erase", "call"}

(* A zoned volume has one PEB per segment: which zones have been reset.    *)
ResetInv ==
  /\ pc = "erase_allocated" =>
       /\ i \in 0 .. Len(layout.segs)
       /\ \A s \in 1 .. i : Zeroed(layout.segs[s].id)
  /\ pc = "erase_all" => \A p \in 0 .. i - 1 : Zeroed(p)
  /\ pc \in {"spawn", "wait"} =>
       \A t \in Workers : \A k \in 0 .. done[t] - 1 : Zeroed(FirstPeb(t, PerThread) + k)

(* In the write loop the zones to come are empty and the write pointer of  *)
(* the present one is where the loop is, unless a worker could not erase;  *)
(* and a zone is open for each PEB that was written and not finished.      *)
LoopZones ==
  /\ "erase" \notin failed =>
       /\ \A n \in AllPebs(layout) :
            ~Before(n) /\ ~(pc = "peb" /\ n = Cur) => wp[Peb(layout, n).id] = 0
       /\ pc = "peb" => wp[CurPeb.id] = out.flushed
  /\ zones = Cardinality(Opened) + (IF pc = "peb" /\ out.flushed > 0 THEN 1 ELSE 0)

ZoneInv ==
  /\ RestTypes
  /\ kind = "zns" => layout.perSeg = 1
  /\ kind # "zns" \/ pc \notin {"write", "peb", "done"} => zones = 0
  /\ zones \in 0 .. PebsCount
  /\ kind = "zns" => ResetInv
  /\ kind = "zns" /\ pc \in {"write", "peb"} => LoopZones
  /\ CheckedLayoutIsWritten

LEMMA RemainderIs ==
  ASSUME NEW q \in Nat, NEW n \in Nat \ {0}, NEW r \in 0 .. n - 1
  PROVE  (q * n + r) \div n = q /\ (q * n + r) % n = r
<1> DEFINE a == q * n + r
           d == a \div n
           m == a % n
<1>1. q * n = n * q /\ n * q \in Nat
  OBVIOUS
<1>2. a \in Nat /\ n * q <= a /\ a < n * q + n
  BY <1>1
<1>3. d = q
  BY <1>2, CellIs
<1>4. m \in 0 .. n - 1 /\ a = n * d + m
  BY <1>2, DivMod
<1> HIDE DEF m, d
<1>5. m = r
  BY <1>1, <1>3, <1>4
<1> QED
  BY <1>3, <1>5 DEF d, m

(* There is room for a whole page before the end of the PEB. *)
LEMMA PageFits ==
  ASSUME NEW a \in Nat, NEW n \in Nat \ {0}, NEW m \in Nat, a % n = 0, a < n * m
  PROVE  a + n <= n * m
<1> DEFINE d == a \div n
<1>1. d \in Nat /\ a = n * d + (a % n)
  BY DivMod
<1> HIDE DEF d
<1>2. n * d \in Nat /\ n * m \in Nat /\ a = n * d
  BY <1>1
<1>3. d >= m => n * d >= n * m
  BY <1>1
<1>4. d + 1 <= m
  BY <1>1, <1>2, <1>3
<1>5. n * (d + 1) <= n * m /\ n * (d + 1) = n * d + n
  BY <1>1, <1>4
<1> QED
  BY <1>2, <1>5

(* The first page of a PEB belongs to its log, so that no two PEBs of an   *)
(* accepted layout have the same number.                                   *)
LEMMA FirstBlock ==
  ASSUME layout \in Layouts, Accepted(layout), NEW n \in AllPebs(layout)
  PROVE  Peb(layout, n).id * PebPages \in Blocks(Peb(layout, n))
<1> DEFINE x == Peb(layout, n).extents
           id == Peb(layout, n).id
           last == x[Len(x)].off + x[Len(x)].size - 1
<1>1. /\ n[1] \in 1 .. Len(layout.segs) /\ n[2] \in 1 .. Len(layout.segs[n[1]].pebs)
      /\ id \in Nat /\ x \in Seq(ExtentType) /\ DOMAIN x = 1 .. Len(x) /\ ExtentsInOrder(x)
  BY PebFacts
<1>2. Len(x) \in Nat \ {0} /\ x[1].off < PageSize
  BY <1>1, PebTypes DEF Peb
<1>3. 1 \in 1 .. Len(x) /\ Len(x) \in 1 .. Len(x) /\ Len(x) > 0
  BY <1>2
<1>4. x[1].off \in Nat /\ End(x, 1) \in Nat /\ x[1].off < End(x, 1)
  BY <1>1, <1>3, ExtentTypes
<1>5. x[Len(x)].off \in Nat /\ x[Len(x)].size \in Nat /\ End(x, 1) <= End(x, Len(x))
  BY <1>1, <1>3, ExtentTypes, EndsInOrder
<1>6. x[1].off \in x[1].off .. last
  <2>1. \A a, b, c, d \in Nat : a < b /\ b <= c + d => a \in a .. c + d - 1
    OBVIOUS
  <2> QED
    BY <1>4, <1>5, <2>1 DEF End
<1>7. (id * PebSize + x[1].off) \div PageSize \in Blocks(Peb(layout, n))
  BY <1>6 DEF Blocks
<1>8. PageSize \in Nat \ {0} /\ PebPages \in Nat
  BY MkfsWriteAssumption
<1>9. id * PebSize = (id * PebPages) * PageSize /\ id * PebPages \in Nat
  <2> HIDE DEF id
  <2> QED
    BY <1>1, <1>8 DEF PebSize
<1>10. x[1].off \in 0 .. PageSize - 1
  BY <1>2, <1>4, <1>8
<1>11. \A q \in Nat : \A r \in 0 .. PageSize - 1 : (q * PageSize + r) \div PageSize = q
  BY <1>8, RemainderIs
<1>12. (id * PebSize + x[1].off) \div PageSize = id * PebPages
  BY <1>9, <1>10, <1>11
<1> QED
  BY <1>7, <1>12

LEMMA PebsDiffer ==
  ASSUME layout \in Layouts, Accepted(layout),
         NEW n \in AllPebs(layout), NEW m \in AllPebs(layout), n # m
  PROVE  Peb(layout, n).id # Peb(layout, m).id
<1>1. Blocks(Peb(layout, n)) \cap Blocks(Peb(layout, m)) = {}
  BY DEF Accepted
<1>2. /\ Peb(layout, n).id * PebPages \in Blocks(Peb(layout, n))
      /\ Peb(layout, m).id * PebPages \in Blocks(Peb(layout, m))
  BY FirstBlock
<1> QED
  BY <1>1, <1>2

(* The PEBs of an accepted layout, in number. *)
LEMMA PebsFinite ==
  ASSUME layout \in Layouts, Accepted(layout)
  PROVE  /\ IsFiniteSet(AllPebs(layout)) /\ Cardinality(AllPebs(layout)) \in Nat
         /\ Cardinality(AllPebs(layout)) <= PebsCount
<1> DEFINE f == [n \in AllPebs(layout) |-> Peb(layout, n).id]
<1>1. PebsCount \in Nat \ {0}
  BY MkfsWriteAssumption
<1>2. \A n \in AllPebs(layout) : Peb(layout, n).id \in Pebs
  BY <1>1, PebFacts DEF Pebs
<1>3. f \in Injection(AllPebs(layout), Pebs)
  BY <1>2, PebsDiffer DEF Injection, IsInjective
<1>4. IsFiniteSet(Pebs) /\ Cardinality(Pebs) = PebsCount
  <2>1. 0 \in Int /\ PebsCount - 1 \in Int /\ ~(0 > PebsCount - 1)
        /\ (PebsCount - 1) - 0 + 1 = PebsCount
    BY <1>1
  <2> QED
    BY <2>1, FS_Interval DEF Pebs
<1>5. IsFiniteSet(AllPebs(layout)) /\ Cardinality(AllPebs(layout)) <= PebsCount
  BY <1>3, <1>4, FS_Injection
<1> QED
  BY <1>5, FS_CardinalityType

LEMMA OpenedFinite ==
  ASSUME layout \in Layouts, Accepted(layout)
  PROVE  /\ IsFiniteSet(Opened) /\ Cardinality(Opened) \in Nat
         /\ Cardinality(Opened) <= PebsCount
         /\ \A n \in AllPebs(layout) : n \notin Opened => Cardinality(Opened) + 1 <= PebsCount
<1>1. /\ IsFiniteSet(AllPebs(layout)) /\ Cardinality(AllPebs(layout)) \in Nat
      /\ Cardinality(AllPebs(layout)) <= PebsCount /\ PebsCount \in Nat
  BY PebsFinite, MkfsWriteAssumption
<1>2. Opened \in SUBSET AllPebs(layout)
  BY DEF Opened
<1>3. IsFiniteSet(Opened) /\ Cardinality(Opened) <= Cardinality(AllPebs(layout))
  BY <1>1, <1>2, FS_Subset
<1>4. Cardinality(Opened) \in Nat
  BY <1>3, FS_CardinalityType
<1>5. ASSUME NEW n \in AllPebs(layout), n \notin Opened
      PROVE  Cardinality(Opened) + 1 <= Cardinality(AllPebs(layout))
  <2>1. Cardinality(Opened \cup {n}) = Cardinality(Opened) + 1
    BY <1>3, <1>5, FS_AddElement
  <2>2. Opened \cup {n} \in SUBSET AllPebs(layout)
    BY <1>2, <1>5
  <2> QED
    BY <1>1, <2>1, <2>2, FS_Subset
<1> QED
  BY <1>1, <1>3, <1>4, <1>5

LEMMA ZoneInit ==
  ASSUME Init
  PROVE  ZoneInv
<1>1. PebsCount \in Nat \ {0} /\ PebSize \in Nat /\ Threads \subseteq Nat \ {0}
  BY MkfsWriteAssumption DEF PebSize
<1>2. /\ wp \in [Pebs -> 0 .. PebSize]
      /\ \A t \in Workers : done[t] \in 0 .. PebsCount
      /\ requested \in 0 .. cap /\ zones \in 0 .. PebsCount
  BY <1>1 DEF Init
<1>3. RestTypes
  BY <1>2 DEF Init, RestTypes
<1> QED
  BY <1>2, <1>3 DEF Init, ZoneInv, ResetInv, CheckedLayoutIsWritten

LEMMA ErasedZones ==
  ASSUME wp' = wp \/ \E S : Erase(S), wp \in [Pebs -> 0 .. PebSize]
  PROVE  wp' \in [Pebs -> 0 .. PebSize] /\ \A p : Zeroed(p) => Zeroed(p)'
<1>1. 0 \in 0 .. PebSize
  BY MkfsWriteAssumption DEF PebSize
<1>2. CASE wp' = wp
  BY <1>2 DEF Zeroed
<1>3. CASE \E S : Erase(S)
  <2>1. PICK S : wp' = [p \in Pebs |-> IF PebBytes(p) \subseteq S THEN 0 ELSE wp[p]]
    BY <1>3 DEF Erase
  <2> QED
    BY <1>1, <2>1 DEF Zeroed
<1> QED
  BY <1>2, <1>3

LEMMA ZoneReset ==
  ASSUME NEW p, Erase(PebBytes(p))
  PROVE  Zeroed(p)'
<1>1. wp' = [q \in Pebs |-> IF PebBytes(q) \subseteq PebBytes(p) THEN 0 ELSE wp[q]]
  BY DEF Erase
<1> QED
  BY <1>1 DEF Zeroed

(* The write loop starts with no zone open, and with every zone that it    *)
(* will write reset.                                                       *)
LEMMA LoopStart ==
  ASSUME StaysInv, StaysInv', PlaceInv, ZoneInv, pc \notin {"check", "write", "peb", "done"},
         pc' = "write", layout' = layout, cur' = cur, wp' = wp, zones' = zones,
         failed' = failed,
         "erase" \notin failed => \A n \in AllPebs(layout) : Zeroed(Peb(layout, n).id)
  PROVE  LoopZones'
<1>1. layout \in Layouts /\ Accepted(layout) /\ cur.seg = 1 /\ cur.peb = 1 /\ zones = 0
  BY DEF StaysInv, PoolInv, DataInv, PlaceInv, ZoneInv
<1>2. \A n \in AllPebs(layout) : ~Before(n)' /\ Peb(layout, n).id \in Pebs
  <2> SUFFICES ASSUME NEW n \in AllPebs(layout)
               PROVE  ~Before(n)' /\ Peb(layout, n).id \in Pebs
    OBVIOUS
  <2>1. n[1] \in Nat \ {0} /\ n[2] \in Nat \ {0} /\ Peb(layout, n).id \in Nat
        /\ Peb(layout, n).id < PebsCount
    BY <1>1, PebFacts
  <2>2. PebsCount \in Nat
    BY MkfsWriteAssumption
  <2> QED
    BY <1>1, <2>1, <2>2 DEF Before, Pebs
<1>3. Opened' = {} /\ Cardinality({}) = 0
  BY <1>2, FS_EmptySet DEF Opened
<1>4. zones' = Cardinality(Opened') + (IF pc' = "peb" /\ out'.flushed > 0 THEN 1 ELSE 0)
  BY <1>1, <1>3
<1>5. "erase" \notin failed => \A n \in AllPebs(layout) : wp[Peb(layout, n).id] = 0
  BY <1>2 DEF Zeroed
<1> QED
  BY <1>4, <1>5 DEF LoopZones

LEMMA ZoneErase ==
  ASSUME StaysInv, StaysInv', GoneInv, PlaceInv, ZoneInv,
         CheckLayout \/ CheckFails \/ EraseStep
  PROVE  ZoneInv'
<1>1. /\ layout' = layout /\ kind' = kind /\ cap' = cap /\ requested' = requested
      /\ cur' = cur /\ thr' = thr /\ done' = done /\ zones' = zones
      /\ wp' = wp \/ \E S : Erase(S)
      /\ pc \notin {"write", "peb", "done"} /\ pc' # "peb"
  <2>1. CASE CheckLayout \/ CheckFails
    BY <2>1 DEF CheckLayout, CheckFails, Return, inputs, writeVars, eraseVars
  <2>2. CASE ChooseErase \/ AllocPoolFails
    BY <2>2 DEF ChooseErase, AllocPoolFails, inputs, writeVars, eraseVars
  <2>3. CASE EraseSegment
    BY <2>3 DEF EraseSegment, inputs, writeVars, eraseVars
  <2>4. CASE EraseSegmentFails \/ SegmentsErased
    BY <2>4 DEF EraseSegmentFails, SegmentsErased, Return, inputs, writeVars, eraseVars
  <2> QED
    BY <2>1, <2>2, <2>3, <2>4 DEF EraseStep
<1>2. /\ zones = 0 /\ res = "none" /\ wp \in [Pebs -> 0 .. PebSize]
      /\ layout \in Layouts /\ PebsCount \in Nat \ {0}
  BY <1>1, MkfsWriteAssumption DEF ZoneInv, PlaceInv, RestTypes, StaysInv, PoolInv
<1>3. wp' \in [Pebs -> 0 .. PebSize] /\ \A p : Zeroed(p) => Zeroed(p)'
  BY <1>1, <1>2, ErasedZones
<1>4. Workers' = Workers /\ PerThread' = PerThread
  BY <1>1 DEF Workers, PerThread
<1>5. /\ res' = res \/ (pc' = "done" /\ (res' = "refused" \/ (res' = "error" /\ failed' # {})))
      /\ failed' = failed \/ failed' = {"call"}
      /\ pc' # "done" => failed' = failed
      /\ pc' = "done" => res' # res
  <2>1. CASE CheckLayout \/ CheckFails
    BY <1>2, <2>1 DEF CheckLayout, CheckFails, Return
  <2>2. CASE ChooseErase \/ AllocPoolFails
    BY <2>2 DEF ChooseErase, AllocPoolFails
  <2>3. CASE EraseSegment
    BY <2>3 DEF EraseSegment
  <2>4. CASE EraseSegmentFails \/ SegmentsErased
    BY <1>2, <2>4 DEF EraseSegmentFails, SegmentsErased, Return
  <2> QED
    BY <2>1, <2>2, <2>3, <2>4 DEF EraseStep
<1>6. RestTypes'
  BY <1>1, <1>2, <1>3, <1>4, <1>5 DEF RestTypes, ZoneInv
<1>7. CheckedLayoutIsWritten'
  BY <1>2, <1>5 DEF CheckedLayoutIsWritten
<1>8. zones' = 0 /\ zones' \in 0 .. PebsCount
  BY <1>1, <1>2
<1>9. ASSUME kind = "zns" PROVE ResetInv' /\ (pc' = "write" => LoopZones')
  <2>1. layout.perSeg = 1 /\ ResetInv
    BY <1>9 DEF ZoneInv
  <2>2. CASE CheckLayout \/ CheckFails
    <3>1. pc' \in {"erase", "done"}
      BY <2>2 DEF CheckLayout, CheckFails, Return
    <3> QED
      BY <3>1 DEF ResetInv
  <2>3. CASE ChooseErase
    <3>1. pc = "erase" /\ i' = 0 /\ pc' \in {"erase_allocated", "erase_all", "spawn"}
      BY <1>9, <2>3 DEF ChooseErase
    <3>2. \A t \in Workers : done'[t] = 0
      BY <1>1, <3>1 DEF GoneInv
    <3>3. Len(layout.segs) \in Nat
      <4>1. layout.segs \in Seq(SegType)
        BY <1>2, MkfsWriteAssumption
      <4>2. \A q \in Seq(SegType) : Len(q) \in Nat
        OBVIOUS
      <4> QED
        BY <4>1, <4>2
    <3>4. 0 \in 0 .. Len(layout.segs)
      BY <3>3
    <3> QED
      BY <1>1, <1>4, <3>1, <3>2, <3>4 DEF ResetInv
  <2>4. CASE AllocPoolFails
    <3>1. pc' = "erase_all" /\ i' = 0
      BY <2>4 DEF AllocPoolFails
    <3> QED
      BY <3>1 DEF ResetInv
  <2>5. CASE EraseSegment
    <3>1. /\ pc \in {"erase_allocated", "erase_all"} /\ pc' = pc /\ i' = i + 1
          /\ i < Len(EraseTargets) /\ Erase(SegBytes(EraseTargets[i + 1]))
      BY <2>5 DEF EraseSegment
    <3>2. \A q \in Int : SegBytes(q) = PebBytes(q)
      <4>1. PebSize \in Nat
        BY MkfsWriteAssumption DEF PebSize
      <4>2. 1 * PebSize = PebSize
        BY <4>1
      <4> QED
        BY <2>1, <4>2 DEF SegBytes, PebBytes
    <3>3. CASE pc = "erase_allocated"
      <4>1. layout.segs \in Seq(SegType) /\ i \in 0 .. Len(layout.segs)
            /\ \A s \in 1 .. i : Zeroed(layout.segs[s].id)
        BY <1>2, <2>1, <3>3, MkfsWriteAssumption DEF ResetInv
      <4>2. EraseTargets = [s \in 1 .. Len(layout.segs) |-> layout.segs[s].id]
        BY <3>3 DEF EraseTargets
      <4>3. Len(EraseTargets) = Len(layout.segs) /\ Len(layout.segs) \in Nat
        <5>1. \A q \in Seq(SegType) : Len(q) \in Nat
          OBVIOUS
        <5>2. \A m \in Nat : \A q : q = [s \in 1 .. m |-> layout.segs[s].id] => Len(q) = m
          OBVIOUS
        <5> QED
          BY <4>1, <4>2, <5>1, <5>2
      <4>4. i + 1 \in 1 .. Len(layout.segs) /\ i + 1 \in 0 .. Len(layout.segs)
            /\ \A s \in 1 .. i + 1 : s \in 1 .. i \/ s = i + 1
        BY <3>1, <4>1, <4>3
      <4>5. EraseTargets[i + 1] = layout.segs[i + 1].id
        BY <4>2, <4>4
      <4>6. layout.segs[i + 1].id \in Int
        <5>1. layout.segs[i + 1] \in SegType
          BY <4>1, <4>4
        <5> QED
          BY <5>1 DEF SegType
      <4>7. Erase(PebBytes(layout.segs[i + 1].id))
        BY <3>1, <3>2, <4>5, <4>6
      <4>8. \A p : p = layout.segs[i + 1].id => Zeroed(p)'
        BY <4>7, ZoneReset
      <4>9. \A s \in 1 .. i + 1 : \A p : p = layout.segs[s].id => Zeroed(p)'
        BY <1>3, <4>1, <4>4, <4>8
      <4> QED
        BY <1>1, <3>1, <3>3, <4>4, <4>9 DEF ResetInv, Zeroed
    <3>4. CASE pc = "erase_all"
      <4> DEFINE m == PebsCount \div layout.perSeg
      <4>1. i \in 0 .. m /\ m \in Nat
        BY <1>2, <2>1, <3>4, DivMod DEF GoneInv
      <4>2. EraseTargets = [s \in 1 .. m |-> s - 1]
        BY <3>4 DEF EraseTargets
      <4> HIDE DEF m
      <4>3. Len(EraseTargets) = m
        BY <4>1, <4>2
      <4>4. i + 1 \in 1 .. m /\ (i + 1) - 1 = i
        BY <3>1, <4>1, <4>3
      <4>5. EraseTargets[i + 1] = i
        BY <4>2, <4>4
      <4>6. Erase(PebBytes(i)) /\ i \in Nat
        BY <3>1, <3>2, <4>1, <4>5
      <4>7. \A p : p = i => Zeroed(p)'
        BY <4>6, ZoneReset
      <4>8. \A p \in 0 .. i' - 1 : p \in 0 .. i - 1 \/ p = i
        BY <3>1, <4>6
      <4>9. \A p \in 0 .. i - 1 : Zeroed(p)
        BY <2>1, <3>4 DEF ResetInv
      <4>10. \A p \in 0 .. i' - 1 : Zeroed(p)'
        BY <1>3, <4>7, <4>8, <4>9
      <4> QED
        BY <3>1, <3>4, <4>10 DEF ResetInv
    <3> QED
      BY <3>1, <3>3, <3>4
  <2>6. CASE EraseSegmentFails
    <3>1. pc' = "done"
      BY <2>6 DEF EraseSegmentFails, Return
    <3> QED
      BY <3>1 DEF ResetInv
  <2>7. CASE SegmentsErased
    <3>1. /\ pc \in {"erase_allocated", "erase_all"} /\ pc' = "write" /\ wp' = wp
          /\ i = Len(EraseTargets)
      BY <2>7 DEF SegmentsErased
    <3>2. Accepted(layout)
      BY <3>1 DEF StaysInv, DataInv
    <3>3. ASSUME NEW n \in AllPebs(layout) PROVE Zeroed(Peb(layout, n).id)
      <4>1. /\ n[1] \in 1 .. Len(layout.segs)
            /\ Peb(layout, n).id \in Nat /\ Peb(layout, n).id < PebsCount
        BY <1>2, <3>2, PebFacts
      <4>2. CASE pc = "erase_allocated"
        <5>1. EraseTargets = [s \in 1 .. Len(layout.segs) |-> layout.segs[s].id]
          BY <4>2 DEF EraseTargets
        <5>2. i = Len(layout.segs)
          <6>1. layout.segs \in Seq(SegType)
            BY <1>2, MkfsWriteAssumption
          <6>2. \A q \in Seq(SegType) : Len(q) \in Nat
            OBVIOUS
          <6>3. \A m \in Nat : \A q : q = [s \in 1 .. m |-> layout.segs[s].id] => Len(q) = m
            OBVIOUS
          <6> QED
            BY <3>1, <5>1, <6>1, <6>2, <6>3
        <5>3. Zeroed(layout.segs[n[1]].id)
          BY <2>1, <4>1, <4>2, <5>2 DEF ResetInv
        <5>4. Peb(layout, n).id = layout.segs[n[1]].id
          BY <1>2, <2>1, OnePebPerSegmentAssumption
        <5> QED
          BY <5>3, <5>4
      <4>3. CASE pc = "erase_all"
        <5> DEFINE m == PebsCount \div layout.perSeg
        <5>1. m = PebsCount
          <6>1. 1 * PebsCount = PebsCount /\ 1 * PebsCount <= PebsCount
                /\ PebsCount < 1 * PebsCount + 1
            BY <1>2
          <6>2. PebsCount \div 1 = PebsCount
            BY <1>2, <6>1, CellIs
          <6> QED
            BY <2>1, <6>2
        <5>2. EraseTargets = [s \in 1 .. m |-> s - 1]
          BY <4>3 DEF EraseTargets
        <5> HIDE DEF m
        <5>3. i = PebsCount
          BY <1>2, <3>1, <5>1, <5>2
        <5>4. Peb(layout, n).id \in 0 .. i - 1
          BY <1>2, <4>1, <5>3
        <5> QED
          BY <2>1, <4>3, <5>4 DEF ResetInv
      <4> QED
        BY <3>1, <4>2, <4>3
    <3>4. LoopZones'
      BY <1>1, <1>5, <3>1, <3>3, LoopStart
    <3> QED
      BY <3>1, <3>4 DEF ResetInv
  <2> QED
    BY <2>2, <2>3, <2>4, <2>5, <2>6, <2>7 DEF EraseStep
<1>10. kind' = "zns" => layout'.perSeg = 1
  BY <1>1 DEF ZoneInv
<1> QED
  BY <1>1, <1>6, <1>7, <1>8, <1>9, <1>10 DEF ZoneInv

(* The pool resets every zone that is not skipped by a failing worker. *)
LEMMA PoolReset ==
  ASSUME PoolInv, ResetInv, pc = "wait", \A t \in Workers : ShareInv(t),
         \A t \in Workers : thr[t] = "exited", "erase" \notin failed
  PROVE  \A p \in Pebs : Zeroed(p)
<1> SUFFICES ASSUME NEW p \in Pebs PROVE Zeroed(p)
  OBVIOUS
<1>1. cap \in Nat \ {0} /\ Workers = 0 .. cap - 1
  BY CapType
<1>2. cap * PebsPerThread(PebsCount, cap) < U64 /\ PebsCount \in Nat
  BY MkfsWriteAssumption DEF PoolInv
<1>3. PICK t \in 0 .. cap - 1 : \E k \in Nat :
        /\ FirstPeb(t, PerThread) \in Nat
        /\ p = FirstPeb(t, PerThread) + k
        /\ k < Share(t, PebsCount, PerThread)
  BY <1>1, <1>2, EveryPebShared DEF PerThread
<1>4. PICK k \in Nat : /\ FirstPeb(t, PerThread) \in Nat
                       /\ p = FirstPeb(t, PerThread) + k
                       /\ k < Share(t, PebsCount, PerThread)
  BY <1>3
<1>5. /\ done[t] \in Nat
      /\ \/ done[t] >= Share(t, PebsCount, PerThread)
         \/ FirstPeb(t, PerThread) + done[t] >= PebsCount
  BY <1>1 DEF ShareInv, CurrentPeb
<1>6. p \in Nat /\ p < PebsCount /\ Share(t, PebsCount, PerThread) \in Int
  BY <1>1, <1>2, ShareTypes DEF Pebs
<1>7. k \in 0 .. done[t] - 1
  <2> DEFINE d == done[t]
             f == FirstPeb(t, PerThread)
             sh == Share(t, PebsCount, PerThread)
  <2>1. d \in Nat /\ f \in Nat /\ sh \in Int /\ k < sh /\ p = f + k
        /\ (d >= sh \/ f + d >= PebsCount)
    BY <1>4, <1>5, <1>6
  <2> HIDE DEF d, f, sh
  <2>2. k \in 0 .. d - 1
    BY <1>2, <1>6, <2>1
  <2> QED
    BY <2>2 DEF d
<1> QED
  BY <1>1, <1>4, <1>7 DEF ResetInv

LEMMA ZonePool ==
  ASSUME StaysInv, StaysInv', GoneInv, PlaceInv, ZoneInv,
         SpawnStep \/ \E t \in Workers : Worker(t)
  PROVE  ZoneInv'
<1>1. cap \in Nat \ {0} /\ Workers = 0 .. cap - 1 /\ PebsCount \in Nat \ {0}
  BY CapType, MkfsWriteAssumption DEF StaysInv
<1>2. /\ layout' = layout /\ kind' = kind /\ cap' = cap /\ cur' = cur
      /\ zones' = zones /\ res' = res
      /\ wp' = wp \/ \E S : Erase(S)
      /\ pc \in {"spawn", "wait", "crashed"}
      /\ pc' \in {"spawn", "wait", "crashed"} \/ (AllJoined /\ pc' = "write")
      /\ failed' \subseteq failed \cup {"erase", "call"}
  <2>1. CASE SpawnStep
    BY <2>1 DEF SpawnStep, Spawn, SpawnFails, AllSpawned, WaitJoin, AllJoined,
                inputs, writeVars
  <2>2. CASE \E t \in Workers : Worker(t)
    <3>1. PICK t \in Workers : Worker(t)
      BY <2>2
    <3>2. thr[t] = "running"
      BY <3>1 DEF Worker, ErasePeb, ErasePebFails, ExitThread, HasWork
    <3>3. pc \in {"spawn", "wait", "crashed"}
      BY <3>2 DEF StaysInv, PoolInv
    <3> QED
      BY <3>1, <3>3 DEF Worker, ErasePeb, ErasePebFails, ExitThread, inputs, writeVars
  <2> QED
    BY <2>1, <2>2
<1>3. /\ zones = 0 /\ res = "none" /\ wp \in [Pebs -> 0 .. PebSize]
      /\ layout \in Layouts /\ done \in [Workers -> Nat]
      /\ \A t \in Workers : done[t] \in 0 .. PebsCount
      /\ requested \in 0 .. cap /\ failed \subseteq {"erase", "call"}
  BY <1>2 DEF ZoneInv, PlaceInv, RestTypes, StaysInv, PoolInv, GoneInv
<1>4. wp' \in [Pebs -> 0 .. PebSize] /\ \A p : Zeroed(p) => Zeroed(p)'
  BY <1>2, <1>3, ErasedZones
<1>5. Workers' = Workers /\ PerThread' = PerThread
  BY <1>2 DEF Workers, PerThread
<1>6. requested' \in 0 .. cap
  <2>1. CASE Spawn
    <3>1. requested' = requested + 1 /\ requested = i /\ i \in 0 .. cap /\ i < cap
      BY <2>1 DEF Spawn, StaysInv, PoolInv
    <3> QED
      BY <1>1, <3>1
  <2>2. CASE requested' = requested
    BY <1>3, <2>2
  <2>3. CASE AllJoined
    BY <1>1, <2>3 DEF AllJoined
  <2> QED
    BY <2>1, <2>2, <2>3
    DEF SpawnStep, SpawnFails, AllSpawned, WaitJoin, eraseVars,
        Worker, ErasePeb, ErasePebFails, ExitThread
(* A worker erases one more PEB, or none. *)
<1>7. \/ done' = done
      \/ \E u \in Workers : /\ done' = [done EXCEPT ![u] = @ + 1]
                            /\ Erase(PebBytes(CurrentPeb(u))) /\ CurrentPeb(u) < PebsCount
  BY DEF SpawnStep, Spawn, SpawnFails, AllSpawned, WaitJoin, AllJoined, eraseVars,
         Worker, ErasePeb, ErasePebFails, ExitThread, HasWork
<1>8. /\ \A t \in Workers : done'[t] \in 0 .. PebsCount
      /\ \A t \in Workers : \A k \in 0 .. done'[t] - 1 :
           k \in 0 .. done[t] - 1 \/ Zeroed(FirstPeb(t, PerThread) + k)'
  <2>1. CASE done' = done
    BY <1>3, <2>1
  <2>2. ASSUME NEW u \in Workers, done' = [done EXCEPT ![u] = @ + 1],
               Erase(PebBytes(CurrentPeb(u))), CurrentPeb(u) < PebsCount
        PROVE  /\ \A t \in Workers : done'[t] \in 0 .. PebsCount
               /\ \A t \in Workers : \A k \in 0 .. done'[t] - 1 :
                    k \in 0 .. done[t] - 1 \/ Zeroed(FirstPeb(t, PerThread) + k)'
    <3>1. done[u] \in Nat /\ done'[u] = done[u] + 1 /\ \A t \in Workers \ {u} : done'[t] = done[t]
      BY <1>3, <2>2
    <3>2. FirstPeb(u, PerThread) \in Nat
      <4>1. U64 \in Nat \ {0} /\ PerThread \in Nat
        BY <1>1, U64Assumption, RoundedUp DEF PerThread
      <4>2. u * PerThread \in Nat
        BY <1>1, <4>1
      <4> QED
        BY <4>1, <4>2, DivMod DEF FirstPeb
    <3>3. done'[u] \in 0 .. PebsCount
      <4>1. \A f, d \in Nat : f + d < PebsCount => d + 1 \in 0 .. PebsCount
        BY <1>1
      <4> QED
        BY <2>2, <3>1, <3>2, <4>1 DEF CurrentPeb
    <3>4. \A p : p = FirstPeb(u, PerThread) + done[u] => Zeroed(p)'
      BY <2>2, ZoneReset DEF CurrentPeb
    <3>5. \A k \in 0 .. done'[u] - 1 : k \in 0 .. done[u] - 1 \/ k = done[u]
      BY <3>1
    <3>6. \A k \in 0 .. done'[u] - 1 :
            k \in 0 .. done[u] - 1 \/ \A p : p = FirstPeb(u, PerThread) + k => Zeroed(p)'
      BY <3>4, <3>5
    <3> QED
      BY <1>3, <1>5, <3>1, <3>3, <3>6 DEF Zeroed
  <2> QED
    BY <1>7, <2>1, <2>2
<1>9. RestTypes'
  BY <1>2, <1>3, <1>4, <1>5, <1>6, <1>8 DEF RestTypes
<1>10. CheckedLayoutIsWritten'
  BY <1>2, <1>3 DEF CheckedLayoutIsWritten
<1>11. zones' = 0 /\ zones' \in 0 .. PebsCount
  BY <1>1, <1>2, <1>3
<1>12. ASSUME kind = "zns" PROVE ResetInv' /\ (pc' = "write" => LoopZones')
  <2>1. ResetInv
    BY <1>12 DEF ZoneInv
  <2>2. CASE pc' \in {"spawn", "wait"}
    <3>1. pc \in {"spawn", "wait"}
      <4>1. pc = "crashed" => pc' = "crashed"
        BY <1>2 DEF SpawnStep, Spawn, SpawnFails, AllSpawned, WaitJoin, AllJoined,
                    Worker, ErasePeb, ErasePebFails, ExitThread
      <4> QED
        BY <1>2, <2>2, <4>1
    <3>2. \A t \in Workers : \A k \in 0 .. done[t] - 1 :
            \A p : p = FirstPeb(t, PerThread) + k => Zeroed(p)'
      BY <1>4, <2>1, <3>1 DEF ResetInv
    <3>3. \A t \in Workers : \A k \in 0 .. done'[t] - 1 :
            \A p : p = FirstPeb(t, PerThread) + k => Zeroed(p)'
      <4> SUFFICES ASSUME NEW t \in Workers, NEW k \in 0 .. done'[t] - 1, NEW p,
                          p = FirstPeb(t, PerThread) + k
                   PROVE  Zeroed(p)'
        OBVIOUS
      <4>1. CASE k \in 0 .. done[t] - 1
        BY <3>2, <4>1
      <4>2. CASE Zeroed(FirstPeb(t, PerThread) + k)'
        BY <1>5, <4>2 DEF Zeroed
      <4> QED
        BY <1>8, <4>1, <4>2
    <3> QED
      BY <1>5, <2>2, <3>3 DEF ResetInv, Zeroed
  <2>3. CASE pc' = "crashed"
    BY <2>3 DEF ResetInv
  <2>4. CASE AllJoined /\ pc' = "write"
    <3>1. pc = "wait" /\ wp' = wp /\ failed' = failed /\ i = requested
      BY <2>4 DEF AllJoined
    <3>2. \A t \in Workers : thr[t] = "exited"
      BY <1>1, <3>1 DEF StaysInv, PoolInv
    <3>3. \A t \in Workers : ShareInv(t)
      BY <3>1, GoneParts
    <3>4. "erase" \notin failed => \A p \in Pebs : Zeroed(p)
      BY <2>1, <3>1, <3>2, <3>3, PoolReset DEF StaysInv
    <3>5. "erase" \notin failed => \A p : Zeroed(p)
      BY <3>4 DEF Zeroed
    <3>6. LoopZones'
      BY <1>2, <2>4, <3>1, <3>5, LoopStart
    <3> QED
      BY <2>4, <3>6 DEF ResetInv
  <2> QED
    BY <1>2, <2>2, <2>3, <2>4
<1>13. kind' = "zns" => layout'.perSeg = 1
  BY <1>2 DEF ZoneInv
<1> QED
  BY <1>2, <1>9, <1>10, <1>11, <1>12, <1>13 DEF ZoneInv

(* Where the page to flush lies: in the zone of the PEB, at what has been  *)
(* flushed of it.                                                          *)
LEMMA FlushFacts ==
  ASSUME StaysInv, pc = "peb", out.flushed < End(CurPeb.extents, Len(CurPeb.extents))
  PROVE  /\ CurPeb.id \in Pebs
         /\ out.vol \div PebSize = CurPeb.id /\ out.vol % PebSize = out.flushed
         /\ out.flushed \in Nat /\ PageSize \in Nat \ {0} /\ PebSize \in Nat
         /\ out.flushed + PageSize <= PebSize
<1> DEFINE x == CurPeb.extents
           last == End(x, Len(x))
           id == CurPeb.id
           fl == out.flushed
<1>1. /\ PageSize \in Nat \ {0} /\ fl \in Nat
      /\ \A k \in 1 .. Len(x) : End(x, k) \in Nat
  BY LoopTypes
<1>2. /\ <<cur.seg, cur.peb>> \in AllPebs(layout)
      /\ Peb(layout, <<cur.seg, cur.peb>>) = CurPeb /\ Len(x) \in Nat \ {0}
  BY CurPebFacts
<1>3. layout \in Layouts /\ Accepted(layout)
  BY DEF StaysInv, PoolInv, DataInv
<1>4. id \in Nat /\ id < PebsCount /\ \A e \in 1 .. Len(x) : End(x, e) <= PebSize
  BY <1>2, <1>3, PebFacts
<1>5. Len(x) \in 1 .. Len(x)
  BY <1>2
<1>6. last \in Nat /\ last <= PebSize /\ fl < last
  BY <1>1, <1>4, <1>5
<1>7. PebSize \in Nat \ {0} /\ PebPages \in Nat /\ PebsCount \in Nat
      /\ PebSize = PageSize * PebPages
  BY MkfsWriteAssumption DEF PebSize
<1>8. fl % PageSize = 0 /\ out.vol = id * PebSize + fl
  BY DEF StaysInv, PebInv
<1> HIDE DEF last, id, fl, x
<1>9. fl < PebSize /\ fl \in 0 .. PebSize - 1
  BY <1>1, <1>6, <1>7
<1>10. fl + PageSize <= PebSize
  BY <1>1, <1>7, <1>8, <1>9, PageFits
<1>11. out.vol \div PebSize = id /\ out.vol % PebSize = fl
  <2>1. \A q \in Nat : \A r \in 0 .. PebSize - 1 :
          (q * PebSize + r) \div PebSize = q /\ (q * PebSize + r) % PebSize = r
    BY <1>7, RemainderIs
  <2> QED
    BY <1>4, <1>8, <1>9, <2>1
<1>12. id \in Pebs
  BY <1>4, <1>7 DEF Pebs
<1> QED
  BY <1>1, <1>7, <1>10, <1>11, <1>12 DEF id, fl

(* Both places where a page is flushed. *)
LEMMA FlushBelowEnd ==
  ASSUME StaysInv, (pc = "peb" /\ cur.left > 0) \/ (PebCopied /\ cur.off > out.flushed)
  PROVE  pc = "peb" /\ out.flushed < End(CurPeb.extents, Len(CurPeb.extents))
<1>1. pc = "peb"
  BY DEF PebCopied
<1>2. CASE PebCopied /\ cur.off > out.flushed
  <2>1. cur.off = End(CurPeb.extents, Len(CurPeb.extents))
    BY <1>2, CopiedEnd
  <2>2. cur.off \in Nat /\ out.flushed \in Nat
    BY <1>1, LoopTypes
  <2>3. out.flushed < cur.off
    BY <1>2, <2>2
  <2> QED
    BY <1>1, <2>1, <2>3
<1>3. CASE cur.left > 0
  <2> DEFINE x == CurPeb.extents
             end == End(x, cur.ext)
             last == End(x, Len(x))
  <2>1. /\ cur.off \in Nat /\ cur.left \in Nat /\ out.flushed \in Nat
        /\ buf.off \in 0 .. PageSize - 1 /\ PageSize \in Nat /\ cur.ext \in Nat
        /\ \A k \in 1 .. Len(x) : End(x, k) \in Nat /\ End(x, k) <= End(x, Len(x))
    BY <1>1, LoopTypes
  <2>2. /\ cur.ext \in 0 .. Len(x)
        /\ cur.ext = 0 => cur.left = 0
        /\ cur.ext > 0 => cur.off + cur.left = end
        /\ out.flushed + buf.off <= cur.off \/ cur.left = 0
    BY <1>1 DEF StaysInv, PebInv
  <2>3. Len(x) \in Nat \ {0}
    BY <1>1, CurPebFacts
  <2>4. cur.ext # 0
    BY <1>3, <2>2
  <2>5. cur.ext \in 1 .. Len(x) /\ Len(x) \in 1 .. Len(x)
    BY <2>1, <2>2, <2>3, <2>4
  <2>6. end \in Nat /\ end <= last /\ last \in Nat
    BY <2>1, <2>5
  <2>7. cur.off + cur.left = end /\ out.flushed + buf.off <= cur.off
    BY <1>3, <2>1, <2>2, <2>4
  <2> HIDE DEF end, last
  <2>8. out.flushed < last
    <3>1. \A o, l, f, b, e, z \in Nat : l > 0 /\ o + l = e /\ f + b <= o /\ e <= z => f < z
      OBVIOUS
    <3>2. buf.off \in Nat
      BY <2>1
    <3> QED
      BY <1>3, <2>1, <2>6, <2>7, <3>1, <3>2
  <2> QED
    BY <1>1, <2>8 DEF last
<1> QED
  BY <1>1, <1>2, <1>3

(* No write is refused by a zone, unless a worker could not erase. *)
LEMMA ZoneWritable ==
  ASSUME StaysInv, ZoneInv, "erase" \notin failed,
         (pc = "peb" /\ cur.left > 0) \/ (PebCopied /\ cur.off > out.flushed)
  PROVE  WriteWorks
<1>1. pc = "peb" /\ out.flushed < End(CurPeb.extents, Len(CurPeb.extents))
  BY FlushBelowEnd
<1>2. out.vol \div PebSize = CurPeb.id /\ out.vol % PebSize = out.flushed
  BY <1>1, FlushFacts
<1>3. kind = "zns" => wp[CurPeb.id] = out.flushed
  BY <1>1 DEF ZoneInv, LoopZones
<1> QED
  BY <1>2, <1>3 DEF WriteWorks

LEMMA SameOpened ==
  ASSUME layout' = layout, \A n \in AllPebs(layout) : Before(n)' <=> Before(n)
  PROVE  Opened' = Opened
BY DEF Opened

(* A page is flushed: the write pointer follows, and with the first page   *)
(* of the PEB its zone is opened.                                          *)
LEMMA ZoneFlush ==
  ASSUME StaysInv, ZoneInv, pc = "peb", pc' = "peb", NEW bytes, FlushBuffer(bytes),
         layout' = layout, kind' = kind, failed' = failed,
         cur'.seg = cur.seg, cur'.peb = cur.peb,
         out.flushed < End(CurPeb.extents, Len(CurPeb.extents))
  PROVE  /\ wp' \in [Pebs -> 0 .. PebSize]
         /\ kind # "zns" => zones' = 0
         /\ zones' \in 0 .. PebsCount
         /\ kind = "zns" => LoopZones'
<1>1. /\ CurPeb.id \in Pebs
      /\ out.vol \div PebSize = CurPeb.id /\ out.vol % PebSize = out.flushed
      /\ out.flushed \in Nat /\ PageSize \in Nat \ {0} /\ PebSize \in Nat
      /\ out.flushed + PageSize <= PebSize
  BY FlushFacts
<1>2. /\ wp \in [Pebs -> 0 .. PebSize] /\ zones \in 0 .. PebsCount
      /\ kind # "zns" => zones = 0
      /\ kind = "zns" => LoopZones
  BY DEF ZoneInv, RestTypes
<1>3. /\ wp' = [wp EXCEPT ![CurPeb.id] = out.flushed + PageSize]
      /\ zones' = IF kind = "zns" /\ out.flushed = 0 THEN zones + 1 ELSE zones
      /\ out'.flushed = out.flushed + PageSize
  <2>1. /\ wp' = [wp EXCEPT ![out.vol \div PebSize] = (out.vol % PebSize) + PageSize]
        /\ zones' = IF kind = "zns" /\ out.vol % PebSize = 0 THEN zones + 1 ELSE zones
        /\ out' = [vol |-> out.vol + PageSize, flushed |-> out.flushed + PageSize]
    BY DEF FlushBuffer
  <2> QED
    BY <1>1, <2>1
<1>4. out.flushed + PageSize \in 0 .. PebSize /\ out.flushed + PageSize > 0
  BY <1>1
<1>5. wp' \in [Pebs -> 0 .. PebSize]
  BY <1>2, <1>3, <1>4
<1>6. layout \in Layouts /\ Accepted(layout) /\ Cur \in AllPebs(layout)
      /\ Peb(layout, Cur) = CurPeb /\ PebsCount \in Nat
      /\ cur.seg \in Nat /\ cur.peb \in Nat
  BY CurPebFacts, LoopTypes, MkfsWriteAssumption DEF Cur, StaysInv, PoolInv, DataInv
<1>7. /\ Cur' = Cur /\ CurPeb' = CurPeb /\ \A n : Before(n)' <=> Before(n)
      /\ Opened' = Opened
  <2>1. Cur' = Cur /\ CurPeb' = CurPeb /\ \A n : Before(n)' <=> Before(n)
    BY DEF Cur, CurPeb, Before
  <2> QED
    BY <2>1, SameOpened
<1>8. Cur \notin Opened
  BY <1>6 DEF Opened, Before, Cur
<1>9. /\ Cardinality(Opened) \in Nat /\ Cardinality(Opened) + 1 <= PebsCount
  BY <1>6, <1>8, OpenedFinite
<1>10. kind = "zns" => zones' = Cardinality(Opened) + 1
  BY <1>1, <1>2, <1>3, <1>9 DEF LoopZones
<1>11. zones' \in 0 .. PebsCount
  <2>1. kind # "zns" => zones' = 0
    BY <1>2, <1>3
  <2> QED
    BY <1>6, <1>9, <1>10, <2>1
<1>12. ASSUME kind = "zns" PROVE LoopZones'
  <2>1. LoopZones
    BY <1>2, <1>12
  <2>2. wp'[CurPeb.id] = out'.flushed
    BY <1>1, <1>2, <1>3
  <2>3. \A n \in AllPebs(layout) : n # Cur => Peb(layout, n).id # CurPeb.id
    BY <1>6, PebsDiffer
  <2>4. \A n \in AllPebs(layout) : Peb(layout, n).id \in Pebs
    <3>1. \A n \in AllPebs(layout) : Peb(layout, n).id \in Nat /\ Peb(layout, n).id < PebsCount
      BY <1>6, PebFacts
    <3> QED
      BY <1>6, <3>1 DEF Pebs
  <2>5. \A n \in AllPebs(layout) : n # Cur => wp'[Peb(layout, n).id] = wp[Peb(layout, n).id]
    BY <1>2, <1>3, <2>3, <2>4
  <2>6. "erase" \notin failed => \A n \in AllPebs(layout) :
          ~Before(n) /\ n # Cur => wp[Peb(layout, n).id] = 0
    BY <2>1 DEF LoopZones
  <2>7. zones' = Cardinality(Opened') + (IF pc' = "peb" /\ out'.flushed > 0 THEN 1 ELSE 0)
    BY <1>3, <1>4, <1>7, <1>10, <1>12
  <2>8. "erase" \notin failed => \A n \in AllPebs(layout) :
          ~Before(n)' /\ n # Cur' => wp'[Peb(layout, n).id] = 0
    BY <1>7, <2>5, <2>6
  <2>9. /\ pc' = "peb" => wp'[CurPeb'.id] = out'.flushed
        /\ "erase" \notin failed' => \A n \in AllPebs(layout') :
             ~Before(n)' /\ ~(pc' = "peb" /\ n = Cur') => wp'[Peb(layout', n).id] = 0
    BY <1>7, <2>2, <2>8
  <2> QED
    BY <2>7, <2>9 DEF LoopZones
<1> QED
  BY <1>2, <1>3, <1>5, <1>11, <1>12

LEMMA ZoneStartPeb ==
  ASSUME StaysInv, PlaceInv, ZoneInv, StartPeb
  PROVE  /\ wp' = wp /\ zones' = zones
         /\ kind = "zns" => LoopZones'
<1>1. /\ pc = "write" /\ layout' = layout /\ wp' = wp /\ zones' = zones /\ failed' = failed
      /\ cur.seg <= Len(layout.segs)
  BY DEF StartPeb, inputs
<1>2. /\ cur \in [seg : Nat \ {0}, peb : Nat \ {0}, ext : Nat, off : Nat, left : Nat]
      /\ cur.seg \in Nat /\ cur.peb \in Nat
  BY DEF StaysInv, WriteTypes
<1>3. layout \in Layouts /\ Accepted(layout)
  BY <1>1 DEF StaysInv, PoolInv, DataInv
<1> SUFFICES ASSUME kind = "zns" PROVE LoopZones'
  BY <1>1
<1>4. /\ "erase" \notin failed => \A n \in AllPebs(layout) :
           ~Before(n) => wp[Peb(layout, n).id] = 0
      /\ zones = Cardinality(Opened) + 0
  BY <1>1 DEF ZoneInv, LoopZones
<1>5. CASE cur.peb > Len(layout.segs[cur.seg].pebs)
  <2>1. cur' = [cur EXCEPT !.seg = @ + 1, !.peb = 1] /\ pc' = "write"
    BY <1>1, <1>5 DEF StartPeb
  <2>2. cur'.seg = cur.seg + 1 /\ cur'.peb = 1
    BY <1>2, <2>1
  <2>3. ASSUME NEW n \in AllPebs(layout) PROVE Before(n)' <=> Before(n)
    <3>1. /\ n[1] \in Nat /\ n[2] \in Nat \ {0} /\ n[1] \in 1 .. Len(layout.segs)
          /\ n[2] \in 1 .. Len(layout.segs[n[1]].pebs)
      BY <1>3, PebFacts
    <3>2. Before(n)' <=> n[1] < cur.seg + 1
      BY <1>2, <2>2, <3>1 DEF Before
    <3>3. CASE n[1] = cur.seg
      <4>1. n[2] < cur.peb
        <5>1. \A a, b, c \in Nat : a \in 1 .. b /\ c > b => a < c
          OBVIOUS
        <5>2. Len(layout.segs[cur.seg].pebs) \in Nat
          BY <1>3, <3>1, <3>3, PebsLength
        <5> QED
          BY <1>2, <1>5, <3>1, <3>3, <5>1, <5>2
      <4> QED
        BY <1>2, <3>2, <3>3, <4>1 DEF Before
    <3>4. CASE n[1] # cur.seg
      BY <1>2, <3>1, <3>2, <3>4 DEF Before
    <3> QED
      BY <3>3, <3>4
  <2>4. Opened' = Opened
    BY <1>1, <2>3, SameOpened
  <2>5. zones' = Cardinality(Opened') + (IF pc' = "peb" /\ out'.flushed > 0 THEN 1 ELSE 0)
    BY <1>1, <1>4, <2>1, <2>4
  <2> QED
    BY <1>1, <1>4, <2>1, <2>3, <2>5 DEF LoopZones
<1>6. CASE ~(cur.peb > Len(layout.segs[cur.seg].pebs))
  <2>1. /\ cur' = [cur EXCEPT !.ext = 0, !.off = 0, !.left = 0]
        /\ out' = [vol |-> CurPeb.id * PebSize, flushed |-> 0]
        /\ pc' = "peb"
    BY <1>6 DEF StartPeb
  <2>2. cur'.seg = cur.seg /\ cur'.peb = cur.peb /\ out'.flushed = 0
    BY <1>2, <2>1
  <2>3. /\ \A n : Before(n)' <=> Before(n)
        /\ Cur' = Cur /\ CurPeb' = CurPeb
    BY <1>1, <2>2 DEF Before, Cur, CurPeb
  <2>4. Opened' = Opened
    BY <1>1, <2>3, SameOpened
  <2>5. zones' = Cardinality(Opened') + (IF pc' = "peb" /\ out'.flushed > 0 THEN 1 ELSE 0)
    <3>1. ~(out'.flushed > 0)
      BY <2>2
    <3> QED
      BY <1>1, <1>4, <2>4, <3>1
  <2>6. Cur \in AllPebs(layout) /\ Peb(layout, Cur) = CurPeb /\ ~Before(Cur)
    <3>1. layout.segs \in Seq(SegType)
      BY <1>3, MkfsWriteAssumption
    <3>2. Len(layout.segs) \in Nat
      <4>1. \A q \in Seq(SegType) : Len(q) \in Nat
        OBVIOUS
      <4> QED
        BY <3>1, <4>1
    <3>3. cur.seg \in 1 .. Len(layout.segs)
      <4>1. cur.seg \in Nat \ {0}
        BY <1>2
      <4> QED
        BY <1>1, <3>2, <4>1
    <3>4. layout.segs[cur.seg] \in SegType /\ Len(layout.segs[cur.seg].pebs) \in Nat
          /\ cur.seg \in DOMAIN layout.segs
      BY <1>3, <3>1, <3>3, PebsLength
    <3>5. layout.segs[cur.seg].pebs \in Seq(PebType)
      BY <3>4 DEF SegType
    <3>6. cur.peb \in 1 .. Len(layout.segs[cur.seg].pebs)
      <4>1. \A a \in Nat \ {0} : \A b \in Nat : ~(a > b) => a \in 1 .. b
        OBVIOUS
      <4>2. cur.peb \in Nat \ {0}
        BY <1>2
      <4> QED
        BY <1>6, <3>4, <4>1, <4>2
    <3>7. cur.peb \in DOMAIN layout.segs[cur.seg].pebs
      BY <3>5, <3>6
    <3>8. Cur \in AllPebs(layout)
      BY <3>4, <3>7 DEF AllPebs, Cur
    <3> QED
      BY <1>2, <3>8 DEF Peb, CurPeb, Cur, Before
  <2>7. "erase" \notin failed => wp[CurPeb.id] = 0
    BY <1>4, <2>6
  <2>8. "erase" \notin failed' =>
          /\ \A n \in AllPebs(layout') :
               ~Before(n)' /\ ~(pc' = "peb" /\ n = Cur') => wp'[Peb(layout', n).id] = 0
          /\ pc' = "peb" => wp'[CurPeb'.id] = out'.flushed
    BY <1>1, <1>4, <2>2, <2>3, <2>7
  <2> QED
    BY <2>5, <2>8 DEF LoopZones
<1> QED
  BY <1>5, <1>6

(* A PEB is finished: it is written, and its zone counted or finished. *)
LEMMA ZoneFinishPeb ==
  ASSUME StaysInv, ZoneInv, FinishPeb
  PROVE  /\ wp' = wp
         /\ kind # "zns" => zones' = 0
         /\ zones' \in 0 .. PebsCount
         /\ kind = "zns" => LoopZones'
<1>1. /\ pc = "peb" /\ pc' = "write" /\ layout' = layout /\ wp' = wp /\ failed' = failed
      /\ PebCopied /\ cur.off <= out.flushed
      /\ zones' = (IF FinishesZone THEN zones - 1 ELSE zones)
      /\ cur' = [cur EXCEPT !.peb = @ + 1]
  BY DEF FinishPeb, PebCopied, inputs
<1>2. cur.seg \in Nat /\ cur.peb \in Nat /\ out.flushed \in Nat /\ cur.off \in Nat
  BY <1>1, LoopTypes
<1>3. cur'.seg = cur.seg /\ cur'.peb = cur.peb + 1
  <2>1. cur \in [seg : Nat \ {0}, peb : Nat \ {0}, ext : Nat, off : Nat, left : Nat]
    BY DEF StaysInv, WriteTypes
  <2> QED
    BY <1>1, <2>1
<1>4. /\ layout \in Layouts /\ Accepted(layout) /\ Cur \in AllPebs(layout)
      /\ Peb(layout, Cur) = CurPeb /\ PebsCount \in Nat
  BY <1>1, CurPebFacts, MkfsWriteAssumption DEF Cur, StaysInv, PoolInv, DataInv
<1>5. out.flushed > 0
  <2>1. cur.off = End(CurPeb.extents, Len(CurPeb.extents))
    BY <1>1, CopiedEnd
  <2>2. Len(CurPeb.extents) \in Nat \ {0} /\ CurPeb.extents \in Seq(ExtentType)
    BY <1>1, CurPebFacts
  <2>3. Len(CurPeb.extents) \in 1 .. Len(CurPeb.extents)
    BY <2>2
  <2>4. \A k \in 1 .. Len(CurPeb.extents) :
          CurPeb.extents[k].off \in Nat /\ CurPeb.extents[k].off < End(CurPeb.extents, k)
    BY <2>2, ExtentTypes
  <2>5. \A a \in Nat : a < cur.off => out.flushed > 0
    BY <1>1, <1>2
  <2> QED
    BY <2>1, <2>3, <2>4, <2>5
<1>6. \A n \in AllPebs(layout) : Before(n)' <=> (Before(n) \/ n = Cur)
  <2> SUFFICES ASSUME NEW n \in AllPebs(layout)
               PROVE  Before(n)' <=> (Before(n) \/ n = Cur)
    OBVIOUS
  <2>1. n[1] \in Nat /\ n[2] \in Nat /\ n = <<n[1], n[2]>>
    BY <1>4, PebFacts
  <2>2. n = Cur <=> n[1] = cur.seg /\ n[2] = cur.peb
    BY <2>1 DEF Cur
  <2> QED
    BY <1>2, <1>3, <2>1, <2>2 DEF Before
<1>7. zones \in 0 .. PebsCount /\ (kind # "zns" => zones = 0)
  BY DEF ZoneInv
<1>8. CASE kind # "zns"
  BY <1>1, <1>7, <1>8 DEF FinishesZone
<1>9. CASE kind = "zns"
  <2>1. /\ "erase" \notin failed => \A n \in AllPebs(layout) :
             ~Before(n) /\ n # Cur => wp[Peb(layout, n).id] = 0
        /\ zones = Cardinality(Opened) + 1
    BY <1>1, <1>5, <1>9 DEF ZoneInv, LoopZones
  <2>2. IsFiniteSet(Opened) /\ Cardinality(Opened) \in Nat
    BY <1>4, OpenedFinite
  <2>3. Cur \notin Opened
    BY <1>2 DEF Opened, Before, Cur
  <2>4. layout.segs[cur.seg] = layout.segs[Cur[1]]
    BY DEF Cur
  <2>5. zones' = Cardinality(Opened') /\ zones' \in 0 .. PebsCount
    <3>1. CASE layout.segs[cur.seg].type = "snapshot"
      <4>1. Opened' = Opened
        BY <1>1, <1>6, <2>4, <3>1 DEF Opened
      <4>2. zones' = zones - 1
        BY <1>1, <1>9, <3>1 DEF FinishesZone
      <4> QED
        BY <1>4, <1>7, <2>1, <2>2, <4>1, <4>2
    <3>2. CASE layout.segs[cur.seg].type # "snapshot"
      <4>1. Opened' = Opened \cup {Cur}
        BY <1>1, <1>4, <1>6, <2>4, <3>2 DEF Opened
      <4>2. Cardinality(Opened \cup {Cur}) = Cardinality(Opened) + 1
        BY <2>2, <2>3, FS_AddElement
      <4>3. zones' = zones
        BY <1>1, <3>2 DEF FinishesZone
      <4> QED
        BY <1>7, <2>1, <4>1, <4>2, <4>3
    <3> QED
      BY <3>1, <3>2
  <2>6. "erase" \notin failed => \A n \in AllPebs(layout) :
          ~Before(n)' => wp[Peb(layout, n).id] = 0
    BY <1>6, <2>1
  <2>7. zones' = Cardinality(Opened') + (IF pc' = "peb" /\ out'.flushed > 0 THEN 1 ELSE 0)
    BY <1>1, <1>7, <2>5
  <2>8. LoopZones'
    BY <1>1, <2>6, <2>7 DEF LoopZones
  <2> QED
    BY <1>1, <1>9, <2>5, <2>8
<1> QED
  BY <1>8, <1>9

(* The PEBs with data are those of the layout, and all but the one of the  *)
(* initial snapshot are counted.                                           *)
LEMMA ZonesCounted ==
  ASSUME layout \in Layouts, Accepted(layout), layout.perSeg = 1, DataRight,
         \A n \in AllPebs(layout) : Before(n), PebsWritten
  PROVE  /\ Opened = { n \in AllPebs(layout) : layout.segs[n[1]].type # "snapshot" }
         /\ Cardinality(Opened) = Cardinality({ p \in Pebs : Data \cap PebBytes(p) # {} }) - 1
<1> DEFINE All == AllPebs(layout)
           D == { p \in Pebs : Data \cap PebBytes(p) # {} }
           f == [n \in All |-> Peb(layout, n).id]
<1>1. Opened = { n \in All : layout.segs[n[1]].type # "snapshot" }
  BY DEF Opened
<1>2. /\ IsFiniteSet(All) /\ Cardinality(All) \in Nat
      /\ PebSize \in Nat \ {0} /\ PebsCount \in Nat
  BY PebsFinite, MkfsWriteAssumption DEF PebSize
<1>3. ASSUME NEW n \in All PROVE Peb(layout, n).id \in D
  <2> DEFINE x == Peb(layout, n).extents
             id == Peb(layout, n).id
             o == x[1].off
  <2>1. /\ n[1] \in 1 .. Len(layout.segs) /\ n[2] \in 1 .. Len(layout.segs[n[1]].pebs)
        /\ id \in Nat /\ id < PebsCount /\ x \in Seq(ExtentType) /\ DOMAIN x = 1 .. Len(x)
        /\ \A e \in 1 .. Len(x) : End(x, e) <= PebSize
    BY <1>3, PebFacts
  <2>2. Len(x) \in Nat \ {0}
    BY <2>1, PebTypes DEF Peb
  <2>3. 1 \in 1 .. Len(x)
    BY <2>2
  <2>4. o \in Nat /\ o < End(x, 1) /\ End(x, 1) \in Nat /\ End(x, 1) <= PebSize
    BY <2>1, <2>3, ExtentTypes
  <2>5. Covers(n, o)
    BY <2>1, <2>3, <2>4 DEF Covers
  <2>6. Where(n, o) \in Data
    BY <1>3, <2>4, <2>5 DEF PebsWritten
  <2>7. id * PebSize + o \in id * PebSize .. (id + 1) * PebSize - 1
    <3>1. \A a, b, e, z \in Nat : b < e /\ e <= z => a * z + b \in a * z .. (a + 1) * z - 1
      <4> SUFFICES ASSUME NEW a \in Nat, NEW b \in Nat, NEW e \in Nat, NEW z \in Nat,
                          b < e, e <= z
                   PROVE  a * z + b \in a * z .. (a + 1) * z - 1
        OBVIOUS
      <4>1. (a + 1) * z = a * z + z /\ a * z \in Nat
        OBVIOUS
      <4> QED
        BY <4>1
    <3> QED
      BY <1>2, <2>1, <2>4, <3>1
  <2>8. Where(n, o) \in PebBytes(id)
    BY <2>7 DEF Where, PebBytes
  <2>9. id \in Pebs
    BY <1>2, <2>1 DEF Pebs
  <2> QED
    BY <2>6, <2>8, <2>9
<1>4. ASSUME NEW p \in D PROVE \E n \in All : Peb(layout, n).id = p
  <2>1. PICK b \in Data : b \in PebBytes(p)
    OBVIOUS
  <2>2. Expected(b) # {} /\ b \in Bytes
    BY DEF DataRight, Data
  <2>3. PICK v : v \in Expected(b)
    BY <2>2
  <2>4. PICK n \in All : \E e \in DOMAIN Peb(layout, n).extents :
          b - Peb(layout, n).id * PebSize \in
            Peb(layout, n).extents[e].off ..
              Peb(layout, n).extents[e].off + Peb(layout, n).extents[e].size - 1
    BY <2>3, ExpectedIs
  <2> DEFINE x == Peb(layout, n).extents
             id == Peb(layout, n).id
  <2>5. PICK e \in DOMAIN x : b - id * PebSize \in x[e].off .. x[e].off + x[e].size - 1
    BY <2>4
  <2>6. /\ x \in Seq(ExtentType) /\ e \in 1 .. Len(x) /\ id \in Nat
        /\ End(x, e) <= PebSize
    BY PebFacts
  <2>7. x[e].off \in Nat /\ x[e].size \in Nat /\ x[e].off + x[e].size <= PebSize
    BY <2>6, ExtentTypes DEF End
  <2>8. p \in Nat /\ b \in Nat /\ b \in p * PebSize .. (p + 1) * PebSize - 1
    BY <1>2, <2>1, <2>2 DEF Pebs, PebBytes, Bytes
  <2>9. b \div PebSize = p
    <3>1. PebSize * p = p * PebSize /\ (p + 1) * PebSize = PebSize * p + PebSize
          /\ PebSize * p \in Nat
      BY <1>2, <2>8
    <3>2. PebSize * p <= b /\ b < PebSize * p + PebSize
      BY <1>2, <2>8, <3>1
    <3> QED
      BY <1>2, <2>8, <3>2, CellIs
  <2>10. b \div PebSize = id
    <3>1. \A i1, a, c \in Nat : /\ b - i1 * PebSize \in a .. a + c - 1
                                /\ a + c <= PebSize
             => PebSize * i1 <= b /\ b < PebSize * i1 + PebSize
      <4> SUFFICES ASSUME NEW i1 \in Nat, NEW a \in Nat, NEW c \in Nat,
                          b - i1 * PebSize \in a .. a + c - 1, a + c <= PebSize
                   PROVE  PebSize * i1 <= b /\ b < PebSize * i1 + PebSize
        OBVIOUS
      <4>1. i1 * PebSize = PebSize * i1 /\ PebSize * i1 \in Nat
        BY <1>2
      <4> QED
        BY <1>2, <2>8, <4>1
    <3>2. PebSize * id <= b /\ b < PebSize * id + PebSize
      BY <2>5, <2>6, <2>7, <3>1
    <3> QED
      BY <1>2, <2>6, <2>8, <3>2, CellIs
  <2> QED
    BY <2>9, <2>10
<1>5. f \in Bijection(All, D)
  <2>1. f \in [All -> D]
    BY <1>3
  <2>2. f \in Injection(All, D)
    BY <2>1, PebsDiffer DEF Injection, IsInjective
  <2>3. f \in Surjection(All, D)
    BY <1>4, <2>1 DEF Surjection
  <2> QED
    BY <2>2, <2>3 DEF Bijection
<1>6. Cardinality(D) = Cardinality(All)
  BY <1>2, <1>5, FS_Bijection DEF ExistsBijection
<1>7. PICK n \in All : \A m \in All : layout.segs[m[1]].type = "snapshot" <=> m = n
  BY OnePebPerSegmentAssumption
<1>8. Opened = All \ {n}
  BY <1>1, <1>7
<1>9. Cardinality(Opened) = Cardinality(All) - 1
  BY <1>2, <1>8, FS_RemoveElement
<1> QED
  BY <1>1, <1>6, <1>9

(* The steps of the write loop, and its end. *)
LEMMA ZoneWrite ==
  ASSUME StaysInv, GoneInv, PlaceInv, ZoneInv, WriteStep
  PROVE  ZoneInv'
<1>1. /\ pc \in {"write", "peb"} /\ pc' \in {"write", "peb", "done"}
      /\ layout' = layout /\ kind' = kind /\ need' = need /\ cap' = cap
      /\ i' = i /\ requested' = requested /\ thr' = thr /\ done' = done
  BY WriteStepFrame
<1>2. /\ RestTypes /\ res = "none" /\ zones \in 0 .. PebsCount
      /\ kind # "zns" => zones = 0
      /\ kind = "zns" => layout.perSeg = 1 /\ LoopZones
      /\ layout \in Layouts /\ Accepted(layout)
  BY <1>1 DEF ZoneInv, PlaceInv, StaysInv, PoolInv, DataInv
<1>3. ResetInv' /\ Workers' = Workers
  BY <1>1 DEF ResetInv, Workers
(* What the steps below have to show. *)
<1>4. ASSUME wp' \in [Pebs -> 0 .. PebSize],
             res' \in {"none", "ok", "refused", "error", "zones"},
             failed' \subseteq failed \cup {"call"},
             kind # "zns" => zones' = 0, zones' \in 0 .. PebsCount,
             kind = "zns" /\ pc' # "done" => LoopZones',
             CheckedLayoutIsWritten'
      PROVE  ZoneInv'
  <2>1. RestTypes'
    BY <1>1, <1>2, <1>3, <1>4 DEF RestTypes
  <2> QED
    BY <1>1, <1>2, <1>3, <1>4, <2>1 DEF ZoneInv
<1>5. wp \in [Pebs -> 0 .. PebSize]
  BY <1>2 DEF RestTypes
<1>6. CASE StartPeb
  <2>1. wp' = wp /\ zones' = zones /\ (kind = "zns" => LoopZones')
    BY <1>6, ZoneStartPeb
  <2>2. res' = res /\ failed' = failed
    BY <1>6 DEF StartPeb
  <2>3. CheckedLayoutIsWritten'
    BY <1>2, <2>2 DEF CheckedLayoutIsWritten
  <2> QED
    BY <1>2, <1>4, <1>5, <2>1, <2>2, <2>3
<1>7. CASE NextExtent
  <2>1. /\ pc = "peb" /\ pc' = pc /\ wp' = wp /\ zones' = zones /\ out' = out
        /\ res' = res /\ failed' = failed
        /\ LET x == CurPeb.extents[cur.ext + 1]
           IN  cur' = [cur EXCEPT !.ext = @ + 1, !.off = x.off, !.left = x.size]
    BY <1>7 DEF NextExtent
  <2>2. cur'.seg = cur.seg /\ cur'.peb = cur.peb
    <3>1. cur \in [seg : Nat \ {0}, peb : Nat \ {0}, ext : Nat, off : Nat, left : Nat]
      BY DEF StaysInv, WriteTypes
    <3> QED
      BY <2>1, <3>1
  <2>3. /\ \A n : Before(n)' <=> Before(n)
        /\ Cur' = Cur /\ CurPeb' = CurPeb
    BY <1>1, <2>2 DEF Before, Cur, CurPeb
  <2>4. Opened' = Opened
    BY <1>1, <2>3, SameOpened
  <2>5. kind = "zns" => LoopZones'
    BY <1>1, <1>2, <2>1, <2>3, <2>4 DEF LoopZones
  <2>6. CheckedLayoutIsWritten'
    BY <1>2, <2>1 DEF CheckedLayoutIsWritten
  <2> QED
    BY <1>2, <1>4, <1>5, <2>1, <2>5, <2>6
<1>8. CASE CopyBytes
  <2>1. /\ pc = "peb" /\ pc' = "peb" /\ cur.left > 0 /\ res' = res /\ failed' = failed
        /\ cur' = [cur EXCEPT !.off = @ + Copied, !.left = @ - Copied]
        /\ FlushBuffer(Filled) \/ (wp' = wp /\ zones' = zones /\ out' = out)
    BY <1>8 DEF CopyBytes
  <2>2. cur'.seg = cur.seg /\ cur'.peb = cur.peb
    <3>1. cur \in [seg : Nat \ {0}, peb : Nat \ {0}, ext : Nat, off : Nat, left : Nat]
      BY DEF StaysInv, WriteTypes
    <3> QED
      BY <2>1, <3>1
  <2>3. CheckedLayoutIsWritten'
    BY <1>2, <2>1 DEF CheckedLayoutIsWritten
  <2>4. CASE FlushBuffer(Filled)
    <3>1. out.flushed < End(CurPeb.extents, Len(CurPeb.extents))
      BY <2>1, FlushBelowEnd
    <3>2. /\ wp' \in [Pebs -> 0 .. PebSize] /\ (kind # "zns" => zones' = 0)
          /\ zones' \in 0 .. PebsCount /\ (kind = "zns" => LoopZones')
      BY <1>1, <2>1, <2>2, <2>4, <3>1, ZoneFlush
    <3> QED
      BY <1>2, <1>4, <2>1, <2>3, <3>2
  <2>5. CASE wp' = wp /\ zones' = zones /\ out' = out
    <3>1. /\ \A n : Before(n)' <=> Before(n)
          /\ Cur' = Cur /\ CurPeb' = CurPeb
      BY <1>1, <2>2 DEF Before, Cur, CurPeb
    <3>2. Opened' = Opened
      BY <1>1, <3>1, SameOpened
    <3>3. kind = "zns" => LoopZones'
      BY <1>1, <1>2, <2>1, <2>5, <3>1, <3>2 DEF LoopZones
    <3> QED
      BY <1>2, <1>4, <1>5, <2>1, <2>3, <2>5, <3>3
  <2> QED
    BY <2>1, <2>4, <2>5
<1>9. CASE FlushRest
  <2>1. /\ pc = "peb" /\ pc' = "peb" /\ PebCopied /\ cur.off > out.flushed
        /\ res' = res /\ failed' = failed /\ cur' = cur /\ FlushBuffer(buf.bytes)
    BY <1>9 DEF FlushRest, PebCopied
  <2>2. out.flushed < End(CurPeb.extents, Len(CurPeb.extents))
    BY <2>1, FlushBelowEnd
  <2>3. /\ wp' \in [Pebs -> 0 .. PebSize] /\ (kind # "zns" => zones' = 0)
        /\ zones' \in 0 .. PebsCount /\ (kind = "zns" => LoopZones')
    BY <1>1, <2>1, <2>2, ZoneFlush
  <2>4. CheckedLayoutIsWritten'
    BY <1>2, <2>1 DEF CheckedLayoutIsWritten
  <2> QED
    BY <1>2, <1>4, <2>1, <2>3, <2>4
<1>10. CASE FinishPeb
  <2>1. res' = res /\ failed' = failed
    BY <1>10 DEF FinishPeb
  <2>2. /\ wp' = wp /\ (kind # "zns" => zones' = 0)
        /\ zones' \in 0 .. PebsCount /\ (kind = "zns" => LoopZones')
    BY <1>10, ZoneFinishPeb
  <2>3. CheckedLayoutIsWritten'
    BY <1>2, <2>1 DEF CheckedLayoutIsWritten
  <2> QED
    BY <1>2, <1>4, <1>5, <2>1, <2>2, <2>3
<1>11. CASE WriteFails
  <2>1. /\ pc' = "done" /\ res' = "error" /\ wp' = wp /\ zones' = zones
        /\ (pc = "peb" /\ cur.left > 0) \/ (PebCopied /\ cur.off > out.flushed)
        /\ failed' = IF WriteWorks THEN failed \cup {"call"} ELSE failed
    BY <1>11 DEF WriteFails, Return, writeVars
  <2>2. "erase" \in failed \/ WriteWorks
    BY <2>1, ZoneWritable
  <2>3. failed' # {} /\ failed' \subseteq failed \cup {"call"}
    BY <2>1, <2>2
  <2>4. CheckedLayoutIsWritten'
    BY <2>1, <2>3 DEF CheckedLayoutIsWritten
  <2> QED
    BY <1>2, <1>4, <1>5, <2>1, <2>3, <2>4
<1>12. CASE FinishZoneFails \/ SyncFails
  <2>1. /\ pc' = "done" /\ res' = "error" /\ wp' = wp /\ zones' = zones
        /\ failed' = failed \cup {"call"}
    BY <1>12 DEF FinishZoneFails, SyncFails, Return, writeVars
  <2>2. CheckedLayoutIsWritten'
    BY <2>1 DEF CheckedLayoutIsWritten
  <2> QED
    BY <1>2, <1>4, <1>5, <2>1, <2>2
<1>13. CASE Sync
  <2>1. /\ pc = "write" /\ pc' = "done" /\ cur.seg > Len(layout.segs)
        /\ dev' = dev /\ wp' = wp /\ zones' = zones /\ failed' = failed
        /\ res' = IF kind = "zns" /\ zones # CalculatedOpenZones THEN "zones" ELSE "ok"
    BY <1>13 DEF Sync, Return, writeVars
  <2>2. ASSUME kind = "zns"
        PROVE  /\ zones = CalculatedOpenZones
               /\ zones = Cardinality({ p \in Pebs : Data \cap PebBytes(p) # {} }) - 1
    <3>1. zones = Cardinality(Opened) + 0 /\ layout.perSeg = 1
      BY <1>2, <2>1, <2>2 DEF LoopZones
    <3>2. Cardinality(Opened) \in Nat
      BY <1>2, OpenedFinite
    <3>3. PebsWritten /\ DataRight
      BY <2>1 DEF PlaceInv
    <3>4. \A n \in AllPebs(layout) : Before(n)
      <4> SUFFICES ASSUME NEW n \in AllPebs(layout) PROVE Before(n)
        OBVIOUS
      <4>1. n[1] \in 1 .. Len(layout.segs)
        BY <1>2, PebFacts
      <4>2. cur.seg \in Nat /\ Len(layout.segs) \in Nat
        <5>1. layout.segs \in Seq(SegType)
          BY <1>2, MkfsWriteAssumption
        <5> QED
          BY <5>1 DEF StaysInv, WriteTypes
      <4>3. n[1] < cur.seg
        BY <2>1, <4>1, <4>2
      <4> QED
        BY <4>3 DEF Before
    <3>5. /\ Opened = { n \in AllPebs(layout) : layout.segs[n[1]].type # "snapshot" }
          /\ Cardinality(Opened) = Cardinality({ p \in Pebs : Data \cap PebBytes(p) # {} }) - 1
      BY <1>2, <3>1, <3>3, <3>4, ZonesCounted
    <3> QED
      BY <3>1, <3>2, <3>5 DEF CalculatedOpenZones
  <2>3. res' = "ok"
    BY <2>1, <2>2
  <2>4. Data' = Data
    BY <2>1 DEF Data
  <2>5. CheckedLayoutIsWritten'
    BY <1>1, <2>1, <2>2, <2>3, <2>4 DEF CheckedLayoutIsWritten, PebBytes
  <2> QED
    BY <1>2, <1>4, <1>5, <2>1, <2>3, <2>5
<1> QED
  BY <1>6, <1>7, <1>8, <1>9, <1>10, <1>11, <1>12, <1>13 DEF WriteStep

WriteInv == StaysInv /\ GoneInv /\ PlaceInv /\ ZoneInv

LEMMA WriteInvInit ==
  ASSUME Init
  PROVE  WriteInv
BY StaysInit, GoneInit, PlaceInit, ZoneInit DEF WriteInv

LEMMA WriteInvNext ==
  ASSUME WriteInv, [Next]_vars
  PROVE  WriteInv'
<1>1. StaysInv /\ GoneInv /\ PlaceInv /\ ZoneInv /\ PoolInv
  BY DEF WriteInv, StaysInv
<1>2. StaysInv' /\ PlaceInv'
  BY <1>1, StaysNext, PlaceNext
<1>3. CASE UNCHANGED vars
  <2>1. /\ layout' = layout /\ kind' = kind /\ need' = need /\ cap' = cap
        /\ dev' = dev /\ wp' = wp /\ pc' = pc /\ i' = i
        /\ requested' = requested /\ thr' = thr /\ done' = done /\ cur' = cur
        /\ buf' = buf /\ out' = out /\ zones' = zones /\ res' = res /\ failed' = failed
    BY <1>3 DEF vars, inputs, eraseVars, writeVars
  <2>2. GoneInv'
    BY <1>1, <2>1 DEF GoneInv, Writing, Clean, SegBytes, Workers, PerThread, CurrentPeb
  <2>3. RestTypes' /\ Data' = Data /\ Workers' = Workers
    BY <1>1, <2>1 DEF ZoneInv, RestTypes, Workers, Data
  <2>4. CheckedLayoutIsWritten'
    BY <1>1, <2>1, <2>3 DEF ZoneInv, CheckedLayoutIsWritten, PebBytes
  <2>5. ResetInv' <=> ResetInv
    BY <2>1 DEF ResetInv, Zeroed, Workers, PerThread
  <2>6. Opened' = Opened
    <3>1. \A n : Before(n)' <=> Before(n)
      BY <2>1 DEF Before
    <3> QED
      BY <2>1, <3>1, SameOpened
  <2>7. LoopZones' <=> LoopZones
    BY <2>1, <2>6 DEF LoopZones, Before, Cur, CurPeb
  <2>8. ZoneInv'
    BY <1>1, <2>1, <2>3, <2>4, <2>5, <2>7 DEF ZoneInv
  <2> QED
    BY <1>2, <2>2, <2>8 DEF WriteInv
<1>4. CASE CheckLayout \/ CheckFails \/ EraseStep
  BY <1>1, <1>2, <1>4, GoneErase, ZoneErase DEF WriteInv
<1>5. CASE SpawnStep \/ \E t \in Workers : Worker(t)
  BY <1>1, <1>2, <1>5, GonePool, ZonePool DEF WriteInv
<1>6. CASE WriteStep
  BY <1>1, <1>2, <1>6, GoneWrite, ZoneWrite DEF WriteInv
<1> QED
  BY <1>3, <1>4, <1>5, <1>6, NextSteps

(* The state of write_device stays in its types: no worker erases more     *)
(* PEBs than the volume has, the buffer is never full between two turns of *)
(* the copy loop, no write pointer leaves its zone, and the counter of     *)
(* open zones neither wraps below zero nor exceeds the zones there are.    *)
THEOREM MkfsWriteTypeOK == Spec => []TypeOK
<1>1. Init => WriteInv
  BY WriteInvInit
<1>2. WriteInv /\ [Next]_vars => WriteInv'
  BY WriteInvNext
<1>3. WriteInv => TypeOK
  BY DEF WriteInv, StaysInv, PoolInv, WriteTypes, ZoneInv, RestTypes, TypeOK
<1> QED
  BY <1>1, <1>2, <1>3, PTL DEF Spec

(* Whatever the layout: once check_layout_before_write has accepted it,    *)
(* write_device fails only if a call fails.  On a zoned device every page  *)
(* is written at the write pointer of its zone, because every zone of the  *)
(* layout has been reset and no two PEBs share one; and the zones counted  *)
(* as open are the ones with data, less that of the initial snapshot, so   *)
(* that the comparison with the calculated number never fails.             *)
THEOREM MkfsCheckedLayoutIsWritten == Spec => []CheckedLayoutIsWritten
<1>1. Init => WriteInv
  BY WriteInvInit
<1>2. WriteInv /\ [Next]_vars => WriteInv'
  BY WriteInvNext
<1>3. WriteInv => CheckedLayoutIsWritten
  BY DEF WriteInv, ZoneInv
<1> QED
  BY <1>1, <1>2, <1>3, PTL DEF Spec
=============================================================================
