-------------------------- MODULE FsckSearchProof ---------------------------
(***************************************************************************)
(* Proofs about the whole-volume search, for every number of threads,      *)
(* every device, every interleaving and every pattern of allocation        *)
(* failures: the pool is joined before it is used, the creation points     *)
(* stay sorted, and the search is complete, forgets nothing and implements *)
(* VolumeSearch.  First, how PEBs are shared out to threads.               *)
(***************************************************************************)
EXTENDS FsckSearchRefines, TLAPS, SequenceTheorems, WellFoundedInduction,
        FiniteSetTheorems

(* The arithmetic of PebPartition, for every volume and thread number: the *)
(* shares cover the volume, they are disjoint and inside it exactly when   *)
(* no start lies beyond the volume.                                        *)

LEMMA DivisionInt ==
  ASSUME NEW a \in Int, NEW b \in Int, b > 0
  PROVE  a = b * (a \div b) + (a % b)
BY SMT

LEMMA DivMod ==
  ASSUME NEW a \in Nat, NEW b \in Nat \ {0}
  PROVE  /\ a \div b \in Nat
         /\ a % b \in 0 .. b - 1
         /\ a = b * (a \div b) + (a % b)
<1>1. a % b \in 0 .. b - 1
  BY SMT
<1>2. a = b * (a \div b) + (a % b)
  BY DivisionInt
<1>3. a \div b \in Int
  BY SMT
<1>4. a \div b >= 0
  BY <1>1, <1>2, <1>3, SMT
<1> QED
  BY <1>1, <1>2, <1>3, <1>4

LEMMA SmallMod ==
  ASSUME NEW a \in Nat, NEW b \in Nat, a < b
  PROVE  a % b = a
BY SMT

(* The rounded up share times the thread number covers the volume. *)
LEMMA RoundedUp ==
  ASSUME NEW pebs \in Nat, NEW capacity \in Nat \ {0}
  PROVE  /\ PebsPerThread(pebs, capacity) \in Nat
         /\ pebs <= capacity * PebsPerThread(pebs, capacity)
         /\ pebs > 0 => PebsPerThread(pebs, capacity) > 0
<1> DEFINE q == (pebs + capacity - 1) \div capacity
           r == (pebs + capacity - 1) % capacity
<1>1. pebs + capacity - 1 \in Nat
  OBVIOUS
<1>2. q \in Nat /\ r \in 0 .. capacity - 1 /\ pebs + capacity - 1 = capacity * q + r
  BY <1>1, DivMod
<1>3. capacity * q \in Nat
  BY <1>2, SMT
<1> HIDE DEF q, r
<1>4. pebs <= capacity * q
  BY <1>2, <1>3
<1>5. pebs > 0 => q > 0
  <2>1. q = 0 => capacity * q = 0
    BY <1>2, SMT
  <2> QED
    BY <1>2, <1>4, <2>1
<1> QED
  BY <1>2, <1>4, <1>5 DEF PebsPerThread, q

(* t * perThread is monotone in t. *)
LEMMA Monotone ==
  ASSUME NEW s \in Nat, NEW t \in Nat, NEW per \in Nat, s <= t
  PROVE  s * per <= t * per /\ s * per \in Nat /\ t * per \in Nat
BY SMT

(***************************************************************************)
(* No u64 product wraps: the thread number times the share is a PEB number *)
(* that fits into 64 bits.                                                 *)
(***************************************************************************)
InU64(pebs, capacity) ==
  capacity * PebsPerThread(pebs, capacity) < U64

(* What thread t gets when its start lies inside the volume. *)
LEMMA ShareInside ==
  ASSUME NEW pebs \in Nat, NEW capacity \in Nat \ {0},
         NEW t \in 0 .. capacity - 1,
         InU64(pebs, capacity), Fits(pebs, capacity)
  PROVE  LET per == PebsPerThread(pebs, capacity)
         IN  /\ t * per \in Nat
             /\ t * per <= pebs
             /\ FirstPeb(t, per) = t * per
             /\ Share(t, pebs, per) =
                  IF pebs - t * per < per THEN pebs - t * per ELSE per
<1> DEFINE per == PebsPerThread(pebs, capacity)
<1>1. per \in Nat /\ pebs <= capacity * per
  BY RoundedUp
<1>2. (capacity - 1) * per <= pebs /\ capacity * per < U64
  BY DEF Fits, InU64
<1> HIDE DEF per
<1>3. t * per <= (capacity - 1) * per /\ t * per \in Nat
  BY <1>1, Monotone
<1>4. capacity * per \in Nat /\ (capacity - 1) * per \in Nat
  BY <1>1, Monotone
<1>5. t * per <= pebs /\ t * per < U64 /\ pebs < U64 /\ U64 \in Nat
  BY <1>1, <1>2, <1>3, <1>4, U64Assumption
<1>6. FirstPeb(t, per) = t * per
  BY <1>3, <1>5, SmallMod DEF FirstPeb
<1>7. pebs - t * per \in Nat /\ pebs - t * per < U64
  BY <1>3, <1>5
<1>8. (pebs - t * per) % U64 = pebs - t * per
  BY <1>5, <1>7, SmallMod
<1> QED
  BY <1>3, <1>5, <1>6, <1>8 DEF Share, per

(* The shares cover the volume: no PEB is left to nobody, whatever the     *)
(* rounding (execute_whole_volume_search, recoverfs and mkfs main loops).  *)
THEOREM SharesCover ==
  ASSUME NEW pebs \in Nat, NEW capacity \in Nat \ {0},
         InU64(pebs, capacity), Fits(pebs, capacity),
         NEW p \in 0 .. pebs - 1
  PROVE  \E t \in 0 .. capacity - 1 :
           p \in PebRange(t, pebs, PebsPerThread(pebs, capacity))
<1> DEFINE per == PebsPerThread(pebs, capacity)
           t == p \div per
<1>1. per \in Nat \ {0} /\ pebs <= capacity * per
  <2>1. pebs > 0
    OBVIOUS
  <2>2. per \in Nat /\ per > 0 /\ pebs <= capacity * per
    BY <2>1, RoundedUp
  <2> HIDE DEF per
  <2> QED
    BY <2>2
<1> HIDE DEF per
<1>2. t \in Nat /\ p % per \in 0 .. per - 1 /\ p = per * t + (p % per)
  <2>1. p \in Nat
    OBVIOUS
  <2> QED
    BY <1>1, <2>1, DivMod
<1>3. per * t = t * per
  BY <1>1, <1>2, SMT
<1> HIDE DEF t
<1>4. t \in 0 .. capacity - 1
  <2> SUFFICES ASSUME t >= capacity PROVE FALSE
    BY <1>2
  <2>1. capacity * per <= t * per /\ t * per \in Nat /\ capacity * per \in Nat
    BY <1>1, <1>2, Monotone
  <2> QED
    BY <1>1, <1>2, <1>3, <2>1
<1>5. /\ t * per \in Nat
      /\ FirstPeb(t, per) = t * per
      /\ Share(t, pebs, per) = IF pebs - t * per < per THEN pebs - t * per ELSE per
  BY <1>4, ShareInside DEF per
<1> DEFINE k == p % per
<1>6. k \in Int /\ 0 <= k /\ k < per /\ p = t * per + k
  BY <1>1, <1>2, <1>3
<1> HIDE DEF k
<1>7. k \in 0 .. Share(t, pebs, per) - 1
  BY <1>1, <1>5, <1>6
<1>8. p = FirstPeb(t, per) + k
  BY <1>5, <1>6
<1>9. p \in PebRange(t, pebs, per)
  BY <1>7, <1>8 DEF PebRange
<1> QED
  BY <1>4, <1>9 DEF per

(* No PEB belongs to two threads, so no worker races with another on a PEB *)
(* and none is counted twice; and no share reaches beyond the volume.      *)
THEOREM SharesDisjoint ==
  ASSUME NEW pebs \in Nat, NEW capacity \in Nat \ {0},
         InU64(pebs, capacity), Fits(pebs, capacity),
         NEW s \in 0 .. capacity - 1, NEW t \in 0 .. capacity - 1, s < t
  PROVE  LET per == PebsPerThread(pebs, capacity)
         IN  /\ PebRange(s, pebs, per) \cap PebRange(t, pebs, per) = {}
             /\ PebRange(s, pebs, per) \subseteq 0 .. pebs - 1
             /\ PebRange(t, pebs, per) \subseteq 0 .. pebs - 1
<1> DEFINE per == PebsPerThread(pebs, capacity)
<1>1. per \in Nat
  BY RoundedUp
<1>2. \A u \in 0 .. capacity - 1 :
        /\ u * per \in Nat
        /\ u * per <= pebs
        /\ FirstPeb(u, per) = u * per
        /\ Share(u, pebs, per) = IF pebs - u * per < per THEN pebs - u * per ELSE per
  BY ShareInside
<1> HIDE DEF per
<1>3. \A u \in 0 .. capacity - 1 : \A p \in PebRange(u, pebs, per) :
        p \in Int /\ u * per <= p /\ p < u * per + per /\ p < pebs
  <2> SUFFICES ASSUME NEW u \in 0 .. capacity - 1, NEW p \in PebRange(u, pebs, per)
               PROVE  p \in Int /\ u * per <= p /\ p < u * per + per /\ p < pebs
    OBVIOUS
  <2>1. PICK k \in 0 .. Share(u, pebs, per) - 1 : p = FirstPeb(u, per) + k
    BY DEF PebRange
  <2> DEFINE first == u * per
  <2>2. /\ first \in Nat /\ first <= pebs /\ FirstPeb(u, per) = first
        /\ Share(u, pebs, per) = IF pebs - first < per THEN pebs - first ELSE per
    BY <1>2
  <2> HIDE DEF first
  <2>3. p \in Int /\ first <= p /\ p < first + per /\ p < pebs
    BY <1>1, <2>1, <2>2
  <2> QED
    BY <2>3 DEF first
<1>4. s * per + per <= t * per
  <2>1. (s + 1) * per <= t * per
    BY <1>1, Monotone
  <2>2. (s + 1) * per = s * per + per
    BY <1>1, SMT
  <2> QED
    BY <2>1, <2>2
<1>5. s * per \in Nat /\ t * per \in Nat
  BY <1>2
<1>6. PebRange(s, pebs, per) \cap PebRange(t, pebs, per) = {}
  <2> DEFINE a == s * per
             b == t * per
  <2>1. a \in Nat /\ b \in Nat /\ a + per <= b
    BY <1>4, <1>5
  <2>2. \A p \in PebRange(s, pebs, per) : p \in Int /\ p < a + per
    BY <1>3
  <2>3. \A p \in PebRange(t, pebs, per) : p \in Int /\ b <= p
    BY <1>3
  <2> HIDE DEF a, b
  <2> QED
    BY <1>1, <2>1, <2>2, <2>3
<1>7. \A u \in 0 .. capacity - 1 : PebRange(u, pebs, per) \subseteq 0 .. pebs - 1
  <2> SUFFICES ASSUME NEW u \in 0 .. capacity - 1, NEW p \in PebRange(u, pebs, per)
               PROVE  p \in 0 .. pebs - 1
    OBVIOUS
  <2> DEFINE first == u * per
  <2>1. first \in Nat /\ p \in Int /\ first <= p /\ p < pebs
    BY <1>2, <1>3
  <2> HIDE DEF first
  <2> QED
    BY <2>1
<1> QED
  BY <1>6, <1>7 DEF per

-----------------------------------------------------------------------------

(***************************************************************************)
(* Where the main thread is in its loops, and which workers it may still   *)
(* find alive.  JoinedBeforeFree is not inductive alone: that no worker is *)
(* missed needs the relation of i and requested_jobs to the worker states. *)
(***************************************************************************)
SpawnInv ==
  /\ pc = "start" => i = 0 /\ requested = 0
  /\ pc \in {"start", "spawn"} =>
       i = requested /\ \A t \in Workers : t >= i => thr[t] = "none"
  /\ pc = "unwind" =>
       /\ requested = i + 1
       /\ \A t \in Workers : t > i => thr[t] \in {"none", "exited"}

JoinInv ==
  /\ pc \in {"wait", "merge"} => i >= 0 /\ requested = Capacity
  /\ pc = "wait" => \A t \in Workers : t < i => thr[t] = "exited"
  /\ JoinedBeforeFree

(* The array starts as the one point of the buffer and only grows. *)
ArrayInv ==
  /\ Len(array.points) > 0
  /\ array.state = "buffer" => Len(array.points) = 1
  /\ PointsSorted

SearchInv == TypeOK /\ SpawnInv /\ JoinInv /\ ArrayInv

-----------------------------------------------------------------------------
(* Lemmas about the operators *)

LEMMA FcnIsSeq ==
  ASSUME NEW n \in Nat, NEW S, NEW g \in [1 .. n -> S]
  PROVE  g \in Seq(S) /\ Len(g) = n
<1>1. g \in Seq(S)
  BY SeqDef
<1>2. Len(g) \in Nat /\ 1 .. Len(g) = 1 .. n
  BY <1>1, LenProperties
<1> QED
  BY <1>1, <1>2

(* Some place fits a new point: the least index whose point is newer. *)
LEMMA PlaceExists ==
  ASSUME NEW points \in Seq(PointType), NEW time \in Times
  PROVE  /\ Place(points, time) \in 1 .. Len(points) + 1
         /\ \A j \in 1 .. Place(points, time) - 1 : ~(time < points[j].time)
         /\ Place(points, time) <= Len(points) =>
              time < points[Place(points, time)].time
<1> DEFINE T == { k \in 1 .. Len(points) + 1 :
                    k <= Len(points) => time < points[k].time }
<1>1. Len(points) \in Nat
  BY LenProperties
<1>2. Len(points) + 1 \in T /\ T \subseteq Nat
  BY <1>1
<1>3. PICK x \in T : \A y \in T : ~(<<y, x>> \in OpToRel(<, Nat))
  BY <1>2, NatLessThanWellFounded, WFMin
<1>4. \A y \in T : ~(y < x)
  BY <1>2, <1>3 DEF OpToRel
<1>5. \A j \in 1 .. x - 1 : ~(time < points[j].time)
  <2> SUFFICES ASSUME NEW j \in 1 .. x - 1, time < points[j].time
               PROVE  FALSE
    OBVIOUS
  <2>1. j \in T /\ j < x
    BY <1>1
  <2> QED
    BY <2>1, <1>4
<1>6. \E k \in 1 .. Len(points) + 1 :
        /\ \A j \in 1 .. k - 1 : ~(time < points[j].time)
        /\ k <= Len(points) => time < points[k].time
  BY <1>5
<1> QED
  BY <1>6 DEF Place

Ordered(points) ==
  \A j, k \in 1 .. Len(points) : j < k => points[j].time < points[k].time

LEMMA NewPointType ==
  ASSUME NEW time \in Times
  PROVE  NewPoint(time) \in PointType /\ NewPoint(time).time = time
BY EmptySeq DEF NewPoint, PointType, Bits

LEMMA PointTime ==
  ASSUME NEW q \in PointType
  PROVE  q.time \in Int
<1>1. q.time \in Times \cup {NoTime}
  BY DEF PointType
<1>2. Times \cup {NoTime} \subseteq Int
  BY SearchAssumption
<1> QED
  BY <1>1, <1>2

(* Inserting a time that is not there keeps the points typed and sorted. *)
LEMMA InsertedSorted ==
  ASSUME NEW points \in Seq(PointType), NEW time \in Times, Ordered(points),
         \A k \in 1 .. Len(points) : points[k].time # time
  PROVE  /\ Inserted(points, time) \in Seq(PointType)
         /\ Len(Inserted(points, time)) = Len(points) + 1
         /\ Ordered(Inserted(points, time))
<1> DEFINE p == Place(points, time)
           n == Len(points)
           new == Inserted(points, time)
<1>1. n \in Nat /\ p \in 1 .. n + 1
  BY PlaceExists, LenProperties
<1>2. \A k \in 1 .. n : points[k] \in PointType /\ points[k].time \in Int
  <2>1. \A k \in 1 .. n : points[k] \in PointType
    BY ElementOfSeq
  <2> QED
    BY <2>1, PointTime
<1>3. new = [k \in 1 .. n + 1 |->
               IF k < p THEN points[k]
               ELSE IF k = p THEN NewPoint(time) ELSE points[k - 1]]
  BY DEF Inserted
<1> HIDE DEF p, new
<1>4. \A k \in 1 .. n + 1 : new[k] \in PointType
  <2> SUFFICES ASSUME NEW k \in 1 .. n + 1 PROVE new[k] \in PointType
    OBVIOUS
  <2>1. CASE k < p
    BY <2>1, <1>1, <1>2, <1>3
  <2>2. CASE k = p
    BY <2>2, <1>3, NewPointType
  <2>3. CASE k > p
    <3>1. k - 1 \in 1 .. n
      BY <2>3, <1>1
    <3> QED
      BY <2>3, <3>1, <1>1, <1>2, <1>3
  <2> QED
    BY <2>1, <2>2, <2>3, <1>1
<1>5. new \in [1 .. n + 1 -> PointType]
  BY <1>3, <1>4
<1>6. new \in Seq(PointType) /\ Len(new) = n + 1
  BY <1>1, <1>5, FcnIsSeq
<1>7. \A j \in 1 .. p - 1 : points[j].time < time
  <2> SUFFICES ASSUME NEW j \in 1 .. p - 1 PROVE points[j].time < time
    OBVIOUS
  <2>1. ~(time < points[j].time) /\ points[j].time # time /\ j \in 1 .. n
    BY PlaceExists, <1>1 DEF p
  <2> QED
    BY <2>1, <1>2, SearchAssumption
<1>8. \A j \in p .. n : time < points[j].time
  <2> SUFFICES ASSUME NEW j \in p .. n PROVE time < points[j].time
    OBVIOUS
  <2>1. p \in 1 .. n /\ j \in 1 .. n /\ time < points[p].time
    BY PlaceExists, <1>1 DEF p
  <2>2. CASE j = p
    BY <2>1, <2>2
  <2>3. CASE p < j
    <3>1. points[p].time < points[j].time
      BY <2>1, <2>3 DEF Ordered
    <3> QED
      BY <2>1, <3>1, <1>2, SearchAssumption
  <2> QED
    BY <2>2, <2>3, <1>1
<1>9. Ordered(new)
  <2> SUFFICES ASSUME NEW j \in 1 .. n + 1, NEW k \in 1 .. n + 1, j < k
               PROVE  new[j].time < new[k].time
    BY <1>6 DEF Ordered
  <2>1. NewPoint(time).time = time
    BY NewPointType
  <2>2. CASE k < p
    BY <2>2, <1>1, <1>3 DEF Ordered
  <2>3. CASE k = p
    BY <2>1, <2>3, <1>1, <1>3, <1>7
  <2>4. CASE k > p
    <3>1. k - 1 \in p .. n /\ k - 1 \in 1 .. n /\ new[k] = points[k - 1]
      BY <2>4, <1>1, <1>3
    <3>2. CASE j < p
      <4>1. j \in 1 .. n /\ j < k - 1 /\ new[j] = points[j]
        BY <2>4, <3>2, <1>1, <1>3
      <4> QED
        BY <3>1, <4>1 DEF Ordered
    <3>3. CASE j = p
      BY <2>1, <3>1, <3>3, <1>3, <1>8
    <3>4. CASE j > p
      <4>1. j - 1 \in 1 .. n /\ j - 1 < k - 1 /\ new[j] = points[j - 1]
        BY <3>4, <1>1, <1>3
      <4> QED
        BY <3>1, <4>1 DEF Ordered
    <3> QED
      BY <3>2, <3>3, <3>4, <1>1
  <2> QED
    BY <2>2, <2>3, <2>4, <1>1
<1> QED
  BY <1>6, <1>9 DEF new

(* A place in the array for the creation time of an item. *)
LEMMA WithPointSorted ==
  ASSUME NEW a \in [state : {"buffer", "allocated", "lost"},
                    points : Seq(PointType)],
         NEW time \in Times, Len(a.points) > 0, Ordered(a.points),
         a.state = "buffer" => Len(a.points) = 1,
         ~HasPoint(a, time)
  PROVE  LET b == WithPoint(a, time)
         IN  /\ b \in [state : {"buffer", "allocated", "lost"},
                       points : Seq(PointType)]
             /\ Len(b.points) > 0
             /\ b.state = "buffer" => Len(b.points) = 1
             /\ Ordered(b.points)
<1>1. a.points \in Seq(PointType) /\ Len(a.points) \in Nat
  BY LenProperties
<1>2. CASE ReusesBuffer(a)
  <2>1. Len(a.points) = 1
    BY <1>2 DEF ReusesBuffer
  <2>2. WithPoint(a, time) =
          [a EXCEPT !.points = [a.points EXCEPT ![1] = NewPoint(time)]]
    BY <1>2, <2>1 DEF WithPoint
  <2>3. LET q == [a.points EXCEPT ![1] = NewPoint(time)]
        IN  q \in Seq(PointType) /\ Len(q) = 1
    BY <1>1, <2>1, NewPointType, ExceptSeq
  <2> QED
    BY <2>2, <2>3 DEF Ordered
<1>3. CASE ~ReusesBuffer(a)
  <2>1. WithPoint(a, time) =
          [state |-> "allocated", points |-> Inserted(a.points, time)]
    BY <1>3 DEF WithPoint
  <2>2. \A k \in 1 .. Len(a.points) : a.points[k].time # time
    BY DEF HasPoint
  <2> QED
    BY <1>1, <2>1, <2>2, InsertedSorted
<1> QED
  BY <1>2, <1>3

(* Merging an item keeps the array typed and sorted. *)
LEMMA MergedSorted ==
  ASSUME NEW a \in [state : {"buffer", "allocated", "lost"},
                    points : Seq(PointType)],
         NEW it \in Items, Len(a.points) > 0, Ordered(a.points),
         a.state = "buffer" => Len(a.points) = 1
  PROVE  LET b == Merged(a, it)
         IN  /\ b \in [state : {"buffer", "allocated", "lost"},
                       points : Seq(PointType)]
             /\ Len(b.points) > 0
             /\ b.state = "buffer" => Len(b.points) = 1
             /\ Ordered(b.points)
<1> DEFINE b == IF HasPoint(a, it.time) THEN a ELSE WithPoint(a, it.time)
           f == [k \in DOMAIN b.points |->
                   IF b.points[k].time = it.time
                   THEN [b.points[k] EXCEPT
                           !.pebs[it.type] = Append(@, it),
                           !.found = @ \cup {"peb_map"}]
                   ELSE b.points[k]]
<1>1. it.time \in Times /\ it.type \in SegTypes
  BY DEF Items
<1>2. /\ b \in [state : {"buffer", "allocated", "lost"}, points : Seq(PointType)]
      /\ Len(b.points) > 0
      /\ b.state = "buffer" => Len(b.points) = 1
      /\ Ordered(b.points)
  BY <1>1, WithPointSorted
<1>3. Merged(a, it) = [b EXCEPT !.points = f]
  BY DEF Merged
<1> HIDE DEF b
<1>4. /\ b.points \in Seq(PointType)
      /\ Len(b.points) \in Nat
      /\ DOMAIN b.points = 1 .. Len(b.points)
  BY <1>2, LenProperties
<1>5. \A k \in 1 .. Len(b.points) :
        f[k] \in PointType /\ f[k].time = b.points[k].time
  <2> SUFFICES ASSUME NEW k \in 1 .. Len(b.points)
               PROVE  f[k] \in PointType /\ f[k].time = b.points[k].time
    OBVIOUS
  <2>1. b.points[k] \in PointType
    BY <1>4, ElementOfSeq
  <2>2. CASE b.points[k].time # it.time
    BY <1>4, <2>1, <2>2
  <2>3. CASE b.points[k].time = it.time
    <3> DEFINE q == b.points[k]
               r == [q EXCEPT !.pebs[it.type] = Append(@, it),
                              !.found = @ \cup {"peb_map"}]
    <3>1. f[k] = r
      BY <1>4, <2>3
    <3>2. q.pebs[it.type] \in Seq(Items) /\ q.found \subseteq Bits
      BY <1>1, <2>1 DEF PointType
    <3>3. Append(q.pebs[it.type], it) \in Seq(Items)
      BY <3>2, AppendProperties
    <3>4. q.found \cup {"peb_map"} \in SUBSET Bits
      BY <3>2 DEF Bits
    <3>5. r \in PointType /\ r.time = q.time
      BY <1>1, <2>1, <3>3, <3>4 DEF PointType
    <3> QED
      BY <3>1, <3>5
  <2> QED
    BY <2>2, <2>3
<1>6. f \in Seq(PointType) /\ Len(f) = Len(b.points)
  <2>1. f \in [1 .. Len(b.points) -> PointType]
    <3>1. DOMAIN f = 1 .. Len(b.points) /\ f = [k \in DOMAIN f |-> f[k]]
      BY <1>4
    <3> HIDE DEF f
    <3> QED
      BY <1>5, <3>1
  <2> HIDE DEF f
  <2> QED
    BY <1>4, <2>1, FcnIsSeq
<1>7. Ordered(f)
  BY <1>2, <1>5, <1>6 DEF Ordered
<1> QED
  BY <1>2, <1>3, <1>6, <1>7

(* Losing a map of a point does too, and touches neither time nor bits. *)
LEMMA WithoutMapSorted ==
  ASSUME NEW a \in [state : {"buffer", "allocated", "lost"},
                    points : Seq(PointType)],
         NEW it \in Items, Ordered(a.points)
  PROVE  LET b == WithoutMap(a, it)
         IN  /\ b \in [state : {"buffer", "allocated", "lost"},
                       points : Seq(PointType)]
             /\ Len(b.points) = Len(a.points)
             /\ b.state = a.state
             /\ Ordered(b.points)
             /\ DOMAIN b.points = DOMAIN a.points
             /\ \A k \in DOMAIN a.points : /\ b.points[k].time = a.points[k].time
                                          /\ b.points[k].found = a.points[k].found
<1> DEFINE f == [k \in DOMAIN a.points |->
                   IF a.points[k].time = it.time
                   THEN [a.points[k] EXCEPT !.pebs[it.type] = << >>]
                   ELSE a.points[k]]
<1>1. it.time \in Times /\ it.type \in SegTypes
  BY DEF Items
<1>2. WithoutMap(a, it) = [a EXCEPT !.points = f]
  BY DEF WithoutMap
<1>3. /\ a.points \in Seq(PointType)
      /\ Len(a.points) \in Nat
      /\ DOMAIN a.points = 1 .. Len(a.points)
  BY LenProperties
<1>4. \A k \in 1 .. Len(a.points) :
        f[k] \in PointType /\ f[k].time = a.points[k].time /\ f[k].found = a.points[k].found
  <2> SUFFICES ASSUME NEW k \in 1 .. Len(a.points)
               PROVE  /\ f[k] \in PointType /\ f[k].time = a.points[k].time
                      /\ f[k].found = a.points[k].found
    OBVIOUS
  <2>1. a.points[k] \in PointType
    BY <1>3, ElementOfSeq
  <2>2. CASE a.points[k].time # it.time
    BY <1>3, <2>1, <2>2
  <2>3. CASE a.points[k].time = it.time
    <3> DEFINE q == a.points[k]
               r == [q EXCEPT !.pebs[it.type] = << >>]
    <3>1. f[k] = r
      BY <1>3, <2>3
    <3>2. << >> \in Seq(Items)
      OBVIOUS
    <3>3. r \in PointType /\ r.time = q.time /\ r.found = q.found
      BY <1>1, <2>1, <3>2 DEF PointType
    <3> QED
      BY <3>1, <3>3
  <2> QED
    BY <2>2, <2>3
<1>5. f \in Seq(PointType) /\ Len(f) = Len(a.points) /\ DOMAIN f = DOMAIN a.points
  <2>1. f \in [1 .. Len(a.points) -> PointType]
    <3>1. DOMAIN f = 1 .. Len(a.points) /\ f = [k \in DOMAIN f |-> f[k]]
      BY <1>3
    <3> HIDE DEF f
    <3> QED
      BY <1>4, <3>1
  <2> HIDE DEF f
  <2> QED
    BY <1>3, <2>1, FcnIsSeq
<1>6. Ordered(f)
  BY <1>3, <1>4, <1>5 DEF Ordered
<1> HIDE DEF f
<1>7. WithoutMap(a, it).points = f /\ WithoutMap(a, it).state = a.state
      /\ WithoutMap(a, it) \in [state : {"buffer", "allocated", "lost"},
                                points : Seq(PointType)]
  BY <1>2, <1>5
<1> QED
  BY <1>3, <1>4, <1>5, <1>6, <1>7

MapType == [array : Seq(Items \cup {Garbage}), capacity : Nat, null : BOOLEAN]

(* A worker's map stays well formed, also after a failed realloc. *)
LEMMA WithItemType ==
  ASSUME NEW m \in MapType, NEW d \in Items
  PROVE  WithItem(m, d) \in MapType /\ AddFails(m) \in MapType
<1>1. Len(m.array) \in Nat /\ m.array \in Seq(Items \cup {Garbage})
  BY LenProperties DEF MapType
<1>2. [k \in 1 .. Len(m.array) |-> Garbage] \in Seq(Items \cup {Garbage})
  BY <1>1, FcnIsSeq
<1>3. Resized(m) \in MapType
  BY <1>1, <1>2, SearchAssumption DEF Resized, MapType
<1>4. \A r \in MapType : [r EXCEPT !.array = Append(@, d)] \in MapType
  BY AppendProperties DEF MapType
<1> QED
  BY <1>3, <1>4 DEF WithItem, AddFails, MapType

-----------------------------------------------------------------------------
(* The inductive invariant *)

LEMMA InitSearchInv == Init => SearchInv
<1> SUFFICES ASSUME Init PROVE SearchInv
  OBVIOUS
<1>1. Capacity \in Nat \ {0} /\ NoTime \in Nat
  BY SearchAssumption
<1>2. \A a \in InitArrays :
        /\ a \in [state : {"buffer", "allocated", "lost"}, points : Seq(PointType)]
        /\ a.state = "buffer"
        /\ Len(a.points) = 1
  <2> SUFFICES ASSUME NEW a \in InitArrays
               PROVE  /\ a.state = "buffer"
                      /\ a.points \in Seq(PointType)
                      /\ Len(a.points) = 1
                      /\ a = [state |-> a.state, points |-> a.points]
    OBVIOUS
  <2>1. PICK p \in {NewPoint(NoTime)} \cup
                { [NewPoint(t) EXCEPT !.found = b] : t \in Times, b \in Detected } :
          a = [state |-> "buffer", points |-> <<p>>]
    BY DEF InitArrays
  <2>2. << >> \in Seq(Items) /\ NoTime \in Times \cup {NoTime}
    BY EmptySeq
  <2>3. NewPoint(NoTime) \in PointType
    BY <2>2 DEF NewPoint, PointType
  <2>4. \A t \in Times : NewPoint(t) \in PointType
    BY NewPointType
  <2>5. Detected \subseteq SUBSET Bits
    BY DEF Bits, Detected
  <2>6. \A q \in PointType, b \in Detected : [q EXCEPT !.found = b] \in PointType
    BY <2>5 DEF PointType
  <2>7. p \in PointType
    BY <2>1, <2>3, <2>4, <2>6
  <2> QED
    BY <2>1, <2>7
<1>3. TypeOK
  <2>1. map \in [Workers -> [array : Seq(Items \cup {Garbage}), capacity : Nat,
                            null : BOOLEAN]]
    BY EmptySeq DEF Init
  <2>2. /\ thr \in [Workers -> {"none", "running", "spinning", "exited"}]
        /\ done \in [Workers -> Nat]
        /\ vol \in Volumes
    BY DEF Init
  <2>3. array \in [state : {"buffer", "allocated", "lost"}, points : Seq(PointType)]
    BY <1>2 DEF Init
  <2>4. i \in -1 .. Capacity /\ item \in Nat /\ requested \in 0 .. Capacity
    BY <1>1 DEF Init
  <2>5. oom \in BOOLEAN /\ res \in {"success", "failure"} /\ pc = "start"
    BY DEF Init
  <2> QED
    BY <2>1, <2>2, <2>3, <2>4, <2>5 DEF TypeOK
<1>4. SpawnInv /\ JoinInv
  BY <1>1 DEF Init, SpawnInv, JoinInv, JoinedBeforeFree, Workers
<1>5. ArrayInv
  <2>1. Len(array.points) = 1
    BY <1>2 DEF Init
  <2> QED
    BY <2>1 DEF ArrayInv, PointsSorted
<1> QED
  BY <1>3, <1>4, <1>5 DEF SearchInv

(* A worker's step changes only its own state, and it runs only while the  *)
(* main thread has not joined it.                                          *)
LEMMA WorkerStep ==
  ASSUME SearchInv, NEW t \in Workers, Worker(t)
  PROVE  SearchInv'
<1> USE DEF SearchInv
<1>1. Capacity \in Nat \ {0} /\ Workers \subseteq Int
  BY SearchAssumption DEF Workers
<1>2. map[t] \in MapType /\ done[t] \in Nat
  BY DEF TypeOK, MapType
<1>3. vol' = vol /\ mainVars' = mainVars
  BY DEF Worker, SkipPeb, AddPeb, AddPebFails, ReadBeyondEnd, ExitThread, mainVars
<1>4. /\ pc' = pc /\ i' = i /\ item' = item /\ requested' = requested
      /\ array' = array /\ res' = res
  BY <1>3 DEF mainVars
<1>5. /\ thr' \in [Workers -> {"none", "running", "spinning", "exited"}]
      /\ thr[t] = "running" \/ thr' = thr
      /\ \A u \in Workers : u # t => thr'[u] = thr[u]
  BY DEF Worker, SkipPeb, AddPeb, AddPebFails, ReadBeyondEnd, ExitThread, TypeOK,
         HasWork
<1>6. /\ done' \in [Workers -> Nat]
      /\ map' \in [Workers -> MapType]
      /\ oom' \in BOOLEAN
  <2>1. map \in [Workers -> MapType] /\ done \in [Workers -> Nat]
    BY DEF TypeOK, MapType
  <2>2. CASE SkipPeb(t)
    BY <1>2, <2>1, <2>2 DEF SkipPeb, TypeOK
  <2>3. ASSUME CurrentPeb(t) \in Pebs, vol[CurrentPeb(t)] \in Headers
        PROVE  Descriptor(CurrentPeb(t)) \in Items
    <3>1. /\ vol[CurrentPeb(t)].type \in SegTypes
          /\ vol[CurrentPeb(t)].time \in Times
      BY <2>3, SearchAssumption
    <3>2. CurrentPeb(t) \in PebIds
      BY <2>3 DEF TypeOK, Pebs, PebIds
    <3> QED
      BY <2>3, <3>1, <3>2 DEF Descriptor, Items
  <2>4. CASE AddPeb(t)
    <3>1. WithItem(map[t], Descriptor(CurrentPeb(t))) \in MapType
      BY <1>2, <2>3, <2>4, WithItemType DEF AddPeb
    <3> QED
      BY <1>2, <2>1, <2>4, <3>1 DEF AddPeb, TypeOK
  <2>5. CASE AddPebFails(t)
    BY <1>2, <2>1, <2>3, <2>5, WithItemType DEF AddPebFails, TypeOK
  <2>6. CASE ReadBeyondEnd(t) \/ ExitThread(t)
    BY <2>1, <2>6 DEF ReadBeyondEnd, ExitThread, TypeOK
  <2> QED
    BY <2>2, <2>4, <2>5, <2>6 DEF Worker
<1>7. TypeOK'
  BY <1>3, <1>4, <1>5, <1>6 DEF TypeOK, MapType
<1>8. ~(pc \in {"start", "merge", "done", "crashed"}) \/ thr' = thr
  BY <1>1, <1>5 DEF JoinInv, JoinedBeforeFree, SpawnInv, Workers
<1>9. SpawnInv'
  BY <1>1, <1>4, <1>5 DEF SpawnInv, TypeOK
<1>10. JoinInv'
  BY <1>1, <1>4, <1>5, <1>8 DEF JoinInv, JoinedBeforeFree, TypeOK
<1>11. ArrayInv'
  BY <1>4 DEF ArrayInv, PointsSorted
<1> QED
  BY <1>7, <1>9, <1>10, <1>11

ArrayType == [state : {"buffer", "allocated", "lost"}, points : Seq(PointType)]

(* The steps of the main thread that start and join the workers. *)
LEMMA SpawnStep ==
  ASSUME SearchInv,
         \/ AllocPool \/ AllocPoolFails \/ Spawn \/ SpawnFails
         \/ UnwindJoin \/ UnwindDone \/ AllSpawned \/ WaitJoin \/ AllJoined
  PROVE  SearchInv'
<1> USE DEF SearchInv
<1>1. Capacity \in Nat \ {0} /\ Workers = 0 .. Capacity - 1
  BY SearchAssumption DEF Workers
<1>2. vol' = vol /\ array' = array /\ done' = done /\ map' = map
  BY DEF AllocPool, AllocPoolFails, Spawn, SpawnFails, UnwindJoin, UnwindDone,
         AllSpawned, WaitJoin, AllJoined, workerVars
<1>3. ArrayInv'
  BY <1>2 DEF ArrayInv, PointsSorted
<1>4. CASE AllocPool
  <2>1. TypeOK'
    BY <1>2, <1>4 DEF AllocPool, TypeOK, workerVars
  <2>2. SpawnInv' /\ JoinInv'
    BY <1>1, <1>4 DEF AllocPool, SpawnInv, JoinInv, JoinedBeforeFree, workerVars
  <2> QED
    BY <1>3, <2>1, <2>2
<1>5. CASE AllocPoolFails
  <2>1. TypeOK'
    BY <1>2, <1>5 DEF AllocPoolFails, TypeOK, workerVars
  <2>2. SpawnInv' /\ JoinInv'
    BY <1>1, <1>5 DEF AllocPoolFails, SpawnInv, JoinInv, JoinedBeforeFree, workerVars
  <2> QED
    BY <1>3, <2>1, <2>2
<1>6. CASE Spawn
  <2>1. i \in Workers /\ i = requested
    BY <1>1, <1>6 DEF Spawn, SpawnInv, TypeOK
  <2>2. TypeOK'
    BY <1>1, <1>2, <1>6, <2>1 DEF Spawn, TypeOK
  <2>3. SpawnInv' /\ JoinInv'
    BY <1>1, <1>6, <2>1 DEF Spawn, SpawnInv, JoinInv, JoinedBeforeFree, TypeOK
  <2> QED
    BY <1>3, <2>2, <2>3
<1>7. CASE SpawnFails
  <2>1. i \in Workers /\ i = requested
    BY <1>1, <1>7 DEF SpawnFails, SpawnInv, TypeOK
  <2>2. TypeOK'
    BY <1>1, <1>2, <1>7, <2>1 DEF SpawnFails, TypeOK, workerVars
  <2>3. SpawnInv' /\ JoinInv'
    BY <1>1, <1>7, <2>1
    DEF SpawnFails, SpawnInv, JoinInv, JoinedBeforeFree, workerVars
  <2> QED
    BY <1>3, <2>2, <2>3
<1>8. CASE UnwindJoin
  <2>1. i \in Workers /\ requested = i + 1
    BY <1>1, <1>8 DEF UnwindJoin, SpawnInv, TypeOK
  <2>2. TypeOK'
    BY <1>1, <1>2, <1>8, <2>1 DEF UnwindJoin, TypeOK, workerVars
  <2>3. SpawnInv' /\ JoinInv'
    BY <1>1, <1>8, <2>1
    DEF UnwindJoin, SpawnInv, JoinInv, JoinedBeforeFree, workerVars
  <2> QED
    BY <1>3, <2>2, <2>3
<1>9. CASE UnwindDone
  <2>1. TypeOK'
    BY <1>1, <1>2, <1>9 DEF UnwindDone, TypeOK, workerVars
  <2>2. SpawnInv' /\ JoinInv'
    <3>1. i = -1
      BY <1>9 DEF UnwindDone, TypeOK
    <3>2. \A t \in Workers : thr[t] \in {"none", "exited"}
      BY <1>1, <1>9, <3>1 DEF UnwindDone, SpawnInv
    <3> QED
      BY <1>9, <3>2 DEF UnwindDone, SpawnInv, JoinInv, JoinedBeforeFree, workerVars
  <2> QED
    BY <1>3, <2>1, <2>2
<1>10. CASE AllSpawned
  <2>1. TypeOK'
    BY <1>1, <1>2, <1>10 DEF AllSpawned, TypeOK, workerVars
  <2>2. SpawnInv' /\ JoinInv'
    BY <1>1, <1>10 DEF AllSpawned, SpawnInv, JoinInv, JoinedBeforeFree, workerVars
  <2> QED
    BY <1>3, <2>1, <2>2
<1>11. CASE WaitJoin
  <2>1. i \in Workers /\ requested = Capacity
    BY <1>1, <1>11 DEF WaitJoin, JoinInv, TypeOK
  <2>2. TypeOK'
    BY <1>1, <1>2, <1>11, <2>1 DEF WaitJoin, TypeOK, workerVars
  <2>3. SpawnInv' /\ JoinInv'
    BY <1>1, <1>11, <2>1
    DEF WaitJoin, SpawnInv, JoinInv, JoinedBeforeFree, workerVars
  <2> QED
    BY <1>3, <2>2, <2>3
<1>12. CASE AllJoined
  <2>1. TypeOK'
    <3>1. /\ pc' = "merge" /\ i' = 0 /\ item' = 0
          /\ requested' = requested /\ res' = res /\ thr' = thr /\ oom' = oom
      BY <1>12 DEF AllJoined, workerVars
    <3>2. i' \in -1 .. Capacity
      BY <1>1, <3>1
    <3> QED
      BY <1>2, <3>1, <3>2 DEF TypeOK
  <2>2. SpawnInv' /\ JoinInv'
    <3>1. \A t \in Workers : thr[t] = "exited"
      BY <1>1, <1>12 DEF AllJoined, JoinInv
    <3> QED
      BY <1>1, <1>12, <3>1
      DEF AllJoined, SpawnInv, JoinInv, JoinedBeforeFree, workerVars
  <2> QED
    BY <1>3, <2>1, <2>2
<1> QED
  BY <1>4, <1>5, <1>6, <1>7, <1>8, <1>9, <1>10, <1>11, <1>12

(* The steps that merge the maps.  No worker is alive, and each of them    *)
(* leaves the array as it is, adds a point, or merges one item.            *)
LEMMA MergeStep ==
  ASSUME SearchInv,
         \/ MergeItem \/ MergeGarbage \/ MergeFails \/ MergeNullMap
         \/ MergeNextMap \/ MergeDone
  PROVE  SearchInv'
<1> USE DEF SearchInv
<1>1. Capacity \in Nat \ {0} /\ Workers = 0 .. Capacity - 1
  BY SearchAssumption DEF Workers
<1>2. /\ vol' = vol /\ requested' = requested /\ done' = done /\ map' = map
      /\ thr' = thr
      /\ pc = "merge"
      /\ pc' \in {"merge", "done", "crashed"}
      /\ res' \in {"success", "failure"}
      /\ i' \in {i, i + 1}
      /\ i' = i + 1 => i < Capacity
  BY DEF MergeItem, MergeGarbage, MergeFails, MergeNullMap, MergeNextMap,
         MergeDone, workerVars, TypeOK
<1>3. i \in 0 .. Capacity /\ item \in Nat
  BY <1>2 DEF JoinInv, TypeOK
<1>4. oom' \in BOOLEAN
  BY DEF MergeItem, MergeGarbage, MergeFails, MergeNullMap, MergeNextMap,
         MergeDone, TypeOK
<1>5. item' \in Nat
  BY <1>3 DEF MergeItem, MergeGarbage, MergeFails, MergeNullMap, MergeNextMap,
              MergeDone
<1>6. ASSUME i < Capacity, item < Len(CurrentMap.array),
             CurrentMap.array[item + 1] # Garbage
      PROVE  CurrentMap.array[item + 1] \in Items
  <2>1. CurrentMap \in MapType
    BY <1>1, <1>3, <1>6 DEF CurrentMap, TypeOK, MapType
  <2>2. CurrentMap.array \in Seq(Items \cup {Garbage})
    BY <2>1 DEF MapType
  <2>3. item + 1 \in 1 .. Len(CurrentMap.array)
    BY <1>3, <1>6, <2>2, LenProperties
  <2> QED
    BY <1>6, <2>2, <2>3, ElementOfSeq
<1>7. array \in ArrayType /\ Ordered(array.points)
  BY DEF TypeOK, ArrayType, ArrayInv, PointsSorted, Ordered
<1>8. /\ array' \in ArrayType
      /\ Len(array'.points) > 0
      /\ array'.state = "buffer" => Len(array'.points) = 1
      /\ Ordered(array'.points)
  <2>1. CASE array' = array
    BY <1>7, <2>1 DEF ArrayInv
  <2>2. CASE \E it \in Items : array' = Merged(array, it)
    BY <1>7, <2>2, MergedSorted DEF ArrayInv, ArrayType
  <2>3. CASE \E it \in Items : ~HasPoint(array, it.time)
                               /\ array' = WithPoint(array, it.time)
    <3>1. \A it \in Items : it.time \in Times
      BY DEF Items
    <3> QED
      BY <1>7, <2>3, <3>1, WithPointSorted DEF ArrayInv, ArrayType
  <2>4. CASE array' = LostPoints
    <3>1. NewPoint(NoTime) \in PointType
      BY DEF NewPoint, PointType
    <3> QED
      BY <2>4, <3>1 DEF LostPoints, ArrayType, Ordered
  <2>9. CASE \E it \in Items : array' = WithoutMap(array, it)
    BY <1>7, <2>9, WithoutMapSorted DEF ArrayInv, ArrayType
  <2>5. CASE MergeItem
    BY <1>6, <2>2, <2>5 DEF MergeItem
  <2>6. CASE MergeGarbage
    BY <1>7, <2>1, <2>2, <2>6, WithPointSorted DEF MergeGarbage, ArrayInv, ArrayType
  <2>7. CASE MergeFails
    <3>1. \A it \in IF CurrentMap.array[item + 1] = Garbage THEN Items
                    ELSE {CurrentMap.array[item + 1]} : it \in Items
      BY <1>6, <2>7 DEF MergeFails
    <3> QED
      BY <2>3, <2>4, <2>7, <2>9, <3>1 DEF MergeFails
  <2>8. CASE MergeNullMap \/ MergeNextMap \/ MergeDone
    BY <2>1, <2>8 DEF MergeNullMap, MergeNextMap, MergeDone
  <2> QED
    BY <2>5, <2>6, <2>7, <2>8
<1>9. TypeOK'
  <2>1. i' \in -1 .. Capacity
    BY <1>1, <1>2, <1>3
  <2> QED
    BY <1>2, <1>4, <1>5, <1>8, <2>1 DEF TypeOK, ArrayType
<1>10. SpawnInv' /\ JoinInv'
  <2>1. i' >= 0 /\ requested' = Capacity
    BY <1>2, <1>3 DEF JoinInv
  <2>2. \A t \in Workers : thr'[t] \notin {"running", "spinning"}
    BY <1>2 DEF JoinInv, JoinedBeforeFree
  <2>3. pc' \notin {"start", "spawn", "unwind", "wait"}
    BY <1>2
  <2> QED
    BY <2>1, <2>2, <2>3 DEF SpawnInv, JoinInv, JoinedBeforeFree
<1>11. ArrayInv'
  BY <1>8 DEF ArrayInv, PointsSorted, Ordered
<1> QED
  BY <1>9, <1>10, <1>11

LEMMA NextSearchInv == SearchInv /\ [Next]_vars => SearchInv'
<1> SUFFICES ASSUME SearchInv, [Next]_vars PROVE SearchInv'
  OBVIOUS
<1>1. CASE Main
  <2>1. CASE \/ AllocPool \/ AllocPoolFails \/ Spawn \/ SpawnFails
             \/ UnwindJoin \/ UnwindDone \/ AllSpawned \/ WaitJoin \/ AllJoined
    BY <2>1, SpawnStep
  <2>2. CASE \/ MergeItem \/ MergeGarbage \/ MergeFails \/ MergeNullMap
             \/ MergeNextMap \/ MergeDone
    BY <2>2, MergeStep
  <2> QED
    BY <1>1, <2>1, <2>2 DEF Main
<1>2. CASE \E t \in Workers : Worker(t)
  BY <1>2, WorkerStep
<1>3. CASE Idle \/ UNCHANGED vars
  <2>1. UNCHANGED vars
    BY <1>3 DEF Idle
  <2> QED
    BY <2>1 DEF vars, SearchInv, TypeOK, SpawnInv, JoinInv, JoinedBeforeFree,
                ArrayInv, PointsSorted
<1> QED
  BY <1>1, <1>2, <1>3 DEF Next

(* The invariant holds in every state of every search. *)
THEOREM SearchInvariant == Spec => []SearchInv
BY InitSearchInv, NextSearchInv, PTL DEF Spec

(* Every variable of the search keeps its type: also the map whose realloc *)
(* failed, and the loop variable that runs below zero when the pool is     *)
(* unwound (execute_whole_volume_search).                                  *)
THEOREM SearchTypeOK == Spec => []TypeOK
<1>1. SearchInv => TypeOK
  BY DEF SearchInv
<1> QED
  BY <1>1, SearchInvariant, PTL

(* For every thread number, when env->threads.jobs is freed or the maps of *)
(* the workers are read, every worker that was started has been joined.    *)
THEOREM SearchJoinedBeforeFree == Spec => []JoinedBeforeFree
<1>1. SearchInv => JoinedBeforeFree
  BY DEF SearchInv, JoinInv
<1> QED
  BY <1>1, SearchInvariant, PTL

(* For every volume and every interleaving ssdfs_fsck_add_creation_point   *)
(* keeps the creation points strictly ordered by creation time.            *)
THEOREM SearchPointsSorted == Spec => []PointsSorted
<1>1. SearchInv => PointsSorted
  BY DEF SearchInv, ArrayInv
<1> QED
  BY <1>1, SearchInvariant, PTL

-----------------------------------------------------------------------------
(* The creation points as a set: their order is the business of PointsSorted. *)
PointsOf(a) == { a.points[k] : k \in 1 .. Len(a.points) }

-----------------------------------------------------------------------------
(* What the workers know *)

MyShare(t) == Share(t, PebsCount, PerThread)
Start(t) == FirstPeb(t, PerThread)

(* A worker is never ahead of its share, and has processed all of it when  *)
(* it exits.                                                               *)
DoneInv ==
  \A t \in Workers :
    /\ done[t] <= MyShare(t)
    /\ thr[t] = "exited" => done[t] = MyShare(t)

(* The map of a worker lists the metadata PEBs among the d PEBs it has     *)
(* processed from PEB first on, in their order.                            *)
Lists(m, first, d) ==
  /\ m.null => m.array = << >> /\ m.capacity = 0
  /\ \A n \in 1 .. Len(m.array) :
       /\ m.array[n].peb \in Pebs
       /\ first <= m.array[n].peb
       /\ m.array[n].peb < first + d
       /\ vol[m.array[n].peb] \in Headers
       /\ m.array[n] = Descriptor(m.array[n].peb)
  /\ \A n, k \in 1 .. Len(m.array) : n < k => m.array[n].peb < m.array[k].peb
  /\ \A p \in Pebs :
       vol[p] \in Headers /\ first <= p /\ p < first + d =>
         \E n \in 1 .. Len(m.array) : m.array[n].peb = p

MapInv == ~oom => \A t \in Workers : Lists(map[t], Start(t), done[t])

WorkerInv == DoneInv /\ MapInv

-----------------------------------------------------------------------------
(* What the merge has done *)

(* The PEBs whose items were merged. *)
Seen ==
  { p \in Pebs :
      \E t \in Workers : \E n \in 1 .. Len(map[t].array) :
        (t < i \/ (t = i /\ n <= item)) /\ map[t].array[n].peb = p }

(* The creation points record the PEBs of S, once each, under their volume *)
(* and type, and nothing else.                                             *)
Records(points, S) ==
  /\ \A q \in points, s \in SegTypes :
       /\ \A n \in 1 .. Len(q.pebs[s]) :
            /\ q.pebs[s][n].peb \in S
            /\ vol[q.pebs[s][n].peb].type = s
            /\ vol[q.pebs[s][n].peb].time = q.time
       /\ \A n, k \in 1 .. Len(q.pebs[s]) :
            q.pebs[s][n].peb = q.pebs[s][k].peb => n = k
  /\ \A p \in S : \E q \in points :
       /\ q.time = vol[p].time
       /\ \E n \in 1 .. Len(q.pebs[vol[p].type]) : q.pebs[vol[p].type][n].peb = p

Merging == pc = "merge" \/ (pc = "done" /\ res = "success")

RecordInv ==
  /\ pc \in {"start", "spawn", "unwind", "wait"} =>
       \A q \in PointsOf(array), s \in SegTypes : q.pebs[s] = << >>
  /\ Merging /\ ~oom => Records(PointsOf(array), Seen)

(* Failures have a cause, and a search that succeeds has merged all maps. *)
EndInv ==
  /\ oom => MayFailAlloc
  /\ res = "failure" => MayFailAlloc /\ pc \in {"unwind", "done"}
  /\ pc = "crashed" => MayFailAlloc
  /\ pc = "unwind" => res = "failure"
  /\ pc = "done" /\ res = "success" => i = Capacity
  /\ Merging => \A t \in Workers : thr[t] = "exited"

-----------------------------------------------------------------------------
(* What the creation points tell *)

PointOK(q) ==
  /\ q.time = NoTime => q.found = {}
  /\ q.found \subseteq {"peb_map"} \/ "base_snapshot" \in q.found
  /\ "peb_map" \in q.found <=> \E s \in SegTypes : q.pebs[s] # << >>

BasesOf(points) ==
  { [time |-> q.time, found |-> q.found \ {"peb_map"}] :
      q \in { r \in points : "base_snapshot" \in r.found } }

Bases(a) == BasesOf(PointsOf(a))

OneBase(points) ==
  \A q, r \in points : "base_snapshot" \in q.found \cap r.found => q = r

FoundOK(a) ==
  /\ \A q \in PointsOf(a) : PointOK(q) /\ (q.time = NoTime => a.state = "buffer")
  /\ OneBase(PointsOf(a))

(* Until the search fails, a point in use has found something. *)
UsedOK(a) == \A q \in PointsOf(a) : q.time = NoTime \/ q.found # {}

FoundInv == res = "success" => FoundOK(array) /\ UsedOK(array)

-----------------------------------------------------------------------------
(* Lemmas about the operators of the merge *)

(* A new point takes the place of the unused one, or joins the others. *)
LEMMA WithPointPoints ==
  ASSUME NEW a \in ArrayType, NEW time \in Times, Len(a.points) > 0,
         Ordered(a.points), a.state = "buffer" => Len(a.points) = 1,
         ~HasPoint(a, time)
  PROVE  PointsOf(WithPoint(a, time)) =
           (IF ReusesBuffer(a) THEN {} ELSE PointsOf(a)) \cup {NewPoint(time)}
<1>1. a.points \in Seq(PointType) /\ Len(a.points) \in Nat
  BY LenProperties DEF ArrayType
<1>2. CASE ReusesBuffer(a)
  <2>1. Len(a.points) = 1
    BY <1>2 DEF ReusesBuffer
  <2>2. WithPoint(a, time).points = [a.points EXCEPT ![1] = NewPoint(time)]
    BY <1>2, <2>1 DEF WithPoint, ArrayType
  <2>3. LET q == [a.points EXCEPT ![1] = NewPoint(time)]
        IN  Len(q) = 1 /\ q[1] = NewPoint(time)
    BY <1>1, <2>1, NewPointType, ExceptSeq
  <2> QED
    BY <1>2, <2>2, <2>3 DEF PointsOf
<1>3. CASE ~ReusesBuffer(a)
  <2> DEFINE p == Place(a.points, time)
             n == Len(a.points)
             new == Inserted(a.points, time)
  <2>1. WithPoint(a, time).points = new
    BY <1>3 DEF WithPoint
  <2>2. \A k \in 1 .. n : a.points[k].time # time
    BY DEF HasPoint
  <2>3. Len(new) = n + 1 /\ p \in 1 .. n + 1
    BY <1>1, <2>2, InsertedSorted, PlaceExists
  <2>4. new = [k \in 1 .. n + 1 |->
                IF k < p THEN a.points[k]
                ELSE IF k = p THEN NewPoint(time) ELSE a.points[k - 1]]
    BY DEF Inserted
  <2> HIDE DEF p, new
  <2>5. PointsOf(WithPoint(a, time)) = { new[k] : k \in 1 .. n + 1 }
    BY <2>1, <2>3 DEF PointsOf
  <2>6. \A k \in 1 .. n + 1 : new[k] \in PointsOf(a) \cup {NewPoint(time)}
    <3> SUFFICES ASSUME NEW k \in 1 .. n + 1
                 PROVE  new[k] \in PointsOf(a) \cup {NewPoint(time)}
      OBVIOUS
    <3>1. CASE k < p
      <4>1. k \in 1 .. n /\ new[k] = a.points[k]
        BY <3>1, <1>1, <2>3, <2>4
      <4> QED
        BY <4>1 DEF PointsOf
    <3>2. CASE k > p
      <4>1. k - 1 \in 1 .. n /\ new[k] = a.points[k - 1]
        BY <3>2, <1>1, <2>3, <2>4
      <4> QED
        BY <4>1 DEF PointsOf
    <3>3. CASE k = p
      BY <3>3, <2>4
    <3> QED
      BY <3>1, <3>2, <3>3, <1>1, <2>3
  <2>7. NewPoint(time) = new[p]
    BY <1>1, <2>3, <2>4
  <2>8. \A k \in 1 .. n : \E j \in 1 .. n + 1 : a.points[k] = new[j]
    <3> SUFFICES ASSUME NEW k \in 1 .. n
                 PROVE  \E j \in 1 .. n + 1 : a.points[k] = new[j]
      OBVIOUS
    <3>1. CASE k < p
      <4>1. k \in 1 .. n + 1
        BY <1>1
      <4>2. new[k] = a.points[k]
        BY <2>4, <3>1, <4>1
      <4> QED
        BY <4>1, <4>2
    <3>2. CASE ~(k < p)
      <4>1. k + 1 \in 1 .. n + 1 /\ new[k + 1] = a.points[k]
        BY <3>2, <1>1, <2>3, <2>4
      <4> QED
        BY <4>1
    <3> QED
      BY <3>1, <3>2
  <2> QED
    BY <1>3, <2>3, <2>5, <2>6, <2>7, <2>8 DEF PointsOf
<1> QED
  BY <1>2, <1>3

(* The point q after item it was merged. *)
WithPeb(q, it) ==
  IF q.time = it.time
  THEN [q EXCEPT !.pebs[it.type] = Append(@, it), !.found = @ \cup {"peb_map"}]
  ELSE q

LEMMA WithPebFields ==
  ASSUME NEW q \in PointType, NEW it \in Items
  PROVE  /\ WithPeb(q, it) \in PointType
         /\ WithPeb(q, it).time = q.time
         /\ q.time # it.time => WithPeb(q, it) = q
         /\ q.time = it.time =>
              /\ WithPeb(q, it).found = q.found \cup {"peb_map"}
              /\ WithPeb(q, it).pebs[it.type] = Append(q.pebs[it.type], it)
         /\ \A s \in SegTypes : s # it.type => WithPeb(q, it).pebs[s] = q.pebs[s]
<1>1. it.type \in SegTypes
  BY DEF Items
<1>2. q.pebs \in [SegTypes -> Seq(Items)] /\ q.found \subseteq Bits
  BY DEF PointType
<1>3. CASE q.time = it.time
  <2>1. WithPeb(q, it) =
          [q EXCEPT !.pebs[it.type] = Append(@, it), !.found = @ \cup {"peb_map"}]
    BY <1>3 DEF WithPeb
  <2>2. Append(q.pebs[it.type], it) \in Seq(Items)
    BY <1>1, <1>2, AppendProperties
  <2>3. q.found \cup {"peb_map"} \in SUBSET Bits
    BY <1>2 DEF Bits
  <2> QED
    BY <1>1, <1>2, <1>3, <2>1, <2>2, <2>3 DEF PointType
<1>4. CASE q.time # it.time
  BY <1>4 DEF WithPeb
<1> QED
  BY <1>3, <1>4

(* Merging adds the item to the point of its time, made new if need be. *)
LEMMA MergedPoints ==
  ASSUME NEW a \in ArrayType, NEW it \in Items, Len(a.points) > 0,
         Ordered(a.points), a.state = "buffer" => Len(a.points) = 1
  PROVE  LET b == IF HasPoint(a, it.time) THEN a ELSE WithPoint(a, it.time)
         IN  /\ b \in ArrayType
             /\ Merged(a, it).state = b.state
             /\ PointsOf(Merged(a, it)) = { WithPeb(q, it) : q \in PointsOf(b) }
<1> DEFINE b == IF HasPoint(a, it.time) THEN a ELSE WithPoint(a, it.time)
           f == [k \in DOMAIN b.points |-> WithPeb(b.points[k], it)]
<1>1. it.time \in Times
  BY DEF Items
<1>2. b \in ArrayType
  BY <1>1, WithPointSorted DEF ArrayType
<1>3. Merged(a, it) = [b EXCEPT !.points = f]
  BY DEF Merged, WithPeb
<1> HIDE DEF b
<1>4. /\ b.points \in Seq(PointType)
      /\ Len(b.points) \in Nat
      /\ DOMAIN b.points = 1 .. Len(b.points)
  BY <1>2, LenProperties DEF ArrayType
<1>5. Merged(a, it).state = b.state /\ Merged(a, it).points = f
  BY <1>2, <1>3 DEF ArrayType
<1>6. f \in [1 .. Len(b.points) -> PointType]
  <2>1. \A k \in 1 .. Len(b.points) : b.points[k] \in PointType
    BY <1>4, ElementOfSeq
  <2> QED
    BY <1>4, <2>1, WithPebFields
<1>7. Len(f) = Len(b.points)
  BY <1>4, <1>6, FcnIsSeq
<1>8. PointsOf(Merged(a, it)) = { f[k] : k \in 1 .. Len(b.points) }
  BY <1>5, <1>7 DEF PointsOf
<1>9. PointsOf(Merged(a, it)) = { WithPeb(q, it) : q \in PointsOf(b) }
  BY <1>4, <1>8 DEF PointsOf
<1> QED
  BY <1>2, <1>5, <1>9 DEF b
-----------------------------------------------------------------------------
(* How a step may change the array of creation points *)

ArrayOK(a) ==
  /\ a \in ArrayType
  /\ Len(a.points) > 0
  /\ Ordered(a.points)
  /\ a.state = "buffer" => Len(a.points) = 1

ArrayStep(a, b) ==
  \/ b = a
  \/ \E it \in Items : b = Merged(a, it)
  \/ \E time \in Times : ~HasPoint(a, time) /\ b = WithPoint(a, time)

(* A failed allocation takes the array, or a map of a point, with it. *)
LosingStep ==
  /\ pc = "merge" /\ pc' = "done" /\ res' = "failure"
  /\ array' = LostPoints \/ \E it \in Items : array' = WithoutMap(array, it)

LEMMA SearchArrayOK == SearchInv => ArrayOK(array)
BY DEF SearchInv, TypeOK, ArrayInv, PointsSorted, ArrayOK, ArrayType, Ordered

(* The item that is merged next. *)
NextItem == CurrentMap.array[item + 1]

LEMMA NextItemType ==
  ASSUME SearchInv, pc = "merge", i < Capacity, item < Len(CurrentMap.array),
         NextItem # Garbage
  PROVE  NextItem \in Items
<1>1. i \in Workers /\ item \in Nat
  BY SearchAssumption DEF SearchInv, JoinInv, TypeOK, Workers
<1>2. CurrentMap.array \in Seq(Items \cup {Garbage})
  BY <1>1 DEF CurrentMap, SearchInv, TypeOK
<1>3. item + 1 \in 1 .. Len(CurrentMap.array)
  BY <1>1, <1>2, LenProperties
<1> QED
  BY <1>2, <1>3, ElementOfSeq DEF NextItem

LEMMA ArrayChanges ==
  ASSUME SearchInv, [Next]_vars
  PROVE  ArrayStep(array, array') \/ LosingStep
<1>1. CASE array' = array
  BY <1>1 DEF ArrayStep
<1>2. CASE MergeItem
  BY <1>2, NextItemType DEF MergeItem, ArrayStep, NextItem
<1>3. CASE MergeGarbage
  BY <1>1, <1>3 DEF MergeGarbage, ArrayStep
<1>4. CASE MergeFails
  <2>1. \A it \in IF NextItem = Garbage THEN Items ELSE {NextItem} :
          it \in Items /\ it.time \in Times
    BY <1>4, NextItemType DEF MergeFails, NextItem, Items
  <2> QED
    BY <1>4, <2>1 DEF MergeFails, ArrayStep, LosingStep, NextItem
<1>5. CASE \E t \in Workers : Worker(t)
  BY <1>1, <1>5 DEF Worker, SkipPeb, AddPeb, AddPebFails, ReadBeyondEnd, ExitThread,
                    mainVars
<1>6. CASE \/ AllocPool \/ AllocPoolFails \/ Spawn \/ SpawnFails
           \/ UnwindJoin \/ UnwindDone \/ AllSpawned \/ WaitJoin \/ AllJoined
  BY <1>1, <1>6 DEF AllocPool, AllocPoolFails, Spawn, SpawnFails, UnwindJoin,
                    UnwindDone, AllSpawned, WaitJoin, AllJoined
<1>7. CASE MergeNullMap \/ MergeNextMap \/ MergeDone
  BY <1>1, <1>7 DEF MergeNullMap, MergeNextMap, MergeDone
<1>8. CASE Idle \/ UNCHANGED vars
  BY <1>1, <1>8 DEF Idle, vars
<1> QED
  BY <1>2, <1>3, <1>4, <1>5, <1>6, <1>7, <1>8 DEF Next, Main

(* Points are points, and a time belongs to one of them. *)
LEMMA PointsTyped ==
  ASSUME NEW a, ArrayOK(a)
  PROVE  /\ PointsOf(a) \subseteq PointType
         /\ \A q, r \in PointsOf(a) : q.time = r.time => q = r
         /\ ReusesBuffer(a) => \A q \in PointsOf(a) : q.time = NoTime
<1>1. /\ a.points \in Seq(PointType)
      /\ Len(a.points) \in Nat
      /\ \A k \in 1 .. Len(a.points) : a.points[k] \in PointType
  BY LenProperties, ElementOfSeq DEF ArrayOK, ArrayType
<1>2. \A q \in PointType : q.time \in Int
  BY PointTime
<1>3. ASSUME NEW j \in 1 .. Len(a.points), NEW k \in 1 .. Len(a.points),
             a.points[j].time = a.points[k].time
      PROVE  j = k
  <2>1. ~(j < k) /\ ~(k < j)
    BY <1>1, <1>2, <1>3 DEF ArrayOK, Ordered
  <2> QED
    BY <1>1, <2>1
<1>4. \A q, r \in PointsOf(a) : q.time = r.time => q = r
  BY <1>3 DEF PointsOf
<1>5. ASSUME ReusesBuffer(a), NEW q \in PointsOf(a) PROVE q.time = NoTime
  <2>1. Len(a.points) = 1 /\ q = a.points[1]
    BY <1>1, <1>5 DEF ReusesBuffer, ArrayOK, PointsOf
  <2>2. q.time >= NoTime /\ q.time \in Times \cup {NoTime}
    BY <1>1, <1>5, <2>1 DEF ReusesBuffer, PointType
  <2> QED
    BY <2>2, SearchAssumption
<1> QED
  BY <1>1, <1>4, <1>5 DEF PointsOf

KeptIn(q, r) ==
  /\ r.time = q.time
  /\ q.found \subseteq r.found
  /\ \A s \in SegTypes :
       /\ Len(q.pebs[s]) <= Len(r.pebs[s])
       /\ \A n \in 1 .. Len(q.pebs[s]) : r.pebs[s][n] = q.pebs[s][n]

LEMMA KeptInSelf ==
  ASSUME NEW q \in PointType
  PROVE  KeptIn(q, q)
<1>1. \A s \in SegTypes : Len(q.pebs[s]) \in Nat
  BY LenProperties DEF PointType
<1> QED
  BY <1>1 DEF KeptIn

LEMMA KeptInWithPeb ==
  ASSUME NEW q \in PointType, NEW it \in Items
  PROVE  KeptIn(q, WithPeb(q, it))
<1>1. /\ WithPeb(q, it).time = q.time
      /\ q.found \subseteq WithPeb(q, it).found
  <2>1. \/ WithPeb(q, it).found = q.found
        \/ WithPeb(q, it).found = q.found \cup {"peb_map"}
    BY WithPebFields
  <2> QED
    BY <2>1, WithPebFields
<1>2. ASSUME NEW s \in SegTypes
      PROVE  /\ Len(q.pebs[s]) <= Len(WithPeb(q, it).pebs[s])
             /\ \A n \in 1 .. Len(q.pebs[s]) :
                  WithPeb(q, it).pebs[s][n] = q.pebs[s][n]
  <2>1. q.pebs[s] \in Seq(Items) /\ Len(q.pebs[s]) \in Nat
    BY <1>2, LenProperties DEF PointType
  <2>2. CASE WithPeb(q, it).pebs[s] = q.pebs[s]
    BY <2>1, <2>2
  <2>3. CASE WithPeb(q, it).pebs[s] = Append(q.pebs[s], it)
    BY <2>1, <2>3, AppendProperties
  <2>4. \/ WithPeb(q, it).pebs[s] = q.pebs[s]
        \/ WithPeb(q, it).pebs[s] = Append(q.pebs[s], it)
    BY WithPebFields
  <2> QED
    BY <2>2, <2>3, <2>4
<1> QED
  BY <1>1, <1>2 DEF KeptIn

(* No change of the array loses a point in use or anything it holds. *)
LEMMA PointsKept ==
  ASSUME NEW a, NEW b, ArrayOK(a), ArrayStep(a, b)
  PROVE  \A q \in PointsOf(a) :
           q.time # NoTime => \E r \in PointsOf(b) : KeptIn(q, r)
<1>1. PointsOf(a) \subseteq PointType
  BY PointsTyped
<1>2. ASSUME NEW time \in Times, ~HasPoint(a, time),
             NEW q \in PointsOf(a), q.time # NoTime
      PROVE  q \in PointsOf(WithPoint(a, time))
  BY <1>2, WithPointPoints, PointsTyped DEF ArrayOK
<1>3. CASE b = a
  BY <1>1, <1>3, KeptInSelf
<1>4. CASE \E time \in Times : ~HasPoint(a, time) /\ b = WithPoint(a, time)
  BY <1>1, <1>2, <1>4, KeptInSelf
<1>5. ASSUME NEW it \in Items, b = Merged(a, it),
             NEW q \in PointsOf(a), q.time # NoTime
      PROVE  \E r \in PointsOf(b) : KeptIn(q, r)
  <2> DEFINE c == IF HasPoint(a, it.time) THEN a ELSE WithPoint(a, it.time)
  <2>1. it.time \in Times
    BY <1>5 DEF Items
  <2>2. q \in PointsOf(c)
    BY <1>2, <1>5, <2>1
  <2>3. PointsOf(b) = { WithPeb(p, it) : p \in PointsOf(c) }
    BY <1>5, MergedPoints DEF ArrayOK
  <2> HIDE DEF c
  <2>4. WithPeb(q, it) \in PointsOf(b) /\ KeptIn(q, WithPeb(q, it))
    BY <1>1, <1>5, <2>2, <2>3, KeptInWithPeb
  <2> QED
    BY <2>4
<1> QED
  BY <1>3, <1>4, <1>5 DEF ArrayStep

(* Merging never forgets unnoticed (KeepsFound): for every volume and      *)
(* every order of the items, a creation point in use keeps its time, its   *)
(* found bits and its PEBs while ssdfs_fsck_add_creation_point and         *)
(* ssdfs_fsck_process_metadata_map_item work on the array, or the search   *)
(* fails.                                                                  *)
THEOREM SearchKeepsFound == Spec => KeepsFound
<1> DEFINE Kept == \A k \in 1 .. Len(array.points) :
       array.points[k].time # NoTime =>
         \E j \in 1 .. Len(array'.points) :
           /\ array'.points[j].time = array.points[k].time
           /\ array.points[k].found \subseteq array'.points[j].found
           /\ \A s \in SegTypes :
                /\ Len(array.points[k].pebs[s]) <= Len(array'.points[j].pebs[s])
                /\ \A n \in DOMAIN array.points[k].pebs[s] :
                     array'.points[j].pebs[s][n] = array.points[k].pebs[s][n]
<1>1. ASSUME SearchInv, [Next]_vars, res' # "failure" PROVE Kept
  <2> SUFFICES ASSUME NEW k \in 1 .. Len(array.points),
                      array.points[k].time # NoTime
               PROVE  \E j \in 1 .. Len(array'.points) :
                        /\ array'.points[j].time = array.points[k].time
                        /\ array.points[k].found \subseteq array'.points[j].found
                        /\ \A s \in SegTypes :
                             /\ Len(array.points[k].pebs[s]) <=
                                  Len(array'.points[j].pebs[s])
                             /\ \A n \in DOMAIN array.points[k].pebs[s] :
                                  array'.points[j].pebs[s][n] =
                                    array.points[k].pebs[s][n]
    OBVIOUS
  <2>1. array.points[k] \in PointsOf(array) /\ ArrayOK(array)
    BY <1>1, SearchArrayOK DEF PointsOf
  <2>2. PICK r \in PointsOf(array') : KeptIn(array.points[k], r)
    BY <1>1, <2>1, PointsKept, ArrayChanges DEF LosingStep
  <2>3. PICK j \in 1 .. Len(array'.points) : r = array'.points[j]
    BY DEF PointsOf
  <2>4. array.points[k] \in PointType
    BY <2>1, PointsTyped
  <2>5. \A s \in SegTypes :
          DOMAIN array.points[k].pebs[s] = 1 .. Len(array.points[k].pebs[s])
    BY <2>4, LenProperties DEF PointType
  <2> DEFINE q == array.points[k]
  <2>6. /\ r.time = q.time
        /\ q.found \subseteq r.found
        /\ \A s \in SegTypes :
             /\ Len(q.pebs[s]) <= Len(r.pebs[s])
             /\ \A n \in DOMAIN q.pebs[s] : r.pebs[s][n] = q.pebs[s][n]
    BY <2>2, <2>5 DEF KeptIn
  <2> QED
    BY <2>3, <2>6
<1>2. SearchInv /\ [Next]_vars => [res' = "failure" \/ Kept]_vars
  BY <1>1
<1> QED
  BY <1>2, SearchInvariant, PTL DEF Spec, KeepsFound
-----------------------------------------------------------------------------
(* The workers *)

(* The geometry: PEBs are numbered from 0, and all u64 results are numbers. *)
LEMMA Geometry ==
  ASSUME TypeOK
  PROVE  /\ PebsCount \in Nat
         /\ Pebs = 0 .. PebsCount - 1
         /\ PerThread \in Nat
         /\ PebsCount <= Capacity * PerThread
         /\ \A t \in Workers : Start(t) \in Nat /\ MyShare(t) \in Nat
<1>1. PebsCount \in Nat /\ Pebs = 0 .. PebsCount - 1
  BY SearchAssumption, FS_CardinalityType DEF TypeOK, Pebs, PebsCount
<1>2. PerThread \in Nat /\ PebsCount <= Capacity * PerThread
  BY <1>1, RoundedUp, SearchAssumption DEF PerThread
<1>3. ASSUME NEW t \in Workers PROVE Start(t) \in Nat /\ MyShare(t) \in Nat
  <2>1. t \in Nat /\ U64 \in Nat \ {0}
    BY SearchAssumption, U64Assumption DEF Workers
  <2>2. t * PerThread \in Nat
    BY <1>2, <2>1, Monotone
  <2>3. Start(t) \in Nat
    BY <2>1, <2>2, DivMod DEF Start, FirstPeb
  <2>4. PebsCount - Start(t) \in Int
    BY <1>1, <2>3
  <2>5. (PebsCount - Start(t)) % U64 \in 0 .. U64 - 1
    BY <2>1, <2>4
  <2> QED
    BY <1>2, <2>1, <2>3, <2>5 DEF MyShare, Share, Start
<1> QED
  BY <1>1, <1>2, <1>3

(* A PEB without a metadata header changes nothing for the map. *)
LEMMA ListsSkip ==
  ASSUME TypeOK, NEW m \in MapType, NEW first \in Nat, NEW d \in Nat,
         Lists(m, first, d), vol[first + d] \notin Headers
  PROVE  Lists(m, first, d + 1)
<1>1. Pebs \subseteq Int
  BY Geometry
<1>2. \A n \in 1 .. Len(m.array) :
        m.array[n].peb \in Int /\ m.array[n].peb < first + (d + 1)
  <2>1. \A n \in 1 .. Len(m.array) :
          m.array[n].peb \in Pebs /\ m.array[n].peb < first + d
    BY DEF Lists
  <2>2. \A p \in Int : p < first + d => p < first + (d + 1)
    OBVIOUS
  <2> QED
    BY <1>1, <2>1, <2>2
<1>3. ASSUME NEW p \in Pebs, vol[p] \in Headers, p < first + (d + 1)
      PROVE  p < first + d
  <2>1. p # first + d /\ p \in Int
    BY <1>1, <1>3
  <2> QED
    BY <1>3, <2>1
<1> QED
  BY <1>2, <1>3 DEF Lists

(* The descriptor of a metadata PEB goes to the end of the map. *)
LEMMA ListsAdd ==
  ASSUME TypeOK, NEW m \in MapType, NEW first \in Nat, NEW d \in Nat,
         Lists(m, first, d), first + d \in Pebs, vol[first + d] \in Headers
  PROVE  Lists(WithItem(m, Descriptor(first + d)), first, d + 1)
<1> DEFINE x == Descriptor(first + d)
           w == WithItem(m, x)
           N == Len(m.array)
<1>1. Pebs \subseteq Int /\ N \in Nat /\ m.array \in Seq(Items \cup {Garbage})
  BY Geometry, LenProperties DEF MapType
<1>2. x \in Items /\ x.peb = first + d
  <2>1. vol[first + d].type \in SegTypes /\ vol[first + d].time \in Times
    BY SearchAssumption
  <2>2. first + d \in PebIds
    BY DEF TypeOK, Pebs, PebIds
  <2> QED
    BY <2>1, <2>2 DEF Descriptor, Items
<1>3. w.array = Append(m.array, x) /\ ~w.null
  <2>1. CASE m.null
    <3>1. m.array = << >> /\ Len(m.array) = 0 /\ IsExhausted(m)
      BY <2>1, EmptySeq DEF Lists, IsExhausted
    <3>2. [k \in 1 .. Len(m.array) |-> Garbage] = << >>
      BY <3>1
    <3> QED
      BY <2>1, <3>1, <3>2 DEF WithItem, Resized
  <2>2. CASE ~m.null /\ IsExhausted(m)
    BY <2>2 DEF WithItem, Resized
  <2>3. CASE ~m.null /\ ~IsExhausted(m)
    BY <2>3 DEF WithItem, MapType
  <2> QED
    BY <2>1, <2>2, <2>3
<1>4. /\ Len(w.array) = N + 1
      /\ w.array[N + 1] = x
      /\ \A n \in 1 .. N : w.array[n] = m.array[n]
  BY <1>1, <1>2, <1>3, AppendProperties
<1> HIDE DEF x, w
<1>5. \A n \in 1 .. N :
        m.array[n].peb \in Int /\ first <= m.array[n].peb /\ m.array[n].peb < first + d
  BY <1>1 DEF Lists
<1>6. ASSUME NEW n \in 1 .. N + 1
      PROVE  /\ w.array[n].peb \in Pebs
             /\ first <= w.array[n].peb
             /\ w.array[n].peb < first + (d + 1)
             /\ vol[w.array[n].peb] \in Headers
             /\ w.array[n] = Descriptor(w.array[n].peb)
  <2>1. CASE n \in 1 .. N
    <3>1. w.array[n] = m.array[n]
      BY <1>4, <2>1
    <3>2. w.array[n].peb < first + (d + 1) /\ first <= w.array[n].peb
      BY <1>5, <2>1, <3>1
    <3> QED
      BY <2>1, <3>1, <3>2 DEF Lists
  <2>2. CASE n = N + 1
    BY <2>2, <1>1, <1>2, <1>4 DEF x
  <2> QED
    BY <1>1, <2>1, <2>2
<1>7. ASSUME NEW n \in 1 .. N + 1, NEW k \in 1 .. N + 1, n < k
      PROVE  w.array[n].peb < w.array[k].peb
  <2>1. n \in 1 .. N
    BY <1>1, <1>7
  <2>2. CASE k \in 1 .. N
    BY <1>4, <1>7, <2>1, <2>2 DEF Lists
  <2>3. CASE k = N + 1
    BY <1>2, <1>4, <1>5, <2>1, <2>3
  <2> QED
    BY <1>1, <2>2, <2>3
<1>8. ASSUME NEW p \in Pebs, vol[p] \in Headers, first <= p, p < first + (d + 1)
      PROVE  \E n \in 1 .. N + 1 : w.array[n].peb = p
  <2>1. CASE p = first + d
    BY <1>1, <1>2, <1>4, <2>1
  <2>2. CASE p < first + d
    <3>1. PICK n \in 1 .. N : m.array[n].peb = p
      BY <1>8, <2>2 DEF Lists
    <3>2. n \in 1 .. N + 1 /\ w.array[n] = m.array[n]
      BY <1>1, <1>4
    <3> QED
      BY <3>1, <3>2
  <2> QED
    BY <1>1, <1>8, <2>1, <2>2
<1> QED
  BY <1>3, <1>4, <1>6, <1>7, <1>8 DEF Lists, w, x
(* A worker's step keeps its own map right and touches no other. *)
LEMMA WorkerInvWorker ==
  ASSUME SearchInv, WorkerInv, NEW t \in Workers, Worker(t)
  PROVE  WorkerInv'
<1> USE DEF WorkerInv
<1>1. TypeOK /\ vol' = vol
  BY DEF SearchInv, Worker, SkipPeb, AddPeb, AddPebFails, ReadBeyondEnd, ExitThread
<1>2. /\ done \in [Workers -> Nat]
      /\ map \in [Workers -> MapType]
      /\ thr \in [Workers -> {"none", "running", "spinning", "exited"}]
  BY <1>1 DEF TypeOK, MapType
<1>3. Start(t) \in Nat /\ MyShare(t) \in Nat /\ done[t] \in Nat
  BY <1>1, <1>2, Geometry
<1>4. \A u \in Workers : Start(u)' = Start(u) /\ MyShare(u)' = MyShare(u)
  BY <1>1 DEF Start, MyShare, PerThread, PebsCount, Pebs
<1>5. /\ \A u \in Workers : u # t => /\ done'[u] = done[u]
                                    /\ thr'[u] = thr[u]
                                    /\ map'[u] = map[u]
      /\ ~oom' => ~oom
  BY <1>2 DEF Worker, SkipPeb, AddPeb, AddPebFails, ReadBeyondEnd, ExitThread
<1>6. DoneInv'
  <2>1. /\ done'[t] <= MyShare(t)
        /\ thr'[t] = "exited" => done'[t] = MyShare(t)
    <3>1. CASE SkipPeb(t) \/ AddPeb(t) \/ AddPebFails(t)
      <4>1. /\ done'[t] = done[t] + 1
            /\ thr'[t] = "running"
            /\ done[t] < MyShare(t)
        BY <1>2, <3>1 DEF SkipPeb, AddPeb, AddPebFails, HasWork, MyShare
      <4> QED
        BY <1>3, <4>1
    <3>2. CASE ReadBeyondEnd(t)
      BY <1>2, <3>2 DEF ReadBeyondEnd, DoneInv
    <3>3. CASE ExitThread(t)
      <4>1. done'[t] = done[t] /\ done[t] <= MyShare(t) /\ ~(done[t] < MyShare(t))
        BY <3>3 DEF ExitThread, HasWork, MyShare, DoneInv
      <4> QED
        BY <1>3, <4>1
    <3> QED
      BY <3>1, <3>2, <3>3 DEF Worker
  <2> QED
    BY <1>4, <1>5, <2>1 DEF DoneInv
<1>7. ASSUME ~oom' PROVE Lists(map'[t], Start(t), done'[t])
  <2>1. Lists(map[t], Start(t), done[t]) /\ map[t] \in MapType
    BY <1>2, <1>5, <1>7 DEF MapInv
  <2>2. CurrentPeb(t) = Start(t) + done[t]
    BY DEF CurrentPeb, Start
  <2>3. CASE SkipPeb(t)
    BY <1>1, <1>2, <1>3, <2>1, <2>2, <2>3, ListsSkip DEF SkipPeb
  <2>4. CASE AddPeb(t)
    <3>1. /\ map'[t] = WithItem(map[t], Descriptor(Start(t) + done[t]))
          /\ done'[t] = done[t] + 1
      BY <1>2, <2>2, <2>4 DEF AddPeb
    <3> QED
      BY <1>1, <1>3, <2>1, <2>2, <2>4, <3>1, ListsAdd DEF AddPeb
  <2>5. CASE AddPebFails(t)
    BY <1>7, <2>5 DEF AddPebFails
  <2>6. CASE ReadBeyondEnd(t) \/ ExitThread(t)
    BY <2>1, <2>6 DEF ReadBeyondEnd, ExitThread
  <2> QED
    BY <2>3, <2>4, <2>5, <2>6 DEF Worker
<1>8. MapInv'
  <2> SUFFICES ASSUME ~oom', NEW u \in Workers
               PROVE  Lists(map'[u], Start(u), done'[u])
    BY <1>1, <1>4 DEF MapInv, Lists, Pebs, Descriptor
  <2>1. CASE u = t
    BY <1>7, <2>1
  <2>2. CASE u # t
    BY <1>5, <2>2 DEF MapInv
  <2> QED
    BY <2>1, <2>2
<1> QED
  BY <1>6, <1>8

(* The main thread starts workers, and leaves what they know alone. *)
LEMMA WorkerInvMain ==
  ASSUME SearchInv, WorkerInv, Main \/ UNCHANGED vars
  PROVE  WorkerInv'
<1>1. /\ vol' = vol /\ done' = done /\ map' = map
      /\ ~oom' => ~oom
      /\ thr' = thr \/ (Spawn /\ i \in Int)
  BY DEF Main, AllocPool, AllocPoolFails, Spawn, SpawnFails, UnwindJoin, UnwindDone,
         AllSpawned, WaitJoin, AllJoined, MergeItem, MergeGarbage, MergeFails,
         MergeNullMap, MergeNextMap, MergeDone, workerVars, vars, SearchInv, TypeOK
<1>2. \A u \in Workers : thr'[u] = "exited" => thr[u] = "exited"
  BY <1>1 DEF Spawn, SearchInv, TypeOK
<1> QED
  BY <1>1, <1>2 DEF WorkerInv, DoneInv, MapInv, Lists, Pebs, Descriptor, Start,
                    MyShare, PerThread, PebsCount
-----------------------------------------------------------------------------
(* The merge *)

(* As no product wraps, the ranges of the workers follow one another. *)
LEMMA SharesApart ==
  ASSUME TypeOK
  PROVE  /\ \A t \in Workers : Start(t) = t * PerThread /\ MyShare(t) <= PerThread
         /\ \A t, u \in Workers : t < u => Start(t) + PerThread <= Start(u)
<1>1. /\ PebsCount \in Nat /\ PerThread \in Nat
      /\ \A t \in Workers : MyShare(t) \in Nat
  BY Geometry
<1>2. Capacity \in Nat /\ Workers = 0 .. Capacity - 1 /\ U64 \in Nat
  BY SearchAssumption, U64Assumption DEF Workers
<1>3. Capacity * PerThread < U64
  BY NoWrapAssumption DEF TypeOK, PerThread, PebsCount, Pebs
<1>4. ASSUME NEW t \in Workers
      PROVE  Start(t) = t * PerThread /\ MyShare(t) <= PerThread
  <2>1. t * PerThread \in Nat /\ t * PerThread <= Capacity * PerThread
        /\ Capacity * PerThread \in Nat
    BY <1>1, <1>2, Monotone
  <2>2. Start(t) = t * PerThread
    BY <1>2, <1>3, <2>1, SmallMod DEF Start, FirstPeb
  <2>3. MyShare(t) <= PerThread
    BY <1>1 DEF MyShare, Share
  <2> QED
    BY <2>2, <2>3
<1>5. ASSUME NEW t \in Workers, NEW u \in Workers, t < u
      PROVE  Start(t) + PerThread <= Start(u)
  <2>1. t \in Nat /\ u \in Nat /\ t + 1 <= u
    BY <1>2, <1>5
  <2>2. (t + 1) * PerThread <= u * PerThread
    BY <1>1, <2>1, Monotone
  <2>3. (t + 1) * PerThread = t * PerThread + PerThread
    BY <1>1, <2>1
  <2> QED
    BY <1>4, <2>2, <2>3
<1> QED
  BY <1>4, <1>5

(* No PEB is left to nobody: also when a later worker starts beyond the    *)
(* device, the worker of a PEB of the device has it in its share.          *)
LEMMA PebHasWorker ==
  ASSUME TypeOK, NEW p \in Pebs
  PROVE  \E t \in Workers : Start(t) <= p /\ p < Start(t) + MyShare(t)
<1> DEFINE t == p \div PerThread
<1>1. /\ PebsCount \in Nat /\ PerThread \in Nat
      /\ p \in Nat /\ p < PebsCount
      /\ PebsCount <= Capacity * PerThread
  BY Geometry
<1>2. Capacity \in Nat \ {0} /\ Workers = 0 .. Capacity - 1 /\ U64 \in Nat
  BY SearchAssumption, U64Assumption DEF Workers
<1>3. PerThread > 0
  BY <1>1, <1>2, RoundedUp DEF PerThread
<1>4. t \in Nat /\ p % PerThread \in 0 .. PerThread - 1
      /\ p = PerThread * t + (p % PerThread)
  BY <1>1, <1>3, DivMod
<1> HIDE DEF t
<1>5. t * PerThread \in Nat /\ PerThread * t = t * PerThread
  BY <1>1, <1>4
<1>6. t * PerThread <= p /\ p < t * PerThread + PerThread
  BY <1>1, <1>4, <1>5
<1>7. t \in Workers
  <2>1. ASSUME Capacity <= t PROVE FALSE
    <3>1. Capacity * PerThread <= t * PerThread /\ Capacity * PerThread \in Nat
      BY <1>1, <1>2, <1>4, <2>1, Monotone
    <3> QED
      BY <1>1, <1>5, <1>6, <3>1
  <2> QED
    BY <1>2, <1>4, <2>1
<1>8. Start(t) = t * PerThread /\ Capacity * PerThread < U64
  BY <1>7, SharesApart, NoWrapAssumption DEF TypeOK, PerThread, PebsCount, Pebs
<1>9. (PebsCount - Start(t)) % U64 = PebsCount - Start(t)
  <2>1. PebsCount - Start(t) \in Nat
    BY <1>1, <1>5, <1>6, <1>8
  <2>2. Capacity * PerThread \in Nat
    BY <1>1, <1>2
  <2>3. PebsCount - Start(t) < U64
    BY <1>1, <1>2, <1>5, <1>8, <2>2
  <2> QED
    BY <1>2, <2>1, <2>3, SmallMod
<1>10. p < Start(t) + MyShare(t)
  <2>1. MyShare(t) = IF PebsCount - Start(t) < PerThread THEN PebsCount - Start(t)
                     ELSE PerThread
    BY <1>9 DEF MyShare, Share, Start
  <2>2. Start(t) \in Nat /\ p < Start(t) + PerThread
    BY <1>5, <1>6, <1>8
  <2>3. CASE PebsCount - Start(t) < PerThread
    BY <1>1, <2>1, <2>2, <2>3
  <2>4. CASE ~(PebsCount - Start(t) < PerThread)
    BY <2>1, <2>2, <2>4
  <2> QED
    BY <2>3, <2>4
<1> QED
  BY <1>6, <1>7, <1>8, <1>10

(* An item comes up for merging once, and is what its PEB holds. *)
LEMMA NextItemNew ==
  ASSUME SearchInv, WorkerInv, ~oom, pc = "merge", i < Capacity,
         item < Len(CurrentMap.array)
  PROVE  /\ NextItem.peb \in Pebs \ Seen
         /\ vol[NextItem.peb] \in Headers
         /\ NextItem = Descriptor(NextItem.peb)
<1>1. TypeOK /\ Capacity \in Nat /\ Workers = 0 .. Capacity - 1
  BY SearchAssumption DEF SearchInv, Workers
<1>2. i \in Workers /\ item \in Nat
  BY <1>1 DEF SearchInv, JoinInv, TypeOK
<1>3. \A t \in Workers : Lists(map[t], Start(t), done[t])
  BY DEF WorkerInv, MapInv
<1>4. \A t \in Workers : Len(map[t].array) \in Nat
  BY <1>1, LenProperties DEF TypeOK
<1>5. item + 1 \in 1 .. Len(map[i].array) /\ NextItem = map[i].array[item + 1]
  BY <1>2, <1>4 DEF CurrentMap, NextItem
<1>6. /\ NextItem.peb \in Pebs
      /\ vol[NextItem.peb] \in Headers
      /\ NextItem = Descriptor(NextItem.peb)
  BY <1>2, <1>3, <1>5 DEF Lists
<1>7. ASSUME NEW t \in Workers, NEW n \in 1 .. Len(map[t].array),
             t < i \/ (t = i /\ n <= item)
      PROVE  map[t].array[n].peb # NextItem.peb
  <2>1. Pebs \subseteq Int /\ map[t].array[n].peb \in Pebs
    BY <1>1, <1>3, <1>7, Geometry DEF Lists
  <2>2. CASE t = i /\ n <= item
    <3>1. n < item + 1 /\ n \in 1 .. Len(map[i].array)
      BY <1>2, <1>4, <1>7, <2>2
    <3>2. map[i].array[n].peb < map[i].array[item + 1].peb
      BY <1>2, <1>3, <1>5, <3>1 DEF Lists
    <3>3. \A x \in Int : ~(x < x)
      OBVIOUS
    <3> QED
      BY <1>5, <1>6, <2>1, <2>2, <3>2, <3>3
  <2>3. CASE t < i
    <3>1. /\ map[t].array[n].peb < Start(t) + done[t]
          /\ Start(i) <= NextItem.peb
      BY <1>2, <1>3, <1>5, <1>7 DEF Lists
    <3>2. /\ done[t] <= MyShare(t) /\ MyShare(t) <= PerThread
          /\ Start(t) + PerThread <= Start(i)
      BY <1>1, <1>2, <1>7, <2>3, SharesApart DEF WorkerInv, DoneInv
    <3>3. /\ done[t] \in Nat /\ MyShare(t) \in Nat /\ PerThread \in Nat
          /\ Start(t) \in Nat /\ Start(i) \in Nat
      BY <1>1, <1>2, <1>7, Geometry DEF TypeOK
    <3>4. Start(t) + done[t] <= Start(i)
      BY <3>2, <3>3
    <3>5. \A x \in Int : ~(x < Start(t) + done[t] /\ Start(i) <= x)
      BY <3>3, <3>4
    <3> QED
      BY <1>6, <2>1, <3>1, <3>5
  <2> QED
    BY <1>7, <2>2, <2>3
<1>8. NextItem.peb \notin Seen
  BY <1>7 DEF Seen
<1> QED
  BY <1>6, <1>8

LEMMA SeenGrows ==
  ASSUME SearchInv, pc = "merge", i < Capacity, item < Len(CurrentMap.array),
         NextItem.peb \in Pebs,
         vol' = vol, map' = map, i' = i, item' = item + 1
  PROVE  Seen' = Seen \cup {NextItem.peb}
<1>1. i \in Workers /\ item \in Nat
  BY SearchAssumption DEF SearchInv, JoinInv, TypeOK, Workers
<1>2. \A t \in Workers : Len(map[t].array) \in Nat
  BY LenProperties DEF SearchInv, TypeOK
<1>3. Seen' = { p \in Pebs :
                  \E t \in Workers : \E n \in 1 .. Len(map[t].array) :
                    /\ t < i \/ (t = i /\ n <= item + 1)
                    /\ map[t].array[n].peb = p }
  BY DEF Seen, Pebs
<1>4. item + 1 \in 1 .. Len(map[i].array) /\ NextItem = map[i].array[item + 1]
  BY <1>1, <1>2 DEF CurrentMap, NextItem
<1>5. \A n \in 1 .. Len(map[i].array) :
        n <= item + 1 <=> n <= item \/ n = item + 1
  BY <1>1, <1>2
<1> QED
  BY <1>1, <1>3, <1>4, <1>5 DEF Seen
(* The fields of a new point. *)
LEMMA NewPointFields ==
  ASSUME NEW time \in Times
  PROVE  /\ NewPoint(time) \in PointType
         /\ NewPoint(time).time = time
         /\ NewPoint(time).found = {}
         /\ \A s \in SegTypes :
              NewPoint(time).pebs[s] = << >> /\ Len(NewPoint(time).pebs[s]) = 0
BY NewPointType DEF NewPoint

(* One more PEB is recorded, in its place, and the records before stay. *)
LEMMA RecordsMerge ==
  ASSUME TypeOK, NEW a, ArrayOK(a), NEW S \in SUBSET Pebs,
         \A r \in S : vol[r] \in Headers,
         Records(PointsOf(a), S),
         NEW p \in Pebs \ S, vol[p] \in Headers
  PROVE  Records(PointsOf(Merged(a, Descriptor(p))), S \cup {p})
<1> DEFINE it == Descriptor(p)
           b == IF HasPoint(a, it.time) THEN a ELSE WithPoint(a, it.time)
           P == PointsOf(b)
           M == PointsOf(Merged(a, it))
<1>1. /\ it \in Items /\ it.peb = p /\ it.time \in Times /\ it.type \in SegTypes
      /\ it.type = vol[p].type /\ it.time = vol[p].time
  <2>1. vol[p].type \in SegTypes /\ vol[p].time \in Times
    BY SearchAssumption
  <2>2. p \in PebIds
    BY DEF TypeOK, Pebs, PebIds
  <2> QED
    BY <2>1, <2>2 DEF Descriptor, Items
<1> HIDE DEF it
<1>2. PointsOf(a) \subseteq PointType
  BY PointsTyped
<1>3. /\ P \subseteq PointType
      /\ Records(P, S)
      /\ \E q \in P : q.time = it.time
  <2>1. CASE HasPoint(a, it.time)
    BY <1>2, <2>1 DEF HasPoint, PointsOf
  <2>2. CASE ~HasPoint(a, it.time)
    <3> DEFINE new == NewPoint(it.time)
    <3>1. P = (IF ReusesBuffer(a) THEN {} ELSE PointsOf(a)) \cup {new}
      BY <1>1, <2>2, WithPointPoints DEF ArrayOK
    <3>2. /\ new \in PointType /\ new.time = it.time
          /\ \A s \in SegTypes : Len(new.pebs[s]) = 0
      BY <1>1, NewPointFields
    <3>3. \A r \in S : vol[r].time # NoTime
      BY SearchAssumption
    <3>4. \A q \in PointsOf(a) : q.time # NoTime => q \in P
      BY <3>1, PointsTyped
    <3> HIDE DEF new, P
    <3>5. \A r \in S : \E q \in P :
            /\ q.time = vol[r].time
            /\ \E n \in 1 .. Len(q.pebs[vol[r].type]) :
                 q.pebs[vol[r].type][n].peb = r
      BY <3>3, <3>4 DEF Records
    <3>6. \A q \in P : q \in PointsOf(a) \/ q = new
      BY <3>1
    <3>7. \A q \in P, s \in SegTypes :
            /\ \A n \in 1 .. Len(q.pebs[s]) :
                 /\ q.pebs[s][n].peb \in S
                 /\ vol[q.pebs[s][n].peb].type = s
                 /\ vol[q.pebs[s][n].peb].time = q.time
            /\ \A n, k \in 1 .. Len(q.pebs[s]) :
                 q.pebs[s][n].peb = q.pebs[s][k].peb => n = k
      <4> SUFFICES ASSUME NEW q \in P, NEW s \in SegTypes
                   PROVE  /\ \A n \in 1 .. Len(q.pebs[s]) :
                               /\ q.pebs[s][n].peb \in S
                               /\ vol[q.pebs[s][n].peb].type = s
                               /\ vol[q.pebs[s][n].peb].time = q.time
                          /\ \A n, k \in 1 .. Len(q.pebs[s]) :
                               q.pebs[s][n].peb = q.pebs[s][k].peb => n = k
        OBVIOUS
      <4>1. CASE q \in PointsOf(a)
        BY <4>1 DEF Records
      <4>2. CASE q = new
        BY <3>2, <4>2
      <4> QED
        BY <3>6, <4>1, <4>2
    <3>8. new \in P /\ P \subseteq PointType
      BY <1>2, <3>1, <3>2
    <3> QED
      BY <3>2, <3>5, <3>7, <3>8 DEF Records
  <2> QED
    BY <2>1, <2>2
<1>4. M = { WithPeb(q, it) : q \in P }
  BY <1>1, MergedPoints DEF ArrayOK
<1> HIDE DEF P, M, b
<1>5. ASSUME NEW q \in P, NEW s \in SegTypes
      PROVE  LET w == WithPeb(q, it)
             IN  /\ \A n \in 1 .. Len(w.pebs[s]) :
                      /\ w.pebs[s][n].peb \in S \cup {p}
                      /\ vol[w.pebs[s][n].peb].type = s
                      /\ vol[w.pebs[s][n].peb].time = w.time
                 /\ \A n, k \in 1 .. Len(w.pebs[s]) :
                      w.pebs[s][n].peb = w.pebs[s][k].peb => n = k
  <2> DEFINE w == WithPeb(q, it)
             N == Len(q.pebs[s])
  <2>1. q \in PointType /\ q.pebs[s] \in Seq(Items) /\ N \in Nat
    BY <1>3, <1>5, LenProperties DEF PointType
  <2>2. /\ w.time = q.time
        /\ q.time = it.time /\ s = it.type => w.pebs[s] = Append(q.pebs[s], it)
        /\ ~(q.time = it.time /\ s = it.type) => w.pebs[s] = q.pebs[s]
    BY <1>1, <1>5, <2>1, WithPebFields
  <2>3. /\ \A n \in 1 .. N :
             /\ q.pebs[s][n].peb \in S
             /\ vol[q.pebs[s][n].peb].type = s
             /\ vol[q.pebs[s][n].peb].time = q.time
        /\ \A n, k \in 1 .. N : q.pebs[s][n].peb = q.pebs[s][k].peb => n = k
    BY <1>3, <1>5 DEF Records
  <2> HIDE DEF w
  <2>4. CASE w.pebs[s] = q.pebs[s]
    BY <2>2, <2>3, <2>4 DEF w
  <2>5. CASE q.time = it.time /\ s = it.type
    <3> DEFINE l == w.pebs[s]
    <3>1. l = Append(q.pebs[s], it)
      BY <2>2, <2>5
    <3>2. /\ Len(l) = N + 1 /\ l[N + 1] = it
          /\ \A n \in 1 .. N : l[n] = q.pebs[s][n]
      BY <1>1, <2>1, <3>1, AppendProperties
    <3> HIDE DEF l
    <3>3. \A n \in 1 .. N + 1 : n \in 1 .. N \/ n = N + 1
      BY <2>1
    <3>4. /\ l[N + 1].peb = p
          /\ \A n \in 1 .. N : l[n].peb \in S /\ l[n].peb # p
      BY <1>1, <2>3, <3>2
    <3>5. \A n \in 1 .. N + 1 :
            /\ l[n].peb \in S \cup {p}
            /\ vol[l[n].peb].type = s
            /\ vol[l[n].peb].time = w.time
      <4> SUFFICES ASSUME NEW n \in 1 .. N + 1
                   PROVE  /\ l[n].peb \in S \cup {p}
                          /\ vol[l[n].peb].type = s
                          /\ vol[l[n].peb].time = w.time
        OBVIOUS
      <4>1. CASE n \in 1 .. N
        BY <2>2, <2>3, <3>2, <4>1
      <4>2. CASE n = N + 1
        BY <1>1, <2>2, <2>5, <3>4, <4>2
      <4> QED
        BY <3>3, <4>1, <4>2
    <3>6. \A n, k \in 1 .. N + 1 : l[n].peb = l[k].peb => n = k
      <4> SUFFICES ASSUME NEW n \in 1 .. N + 1, NEW k \in 1 .. N + 1,
                          l[n].peb = l[k].peb
                   PROVE  n = k
        OBVIOUS
      <4>1. CASE n \in 1 .. N /\ k \in 1 .. N
        BY <2>3, <3>2, <4>1
      <4>2. CASE n = N + 1 \/ k = N + 1
        BY <3>3, <3>4, <4>2
      <4> QED
        BY <3>3, <4>1, <4>2
    <3> QED
      BY <3>2, <3>5, <3>6 DEF l, w
  <2> QED
    BY <2>2, <2>4, <2>5
<1>6. ASSUME NEW r \in S \cup {p}
      PROVE  \E q \in M :
               /\ q.time = vol[r].time
               /\ \E n \in 1 .. Len(q.pebs[vol[r].type]) :
                    q.pebs[vol[r].type][n].peb = r
  <2>1. CASE r = p
    <3>1. PICK q \in P : q.time = it.time
      BY <1>3
    <3> DEFINE w == WithPeb(q, it)
    <3>2. q \in PointType /\ q.pebs[it.type] \in Seq(Items)
          /\ Len(q.pebs[it.type]) \in Nat
      BY <1>1, <1>3, <3>1, LenProperties DEF PointType
    <3>3. w.time = it.time /\ w.pebs[it.type] = Append(q.pebs[it.type], it)
      BY <1>1, <3>1, <3>2, WithPebFields
    <3>4. w \in M
      BY <1>4
    <3> HIDE DEF w
    <3> DEFINE l == q.pebs[it.type]
               n == Len(l) + 1
    <3>5. l \in Seq(Items) /\ n \in 1 .. n
      BY <3>2
    <3>6. w.pebs[it.type] = Append(l, it)
      BY <3>3
    <3> HIDE DEF l
    <3>7. Len(Append(l, it)) = n /\ Append(l, it)[n] = it
      BY <1>1, <3>5, AppendProperties
    <3>8. n \in 1 .. Len(w.pebs[it.type]) /\ w.pebs[it.type][n].peb = p
      BY <1>1, <3>5, <3>6, <3>7
    <3> QED
      BY <1>1, <2>1, <3>3, <3>4, <3>8
  <2>2. CASE r \in S
    <3> DEFINE s == vol[r].type
    <3>1. PICK q \in P : /\ q.time = vol[r].time
                         /\ \E n \in 1 .. Len(q.pebs[s]) : q.pebs[s][n].peb = r
      BY <1>3, <2>2 DEF Records
    <3>2. PICK n \in 1 .. Len(q.pebs[s]) : q.pebs[s][n].peb = r
      BY <3>1
    <3>3. s \in SegTypes /\ q \in PointType
      BY <1>3, <2>2, SearchAssumption
    <3> DEFINE w == WithPeb(q, it)
    <3>4. w \in M /\ KeptIn(q, w)
      BY <1>1, <1>4, <3>3, KeptInWithPeb
    <3>5. Len(q.pebs[s]) \in Nat /\ Len(w.pebs[s]) \in Nat
      BY <1>1, <3>3, WithPebFields, LenProperties DEF PointType
    <3> HIDE DEF w, s
    <3>6. /\ w.time = vol[r].time
          /\ Len(q.pebs[s]) <= Len(w.pebs[s])
          /\ w.pebs[s][n] = q.pebs[s][n]
      BY <3>1, <3>3, <3>4 DEF KeptIn
    <3>7. n \in 1 .. Len(w.pebs[s])
      BY <3>5, <3>6
    <3> QED
      BY <3>2, <3>4, <3>6, <3>7 DEF s
  <2> QED
    BY <2>1, <2>2
<1>7. ASSUME NEW m \in M, NEW s \in SegTypes
      PROVE  /\ \A n \in 1 .. Len(m.pebs[s]) :
                  /\ m.pebs[s][n].peb \in S \cup {p}
                  /\ vol[m.pebs[s][n].peb].type = s
                  /\ vol[m.pebs[s][n].peb].time = m.time
             /\ \A n, k \in 1 .. Len(m.pebs[s]) :
                  m.pebs[s][n].peb = m.pebs[s][k].peb => n = k
  <2>1. PICK q \in P : m = WithPeb(q, it)
    BY <1>4, <1>7
  <2> QED
    BY <1>5, <2>1
<1>8. Records(M, S \cup {p})
  BY <1>6, <1>7 DEF Records
<1> QED
  BY <1>8 DEF M, it
LEMMA InitWorkerInv == Init => WorkerInv
<1> SUFFICES ASSUME Init PROVE WorkerInv
  OBVIOUS
<1>1. TypeOK
  BY InitSearchInv DEF SearchInv
<1>2. \A t \in Workers : done[t] = 0 /\ MyShare(t) \in Nat /\ Start(t) \in Nat
  BY <1>1, Geometry DEF Init
<1>3. DoneInv
  BY <1>2 DEF DoneInv, Init
<1>4. ASSUME NEW t \in Workers PROVE Lists(map[t], Start(t), done[t])
  <2>1. map[t].array = << >> /\ map[t].capacity = 0 /\ Len(map[t].array) = 0
    BY DEF Init
  <2>2. \A p \in Pebs : ~(Start(t) <= p /\ p < Start(t) + done[t])
    BY <1>1, <1>2, Geometry
  <2> QED
    BY <2>1, <2>2 DEF Lists
<1> QED
  BY <1>3, <1>4 DEF WorkerInv, MapInv

(* What Records says depends on the device alone. *)
LEMMA RecordsSame ==
  ASSUME vol' = vol, PointsOf(array)' = PointsOf(array), Seen' = Seen,
         Records(PointsOf(array), Seen)
  PROVE  Records(PointsOf(array), Seen)'
BY DEF Records

LEMMA InitRecordInv == Init => RecordInv
<1> SUFFICES ASSUME Init, NEW q \in PointsOf(array), NEW s \in SegTypes
             PROVE  q.pebs[s] = << >>
  BY DEF Init, RecordInv, Merging
<1>1. PICK p \in {NewPoint(NoTime)} \cup
              { [NewPoint(t) EXCEPT !.found = b] : t \in Times, b \in Detected } :
        array = [state |-> "buffer", points |-> <<p>>]
  BY DEF Init, InitArrays
<1>2. q = p
  BY <1>1 DEF PointsOf
<1>3. CASE p = NewPoint(NoTime)
  BY <1>2, <1>3 DEF NewPoint
<1>4. ASSUME NEW t \in Times, NEW b \in Detected, p = [NewPoint(t) EXCEPT !.found = b]
      PROVE  q.pebs[s] = << >>
  BY <1>2, <1>4 DEF NewPoint
<1> QED
  BY <1>1, <1>3, <1>4

(* The records grow with the items merged. *)
LEMMA NextRecordInv ==
  ASSUME SearchInv, WorkerInv, RecordInv, EndInv, [Next]_vars
  PROVE  RecordInv'
<1>1. TypeOK /\ ArrayOK(array) /\ Capacity \in Nat /\ Workers = 0 .. Capacity - 1
  BY SearchArrayOK, SearchAssumption DEF SearchInv, Workers
<1>2. CASE UNCHANGED <<vol, pc, res, i, item, map, array>> /\ (~oom' => ~oom)
  <2>1. PointsOf(array)' = PointsOf(array) /\ Seen' = Seen
    BY <1>2 DEF PointsOf, Seen, Pebs
  <2> QED
    BY <1>2, <2>1, RecordsSame DEF RecordInv, Merging
<1>3. CASE \E t \in Workers : Worker(t)
  <2>1. PICK t \in Workers : Worker(t)
    BY <1>3
  <2>2. thr[t] = "running"
    BY <2>1 DEF Worker, SkipPeb, AddPeb, AddPebFails, ReadBeyondEnd, ExitThread,
                HasWork
  <2>3. pc \notin {"merge", "done", "crashed"}
    BY <2>2 DEF SearchInv, JoinInv, JoinedBeforeFree
  <2>4. pc' = pc /\ array' = array
    BY <2>1 DEF Worker, SkipPeb, AddPeb, AddPebFails, ReadBeyondEnd, ExitThread,
                mainVars
  <2> QED
    BY <2>3, <2>4 DEF RecordInv, Merging, PointsOf
<1>4. CASE \/ AllocPool \/ AllocPoolFails \/ Spawn \/ SpawnFails
           \/ UnwindJoin \/ UnwindDone \/ AllSpawned \/ WaitJoin
  <2>1. /\ array' = array
        /\ pc \in {"start", "spawn", "unwind", "wait"}
        /\ \/ pc' \in {"start", "spawn", "unwind", "wait"}
           \/ pc' = "done" /\ res' = "failure"
    BY <1>4 DEF AllocPool, AllocPoolFails, Spawn, SpawnFails, UnwindJoin,
                UnwindDone, AllSpawned, WaitJoin, EndInv
  <2> QED
    BY <2>1 DEF RecordInv, Merging, PointsOf
<1>5. CASE AllJoined
  <2>1. /\ pc = "wait" /\ pc' = "merge" /\ i' = 0 /\ item' = 0
        /\ array' = array /\ vol' = vol /\ map' = map
    BY <1>5 DEF AllJoined, workerVars
  <2>2. \A t \in Workers : \A n \in 1 .. Len(map[t].array) :
          ~(t < 0 \/ (t = 0 /\ n <= 0))
    BY <1>1
  <2>3. Seen' = {}
    BY <2>1, <2>2 DEF Seen
  <2>4. \A q \in PointsOf(array), s \in SegTypes :
          q.pebs[s] = << >> /\ Len(q.pebs[s]) = 0
    BY <2>1 DEF RecordInv
  <2>5. PointsOf(array)' = PointsOf(array)
    BY <2>1 DEF PointsOf
  <2>6. Records(PointsOf(array), Seen)'
    BY <2>3, <2>4, <2>5 DEF Records
  <2> QED
    BY <2>1, <2>6 DEF RecordInv
<1>6. CASE MergeItem
  <2>1. /\ pc = "merge" /\ pc' = "merge" /\ i' = i /\ item' = item + 1
        /\ i < Capacity /\ item < Len(CurrentMap.array)
        /\ array' = Merged(array, NextItem)
        /\ vol' = vol /\ map' = map /\ oom' = oom
    BY <1>6 DEF MergeItem, workerVars, NextItem
  <2> SUFFICES ASSUME ~oom PROVE Records(PointsOf(array), Seen)'
    BY <2>1 DEF RecordInv
  <2> DEFINE p == NextItem.peb
  <2>2. p \in Pebs \ Seen /\ vol[p] \in Headers /\ NextItem = Descriptor(p)
    BY <2>1, NextItemNew
  <2>3. Seen' = Seen \cup {p}
    BY <2>1, <2>2, SeenGrows
  <2>4. Records(PointsOf(array), Seen) /\ Seen \in SUBSET Pebs
    BY <2>1 DEF RecordInv, Merging, Seen
  <2>5. \A r \in Seen : vol[r] \in Headers
    BY DEF Seen, WorkerInv, MapInv, Lists
  <2> HIDE DEF p
  <2>6. Records(PointsOf(Merged(array, Descriptor(p))), Seen \cup {p})
    BY <1>1, <2>2, <2>4, <2>5, RecordsMerge
  <2>7. PointsOf(array)' = PointsOf(Merged(array, Descriptor(p)))
    BY <2>1, <2>2 DEF PointsOf
  <2> QED
    BY <2>1, <2>3, <2>6, <2>7 DEF Records
<1>7. CASE MergeGarbage
  <2>1. pc = "merge" /\ i < Capacity /\ item < Len(CurrentMap.array)
        /\ NextItem = Garbage /\ oom' = oom /\ pc' \in {"merge", "done"}
    BY <1>7 DEF MergeGarbage, NextItem
  <2>2. oom
    <3> SUFFICES ASSUME ~oom PROVE FALSE
      OBVIOUS
    <3>1. Garbage.peb \in Pebs /\ Garbage.peb = -1
      BY <2>1, NextItemNew DEF Garbage
    <3> QED
      BY <1>1, <3>1, Geometry
  <2> QED
    BY <2>1, <2>2 DEF RecordInv, Merging
<1>8. CASE MergeFails \/ MergeNullMap
  BY <1>8 DEF MergeFails, MergeNullMap, RecordInv, Merging
<1>9. CASE MergeNextMap
  <2>1. /\ pc = "merge" /\ pc' = "merge" /\ i' = i + 1 /\ item' = 0
        /\ i < Capacity /\ item = Len(CurrentMap.array)
        /\ array' = array /\ vol' = vol /\ map' = map /\ oom' = oom
    BY <1>9 DEF MergeNextMap, workerVars
  <2>2. i \in Workers
    BY <1>1, <2>1 DEF SearchInv, JoinInv, TypeOK
  <2>3. \A t \in Workers : \A n \in 1 .. Len(map[t].array) :
          (t < i + 1 \/ (t = i + 1 /\ n <= 0)) <=> (t < i \/ (t = i /\ n <= item))
    BY <1>1, <2>1, <2>2 DEF CurrentMap
  <2>4. Seen' = Seen
    BY <2>1, <2>3 DEF Seen, Pebs
  <2>5. PointsOf(array)' = PointsOf(array)
    BY <2>1 DEF PointsOf
  <2> QED
    BY <2>1, <2>4, <2>5, RecordsSame DEF RecordInv, Merging
<1>10. CASE MergeDone
  <2>1. PointsOf(array)' = PointsOf(array) /\ Seen' = Seen
    BY <1>10 DEF MergeDone, PointsOf, Seen, Pebs, workerVars
  <2> QED
    BY <1>10, <2>1, RecordsSame DEF MergeDone, RecordInv, Merging
<1>11. CASE Idle \/ UNCHANGED vars
  BY <1>2, <1>11 DEF Idle, vars
<1> QED
  BY <1>3, <1>4, <1>5, <1>6, <1>7, <1>8, <1>9, <1>10, <1>11 DEF Next, Main
(* A map with lost or uninitialized items means that memory ran out. *)
LEMMA NoGarbage ==
  ASSUME SearchInv, WorkerInv, pc = "merge", i < Capacity,
         item < Len(CurrentMap.array), CurrentMap.null \/ NextItem = Garbage
  PROVE  oom
<1> SUFFICES ASSUME ~oom PROVE FALSE
  OBVIOUS
<1>1. NextItem.peb \in Pebs
  BY NextItemNew
<1>2. NextItem # Garbage
  <2>1. Garbage.peb = -1 /\ -1 \notin Pebs
    BY Geometry DEF SearchInv, Garbage
  <2> QED
    BY <1>1, <2>1
<1>3. i \in Workers /\ item \in Nat
  BY SearchAssumption DEF SearchInv, JoinInv, TypeOK, Workers
<1>4. CurrentMap.array = << >>
  BY <1>2, <1>3 DEF WorkerInv, MapInv, Lists, CurrentMap
<1> QED
  BY <1>3, <1>4

LEMMA NextEndInv ==
  ASSUME SearchInv, WorkerInv, EndInv, [Next]_vars
  PROVE  EndInv'
<1> USE DEF EndInv, Merging
<1>1. CASE UNCHANGED <<pc, res, i, oom, thr>>
  BY <1>1
<1>2. CASE \E t \in Workers : Worker(t)
  <2>1. PICK t \in Workers : Worker(t)
    BY <1>2
  <2>2. UNCHANGED <<pc, res, i>> /\ (oom' = oom \/ MayFailAlloc) /\ thr[t] = "running"
    BY <2>1 DEF Worker, SkipPeb, AddPeb, AddPebFails, ReadBeyondEnd, ExitThread,
                mainVars, HasWork
  <2> QED
    BY <2>2
<1>3. CASE \/ AllocPool \/ AllocPoolFails \/ Spawn \/ SpawnFails
           \/ UnwindJoin \/ UnwindDone \/ AllSpawned \/ WaitJoin
  BY <1>3 DEF AllocPool, AllocPoolFails, Spawn, SpawnFails, UnwindJoin, UnwindDone,
              AllSpawned, WaitJoin
<1>4. CASE AllJoined
  <2>1. \A t \in Workers : thr[t] = "exited"
    BY <1>4, SearchAssumption DEF AllJoined, SearchInv, JoinInv, Workers
  <2> QED
    BY <1>4, <2>1 DEF AllJoined, workerVars
<1>5. CASE MergeItem \/ MergeNextMap \/ MergeDone
  BY <1>5 DEF MergeItem, MergeNextMap, MergeDone, workerVars
<1>6. CASE MergeFails
  BY <1>6 DEF MergeFails, workerVars
<1>7. CASE MergeGarbage
  <2>1. oom
    BY <1>7, NoGarbage DEF MergeGarbage, NextItem
  <2> QED
    BY <1>7, <2>1 DEF MergeGarbage, workerVars
<1>8. CASE MergeNullMap
  <2>1. oom
    BY <1>8, NoGarbage DEF MergeNullMap
  <2> QED
    BY <1>8, <2>1 DEF MergeNullMap, workerVars
<1>9. CASE Idle \/ UNCHANGED vars
  BY <1>1, <1>9 DEF Idle, vars
<1> QED
  BY <1>2, <1>3, <1>4, <1>5, <1>6, <1>7, <1>8, <1>9 DEF Next, Main

CompleteInv == SearchInv /\ WorkerInv /\ RecordInv /\ EndInv

LEMMA CompleteInvariant == Spec => []CompleteInv
<1>1. Init => CompleteInv
  <2>1. Init => EndInv
    BY DEF Init, EndInv, Merging
  <2> QED
    BY <2>1, InitSearchInv, InitWorkerInv, InitRecordInv DEF CompleteInv
<1>2. CompleteInv /\ [Next]_vars => CompleteInv'
  <2> SUFFICES ASSUME CompleteInv, [Next]_vars PROVE CompleteInv'
    OBVIOUS
  <2>1. SearchInv' /\ EndInv' /\ RecordInv'
    BY NextSearchInv, NextEndInv, NextRecordInv DEF CompleteInv
  <2>2. WorkerInv'
    <3>1. Main \/ UNCHANGED vars \/ (\E t \in Workers : Worker(t))
      BY DEF Next, Idle
    <3> QED
      BY <3>1, WorkerInvWorker, WorkerInvMain DEF CompleteInv
  <2> QED
    BY <2>1, <2>2 DEF CompleteInv
<1> QED
  BY <1>1, <1>2, PTL DEF Spec

(* When all maps are merged, every metadata PEB was seen. *)
LEMMA AllSeen ==
  ASSUME CompleteInv, Merging, i = Capacity, ~oom
  PROVE  Seen = { p \in Pebs : vol[p] \in Headers }
<1>1. TypeOK /\ i = Capacity /\ Capacity \in Nat /\ Workers = 0 .. Capacity - 1
  BY SearchAssumption DEF CompleteInv, SearchInv, Workers
<1>2. \A t \in Workers : Lists(map[t], Start(t), done[t])
  BY DEF CompleteInv, WorkerInv, MapInv
<1>3. ASSUME NEW p \in Seen PROVE vol[p] \in Headers
  BY <1>2, <1>3 DEF Seen, Lists
<1>4. ASSUME NEW p \in Pebs, vol[p] \in Headers PROVE p \in Seen
  <2>1. PICK t \in Workers : Start(t) <= p /\ p < Start(t) + MyShare(t)
    BY <1>1, PebHasWorker
  <2>2. thr[t] = "exited" => done[t] = MyShare(t)
    BY DEF CompleteInv, WorkerInv, DoneInv
  <2>3. thr[t] = "exited"
    BY DEF CompleteInv, EndInv, Merging
  <2>4. PICK n \in 1 .. Len(map[t].array) : map[t].array[n].peb = p
    BY <1>2, <1>4, <2>1, <2>2, <2>3 DEF Lists
  <2> QED
    BY <1>1, <2>4 DEF Seen
<1> QED
  BY <1>3, <1>4 DEF Seen

(* For every number of threads, every device and every interleaving: a     *)
(* search that succeeds and had memory enough has recorded each metadata   *)
(* PEB exactly once, in the creation point of its volume and under its     *)
(* segment type, and nothing else (ssdfs_fsck_thread_func,                 *)
(* execute_whole_volume_search).                                           *)
THEOREM SearchIsComplete == Spec => []SearchComplete
<1>1. ASSUME CompleteInv PROVE SearchComplete
  <2> SUFFICES ASSUME pc = "done", res = "success", ~oom, NEW p \in Pebs
               PROVE  /\ vol[p] \in Headers => HasPoint(array, vol[p].time)
                      /\ \A s \in SegTypes, k \in 1 .. Len(array.points) :
                           LET hit == /\ vol[p] \in Headers
                                      /\ vol[p].type = s
                                      /\ vol[p].time = array.points[k].time
                           IN  IF hit
                               THEN \E n \in DOMAIN array.points[k].pebs[s] :
                                      Recorded(k, s, p) = {n}
                               ELSE Recorded(k, s, p) = {}
    BY DEF SearchComplete
  <2> DEFINE P == PointsOf(array)
  <2>1. Records(P, Seen) /\ Seen = { r \in Pebs : vol[r] \in Headers }
    BY <1>1, AllSeen DEF CompleteInv, RecordInv, EndInv, Merging
  <2>2. /\ P \subseteq PointType
        /\ \A q, r \in P : q.time = r.time => q = r
        /\ \A k \in 1 .. Len(array.points) : array.points[k] \in P
    BY <1>1, SearchArrayOK, PointsTyped DEF CompleteInv, PointsOf
  <2> HIDE DEF P
  <2>3. ASSUME vol[p] \in Headers PROVE HasPoint(array, vol[p].time)
    <3>1. \E q \in P : q.time = vol[p].time
      BY <2>1, <2>3 DEF Records
    <3> QED
      BY <3>1 DEF P, PointsOf, HasPoint
  <2>4. ASSUME NEW s \in SegTypes, NEW k \in 1 .. Len(array.points)
        PROVE  LET hit == /\ vol[p] \in Headers
                          /\ vol[p].type = s
                          /\ vol[p].time = array.points[k].time
               IN  IF hit
                   THEN \E n \in DOMAIN array.points[k].pebs[s] :
                          Recorded(k, s, p) = {n}
                   ELSE Recorded(k, s, p) = {}
    <3> DEFINE q == array.points[k]
    <3>1. q \in P /\ q \in PointType
      BY <2>2, <2>4
    <3>2. DOMAIN q.pebs[s] = 1 .. Len(q.pebs[s])
      BY <2>4, <3>1, LenProperties DEF PointType
    <3>3. Recorded(k, s, p) = { n \in 1 .. Len(q.pebs[s]) : q.pebs[s][n].peb = p }
      BY <3>2 DEF Recorded
    <3> HIDE DEF q
    <3>4. CASE vol[p] \in Headers /\ vol[p].type = s /\ vol[p].time = q.time
      <4>1. PICK r \in P : /\ r.time = vol[p].time
                           /\ \E n \in 1 .. Len(r.pebs[s]) : r.pebs[s][n].peb = p
        BY <2>1, <3>4 DEF Records
      <4>2. r = q
        BY <2>2, <3>1, <3>4, <4>1
      <4>3. PICK n \in 1 .. Len(q.pebs[s]) : q.pebs[s][n].peb = p
        BY <4>1, <4>2
      <4>4. \A m \in 1 .. Len(q.pebs[s]) : q.pebs[s][m].peb = p => m = n
        BY <2>1, <2>4, <3>1, <4>3 DEF Records
      <4>5. Recorded(k, s, p) = {n}
        BY <3>3, <4>3, <4>4
      <4> QED
        BY <3>2, <3>4, <4>3, <4>5 DEF q
    <3>5. CASE ~(vol[p] \in Headers /\ vol[p].type = s /\ vol[p].time = q.time)
      <4>1. \A n \in 1 .. Len(q.pebs[s]) : q.pebs[s][n].peb # p
        BY <2>1, <2>4, <3>1, <3>5 DEF Records
      <4> QED
        BY <3>3, <3>5, <4>1 DEF q
    <3> QED
      BY <3>4, <3>5
  <2> QED
    BY <2>3, <2>4
<1> QED
  BY <1>1, CompleteInvariant, PTL
-----------------------------------------------------------------------------
(* The creation points, as the caller of the search sees them *)

(* Only an array in the buffer holds the unused point, and reuses it. *)
LEMMA UnusedIsReused ==
  ASSUME NEW a, ArrayOK(a), FoundOK(a), NEW q \in PointsOf(a), q.time = NoTime
  PROVE  ReusesBuffer(a)
<1>1. a.state = "buffer" /\ Len(a.points) = 1
  BY DEF FoundOK, ArrayOK
<1>2. q = a.points[1]
  BY <1>1 DEF PointsOf
<1> QED
  BY <1>1, <1>2, SearchAssumption DEF ReusesBuffer

(* A new point brings no base snapshot and takes none away. *)
LEMMA FoundWithPoint ==
  ASSUME NEW a, ArrayOK(a), FoundOK(a), NEW time \in Times, ~HasPoint(a, time)
  PROVE  FoundOK(WithPoint(a, time)) /\ Bases(WithPoint(a, time)) = Bases(a)
<1> DEFINE new == NewPoint(time)
           b == WithPoint(a, time)
<1>1. PointsOf(b) = (IF ReusesBuffer(a) THEN {} ELSE PointsOf(a)) \cup {new}
  BY WithPointPoints DEF ArrayOK
<1>2. /\ new.time = time /\ new.time # NoTime
      /\ new.found = {}
      /\ \A s \in SegTypes : new.pebs[s] = << >>
  BY NewPointFields, SearchAssumption
<1>3. PointOK(new)
  BY <1>2 DEF PointOK
<1> HIDE DEF new, b
<1>4. \A q \in PointsOf(b) : q = new \/ (q \in PointsOf(a) /\ q.time # NoTime)
  BY <1>1, UnusedIsReused
<1>5. \A q \in PointsOf(a) : q.time # NoTime => q \in PointsOf(b)
  BY <1>1, PointsTyped
<1>6. \A q \in PointsOf(a) : "base_snapshot" \in q.found => q.time # NoTime
  BY DEF FoundOK, PointOK
<1>7. FoundOK(b)
  BY <1>2, <1>3, <1>4 DEF FoundOK, OneBase
<1>8. { r \in PointsOf(b) : "base_snapshot" \in r.found } =
        { r \in PointsOf(a) : "base_snapshot" \in r.found }
  BY <1>2, <1>4, <1>5, <1>6
<1> QED
  BY <1>7, <1>8 DEF Bases, BasesOf, b

(* Neither does merging an item into the points. *)
LEMMA FoundWithPeb ==
  ASSUME NEW P \in SUBSET PointType, NEW it \in Items,
         \A q \in P : PointOK(q), OneBase(P),
         NEW M, M = { WithPeb(q, it) : q \in P }
  PROVE  (\A q \in M : PointOK(q)) /\ OneBase(M) /\ BasesOf(M) = BasesOf(P)
<1>1. it.time \in Times /\ it.type \in SegTypes /\ it.time # NoTime
  BY SearchAssumption DEF Items
<1>2. ASSUME NEW q \in P
      PROVE  LET w == WithPeb(q, it)
             IN  /\ PointOK(w)
                 /\ w.time = q.time
                 /\ w.found \ {"peb_map"} = q.found \ {"peb_map"}
                 /\ "base_snapshot" \in w.found <=> "base_snapshot" \in q.found
  <2>1. CASE q.time # it.time
    BY <1>2, <2>1, WithPebFields
  <2>2. CASE q.time = it.time
    <3> DEFINE w == WithPeb(q, it)
    <3>1. /\ w.time = q.time /\ w.time # NoTime
          /\ w.found = q.found \cup {"peb_map"}
          /\ w.pebs[it.type] = Append(q.pebs[it.type], it)
          /\ q.pebs[it.type] \in Seq(Items)
      BY <1>1, <1>2, <2>2, WithPebFields DEF PointType
    <3>2. Append(q.pebs[it.type], it) # << >>
      BY <3>1
    <3> HIDE DEF w
    <3>3. w.found \subseteq {"peb_map"} \/ "base_snapshot" \in w.found
      BY <1>2, <3>1 DEF PointOK
    <3>4. PointOK(w)
      BY <1>1, <3>1, <3>2, <3>3 DEF PointOK
    <3> QED
      BY <3>1, <3>4 DEF w
  <2> QED
    BY <2>1, <2>2
<1>3. \A q \in M : PointOK(q)
  BY <1>2
<1>4. OneBase(M)
  BY <1>2 DEF OneBase
<1>5. BasesOf(M) = BasesOf(P)
  BY <1>2 DEF BasesOf
<1> QED
  BY <1>3, <1>4, <1>5

LEMMA FoundStep ==
  ASSUME NEW a, NEW b, ArrayOK(a), FoundOK(a), ArrayStep(a, b)
  PROVE  FoundOK(b) /\ Bases(b) = Bases(a)
<1>1. CASE b = a
  BY <1>1
<1>3. CASE \E time \in Times : ~HasPoint(a, time) /\ b = WithPoint(a, time)
  BY <1>3, FoundWithPoint
<1>4. ASSUME NEW it \in Items, b = Merged(a, it)
      PROVE  FoundOK(b) /\ Bases(b) = Bases(a)
  <2> DEFINE c == IF HasPoint(a, it.time) THEN a ELSE WithPoint(a, it.time)
  <2>1. it.time \in Times /\ it.time # NoTime
    BY <1>4, SearchAssumption DEF Items
  <2>2. FoundOK(c) /\ Bases(c) = Bases(a)
    BY <2>1, FoundWithPoint
  <2>3. /\ c \in ArrayType /\ b.state = c.state
        /\ PointsOf(b) = { WithPeb(q, it) : q \in PointsOf(c) }
    BY <1>4, MergedPoints DEF ArrayOK
  <2> HIDE DEF c
  <2>4. PointsOf(c) \in SUBSET PointType
    BY <2>3, ElementOfSeq, LenProperties DEF ArrayType, PointsOf
  <2>5. /\ \A q \in PointsOf(b) : PointOK(q)
        /\ OneBase(PointsOf(b))
        /\ Bases(b) = Bases(c)
    BY <1>4, <2>2, <2>3, <2>4, FoundWithPeb DEF FoundOK, Bases
  <2>6. \A q \in PointsOf(b) : q.time = NoTime => b.state = "buffer"
    <3>1. \A q \in PointsOf(c) : WithPeb(q, it).time = q.time
      BY <1>4, <2>4, WithPebFields
    <3> QED
      BY <2>2, <2>3, <3>1 DEF FoundOK
  <2> QED
    BY <2>2, <2>5, <2>6 DEF FoundOK
<1> QED
  BY <1>1, <1>3, <1>4 DEF ArrayStep

(* A point in use stays so, and a new one gets its first PEB at once. *)
LEMMA UsedMerged ==
  ASSUME NEW a, ArrayOK(a), UsedOK(a), NEW it \in Items
  PROVE  UsedOK(Merged(a, it))
<1> DEFINE c == IF HasPoint(a, it.time) THEN a ELSE WithPoint(a, it.time)
           b == Merged(a, it)
<1>1. it.time \in Times
  BY DEF Items
<1>2. c \in ArrayType /\ PointsOf(b) = { WithPeb(q, it) : q \in PointsOf(c) }
  BY MergedPoints DEF ArrayOK
<1>3. \A q \in PointsOf(c) : q \in PointsOf(a) \/ q = NewPoint(it.time)
  BY <1>1, WithPointPoints DEF ArrayOK
<1> HIDE DEF c, b
<1>4. PointsOf(c) \subseteq PointType
  BY <1>2, ElementOfSeq, LenProperties DEF ArrayType, PointsOf
<1>5. ASSUME NEW q \in PointsOf(c)
      PROVE  WithPeb(q, it).time = NoTime \/ WithPeb(q, it).found # {}
  <2>1. CASE q.time = it.time
    BY <1>4, <1>5, <2>1, WithPebFields
  <2>2. CASE q.time # it.time
    <3>1. q \in PointsOf(a) /\ WithPeb(q, it) = q
      BY <1>1, <1>3, <1>4, <1>5, <2>2, WithPebFields, NewPointFields
    <3> QED
      BY <3>1 DEF UsedOK
  <2> QED
    BY <2>1, <2>2
<1> QED
  BY <1>2, <1>5 DEF UsedOK, b
LEMMA InitFoundInv == Init => FoundInv
<1> SUFFICES ASSUME Init PROVE FoundInv
  OBVIOUS
<1>1. PICK p \in {NewPoint(NoTime)} \cup
              { [NewPoint(t) EXCEPT !.found = b] : t \in Times, b \in Detected } :
        array = [state |-> "buffer", points |-> <<p>>]
  BY DEF Init, InitArrays
<1>2. PointsOf(array) = {p} /\ array.state = "buffer"
  BY <1>1 DEF PointsOf
<1>3. CASE p = NewPoint(NoTime)
  <2>1. /\ p.time = NoTime /\ p.found = {}
        /\ \A s \in SegTypes : p.pebs[s] = << >>
    BY <1>3 DEF NewPoint
  <2> QED
    BY <1>2, <2>1 DEF FoundInv, FoundOK, OneBase, UsedOK, PointOK
<1>4. ASSUME NEW t \in Times, NEW b \in Detected, p = [NewPoint(t) EXCEPT !.found = b]
      PROVE  FoundInv
  <2>1. /\ p.time = t /\ p.found = b
        /\ \A s \in SegTypes : p.pebs[s] = << >>
    BY <1>4 DEF NewPoint
  <2>2. t # NoTime /\ "base_snapshot" \in b /\ "peb_map" \notin b
    BY <1>4, SearchAssumption DEF Detected, Bits
  <2>3. PointOK(p)
    BY <2>1, <2>2 DEF PointOK
  <2> QED
    BY <1>2, <2>1, <2>2, <2>3 DEF FoundInv, FoundOK, OneBase, UsedOK
<1> QED
  BY <1>1, <1>3, <1>4

LEMMA NextFoundInv ==
  ASSUME SearchInv, EndInv, FoundInv, [Next]_vars
  PROVE  /\ FoundInv'
         /\ \/ array' = array
            \/ FoundOK(array) /\ FoundOK(array') /\ Bases(array') = Bases(array)
            \/ FoundOK(array) /\ LosingStep
<1>1. ArrayOK(array) /\ (ArrayStep(array, array') \/ LosingStep)
  BY SearchArrayOK, ArrayChanges
<1>2. ASSUME res = "success", ~LosingStep
      PROVE  FoundOK(array) /\ FoundOK(array') /\ Bases(array') = Bases(array)
  BY <1>1, <1>2, FoundStep DEF FoundInv
<1>3. ASSUME res' = "success" PROVE res = "success" /\ UsedOK(array')
  <2>1. CASE array' = array /\ res = "success"
    BY <2>1 DEF FoundInv
  <2>2. CASE \E it \in Items : array' = Merged(array, it) /\ res = "success"
    BY <1>1, <2>2, UsedMerged DEF FoundInv
  <2>3. CASE MergeItem
    BY <1>3, <2>2, <2>3, NextItemType DEF MergeItem, NextItem
  <2>4. CASE MergeGarbage
    BY <1>3, <2>1, <2>2, <2>4 DEF MergeGarbage
  <2>5. CASE MergeFails
    BY <1>3, <2>5 DEF MergeFails
  <2>6. CASE \E t \in Workers : Worker(t)
    BY <1>3, <2>1, <2>6
    DEF Worker, SkipPeb, AddPeb, AddPebFails, ReadBeyondEnd, ExitThread, mainVars
  <2>7. CASE \/ AllocPool \/ AllocPoolFails \/ Spawn \/ SpawnFails
             \/ UnwindJoin \/ UnwindDone \/ AllSpawned \/ WaitJoin \/ AllJoined
    BY <1>3, <2>1, <2>7
    DEF AllocPool, AllocPoolFails, Spawn, SpawnFails, UnwindJoin, UnwindDone,
        AllSpawned, WaitJoin, AllJoined
  <2>8. CASE MergeNullMap \/ MergeNextMap \/ MergeDone
    BY <1>3, <2>1, <2>8 DEF MergeNullMap, MergeNextMap, MergeDone
  <2>9. CASE Idle \/ UNCHANGED vars
    BY <1>3, <2>1, <2>9 DEF Idle, vars
  <2> QED
    BY <2>3, <2>4, <2>5, <2>6, <2>7, <2>8, <2>9 DEF Next, Main
<1>4. FoundInv'
  <2> SUFFICES ASSUME res' = "success" PROVE (FoundOK(array) /\ UsedOK(array))'
    BY DEF FoundInv
  <2>1. FoundOK(array') /\ UsedOK(array')
    BY <1>2, <1>3 DEF LosingStep
  <2> QED BY <2>1 DEF FoundOK, OneBase, UsedOK, PointsOf, PointOK
<1>5. res # "success" => array' = array
  <2>1. res # "success" => pc \in {"unwind", "done"}
    BY DEF EndInv, SearchInv, TypeOK
  <2>2. pc \in {"unwind", "done"} => array' = array
    BY DEF Next, Main, Idle, vars, Worker, SkipPeb, AddPeb, AddPebFails, ReadBeyondEnd,
           ExitThread, mainVars, AllocPool, AllocPoolFails, Spawn, SpawnFails, UnwindJoin,
           UnwindDone, AllSpawned, WaitJoin, AllJoined, MergeItem, MergeGarbage, MergeFails,
           MergeNullMap, MergeNextMap, MergeDone
  <2> QED BY <2>1, <2>2
<1> QED
  BY <1>2, <1>4, <1>5 DEF FoundInv

-----------------------------------------------------------------------------
(* The refinement *)

(* The base point, as a function of the array. *)
BaseIn(a) ==
  LET known == { k \in DOMAIN a.points : "base_snapshot" \in a.points[k].found }
  IN  IF known = {} THEN [time |-> NoTime, found |-> {}]
      ELSE LET p == a.points[CHOOSE k \in known : TRUE]
           IN  [time |-> p.time, found |-> p.found \ {"peb_map"}]

(* It is the one base of the array. *)
LEMMA BaseInIs ==
  ASSUME NEW a, ArrayOK(a), FoundOK(a)
  PROVE  /\ Bases(a) = {} => BaseIn(a) = [time |-> NoTime, found |-> {}]
         /\ Bases(a) # {} => Bases(a) = {BaseIn(a)}
<1> DEFINE known == { k \in DOMAIN a.points :
                        "base_snapshot" \in a.points[k].found }
           B == { r \in PointsOf(a) : "base_snapshot" \in r.found }
           View(q) == [time |-> q.time, found |-> q.found \ {"peb_map"}]
           k0 == CHOOSE k \in known : TRUE
<1>1. DOMAIN a.points = 1 .. Len(a.points)
  BY LenProperties DEF ArrayOK, ArrayType
<1>2. B = { a.points[k] : k \in known }
  BY <1>1 DEF PointsOf
<1>3. Bases(a) = { View(q) : q \in B }
  BY DEF Bases, BasesOf
<1>4. BaseIn(a) = IF known = {} THEN [time |-> NoTime, found |-> {}]
                  ELSE View(a.points[k0])
  BY DEF BaseIn
<1>5. \A q, r \in B : q = r
  BY DEF FoundOK, OneBase
<1>6. known # {} => k0 \in known
  OBVIOUS
<1> HIDE DEF known, B, View, k0
<1>7. CASE known = {}
  BY <1>2, <1>3, <1>4, <1>7
<1>8. CASE known # {}
  <2>1. a.points[k0] \in B
    BY <1>2, <1>6, <1>8
  <2>2. B = {a.points[k0]}
    BY <1>5, <2>1
  <2> QED
    BY <1>3, <1>4, <1>8, <2>2
<1> QED
  BY <1>7, <1>8

LEMMA BasePointIs ==
  ASSUME ArrayOK(array), FoundOK(array)
  PROVE  /\ Bases(array) = {} => BasePoint = [time |-> NoTime, found |-> {}]
         /\ Bases(array) # {} => Bases(array) = {BasePoint}
<1>1. BasePoint = BaseIn(array)
  BY DEF BasePoint, BaseIn
<1> QED
  BY <1>1, BaseInIs

(* The volumes of which the points have PEBs. *)
SeenTimes == { q.time : q \in { r \in PointsOf(array) : "peb_map" \in r.found } }

(* The last point is the newest one, and tells what was found of it. *)
LEMMA NewestIsLast ==
  ASSUME ArrayOK(array), FoundInv, res = "success"
  PROVE  LET p == array.points[Len(array.points)]
         IN  Abstract!NewestOf(SeenTimes) = [time |-> p.time, found |-> p.found]
<1> DEFINE n == Len(array.points)
           p == array.points[n]
           P == PointsOf(array)
           S == SeenTimes \cup Abstract!Known
<1>1. /\ n \in Nat /\ n > 0 /\ p \in P /\ P \subseteq PointType
      /\ \A q, r \in P : q.time = r.time => q = r
  BY LenProperties, PointsTyped DEF ArrayOK, ArrayType, PointsOf
<1>2. \A q \in P : q.time \in Int /\ q.time <= p.time
  <2>1. \A q \in P : q.time \in Int
    BY <1>1, PointTime
  <2>2. ASSUME NEW k \in 1 .. n PROVE array.points[k].time <= p.time
    <3>1. array.points[k] \in P
      BY <2>2 DEF PointsOf
    <3>2. CASE k = n
      BY <1>1, <2>1, <3>2
    <3>3. CASE k < n
      <4>1. array.points[k].time < p.time
        BY <1>1, <2>2, <3>3 DEF ArrayOK, Ordered
      <4> QED
        BY <1>1, <2>1, <3>1, <4>1
    <3> QED
      BY <1>1, <2>2, <3>2, <3>3
  <2> QED
    BY <2>1, <2>2 DEF PointsOf
<1>3. \A q \in P : PointOK(q) /\ (q.time = NoTime \/ q.found # {})
  BY DEF FoundInv, FoundOK, UsedOK
<1> HIDE DEF p, n
<1>4. CASE p.time = NoTime
  <2>1. P = {p} /\ p.found = {}
    <3>1. ReusesBuffer(array)
      BY <1>1, <1>4, UnusedIsReused DEF FoundInv
    <3>2. \A q \in P : q.time = NoTime
      BY <3>1, PointsTyped
    <3> QED
      BY <1>1, <1>3, <1>4, <3>2 DEF PointOK
  <2>2. SeenTimes = {} /\ Bases(array) = {}
    BY <2>1 DEF SeenTimes, Bases, BasesOf
  <2>3. BasePoint = [time |-> NoTime, found |-> {}]
    BY <2>2, BasePointIs DEF FoundInv
  <2>4. S = {}
    BY <2>2, <2>3 DEF Abstract!Known
  <2> QED
    BY <1>4, <2>1, <2>3, <2>4 DEF Abstract!NewestOf, p, n
<1>5. CASE p.time # NoTime
  <2>1. \A q \in P : q.time # NoTime
    <3>1. ASSUME NEW q \in P, q.time = NoTime PROVE FALSE
      <4>1. ReusesBuffer(array)
        BY <3>1, UnusedIsReused DEF FoundInv
      <4> QED
        BY <1>1, <1>5, <4>1, PointsTyped
    <3> QED
      BY <3>1
  <2>2. Bases(array) # {} => \E q \in P :
          /\ "base_snapshot" \in q.found
          /\ BasePoint = [time |-> q.time, found |-> q.found \ {"peb_map"}]
    BY BasePointIs DEF FoundInv, Bases, BasesOf
  <2>3. \A q \in P : "base_snapshot" \in q.found =>
          /\ BasePoint = [time |-> q.time, found |-> q.found \ {"peb_map"}]
          /\ BasePoint.time = q.time
          /\ BasePoint.found = q.found \ {"peb_map"}
    <3>1. ASSUME NEW q \in P, "base_snapshot" \in q.found
          PROVE  [time |-> q.time, found |-> q.found \ {"peb_map"}] \in Bases(array)
      BY <3>1 DEF Bases, BasesOf
    <3>2. \A q \in P : "base_snapshot" \in q.found =>
            BasePoint = [time |-> q.time, found |-> q.found \ {"peb_map"}]
      BY <3>1, BasePointIs DEF FoundInv
    <3> QED
      BY <3>2
  <2>4. Bases(array) = {} => BasePoint.time = NoTime
    BY BasePointIs DEF FoundInv
  <2>5. ASSUME NEW v \in S PROVE \E q \in P : v = q.time
    <3>1. CASE v \in SeenTimes
      BY <3>1 DEF SeenTimes
    <3>2. CASE v \in Abstract!Known
      <4>1. v = BasePoint.time /\ BasePoint.time # NoTime
        BY <3>2 DEF Abstract!Known
      <4> QED
        BY <2>2, <2>3, <2>4, <4>1
    <3> QED
      BY <2>5, <3>1, <3>2
  <2>6. p.time \in S
    <3>1. CASE "peb_map" \in p.found
      BY <1>1, <3>1 DEF SeenTimes
    <3>2. CASE "peb_map" \notin p.found
      <4>1. "base_snapshot" \in p.found
        BY <1>1, <1>3, <1>5, <3>2 DEF PointOK
      <4> QED
        BY <1>1, <1>5, <2>3, <4>1 DEF Abstract!Known
    <3> QED
      BY <3>1, <3>2
  <2> DEFINE t == CHOOSE u \in S : \A v \in S : v <= u
  <2>7. t = p.time
    <3>1. \A v \in S : v \in Int /\ v <= p.time
      BY <1>2, <2>5
    <3> HIDE DEF S
    <3>2. t \in S /\ \A v \in S : v <= t
      BY <2>6, <3>1
    <3> HIDE DEF t
    <3>3. t <= p.time /\ p.time <= t /\ t \in Int /\ p.time \in Int
      BY <2>6, <3>1, <3>2
    <3> QED
      BY <3>3
  <2>8. Abstract!NewestOf(SeenTimes) =
          [time |-> t,
           found |-> (IF t = BasePoint.time THEN BasePoint.found ELSE {})
                     \cup (IF t \in SeenTimes THEN {"peb_map"} ELSE {})]
    BY <2>6 DEF Abstract!NewestOf
  <2> HIDE DEF t
  <2>9. t \in SeenTimes <=> "peb_map" \in p.found
    BY <1>1, <2>7 DEF SeenTimes
  <2>10. CASE "base_snapshot" \in p.found
    <3>1. BasePoint.time = t /\ BasePoint.found = p.found \ {"peb_map"}
      BY <1>1, <2>3, <2>7, <2>10
    <3> QED
      BY <2>7, <2>8, <2>9, <3>1 DEF p, n
  <2>11. CASE "base_snapshot" \notin p.found
    <3>1. BasePoint.time # t
      BY <1>1, <1>5, <2>2, <2>3, <2>4, <2>7, <2>11
    <3>2. p.found \subseteq {"peb_map"}
      BY <1>1, <1>3, <2>11 DEF PointOK
    <3>3. p.found = IF t \in SeenTimes THEN {"peb_map"} ELSE {}
      BY <2>9, <3>2
    <3> QED
      BY <2>7, <2>8, <3>1, <3>3 DEF p, n
  <2> QED
    BY <2>10, <2>11
<1> QED
  BY <1>4, <1>5

(* With memory enough, the points with PEBs are the volumes of the device. *)
LEMMA SeenTimesComplete ==
  ASSUME CompleteInv, FoundInv, Merging, i = Capacity, ~oom
  PROVE  SeenTimes = Abstract!OnDevice
<1> DEFINE P == PointsOf(array)
<1>1. Records(P, Seen) /\ Seen = { p \in Pebs : vol[p] \in Headers }
  BY AllSeen DEF CompleteInv, RecordInv
<1>2. P \subseteq PointType /\ \A q \in P : PointOK(q)
  <2>1. res = "success"
    BY DEF CompleteInv, EndInv, Merging, SearchInv, TypeOK
  <2> QED BY <2>1, SearchArrayOK, PointsTyped DEF CompleteInv, FoundInv, FoundOK
<1>3. Abstract!OnDevice = { vol[p].time : p \in Seen }
  BY <1>1 DEF Abstract!OnDevice, Pebs
<1>4. \A q \in PointType, s \in SegTypes :
        /\ q.pebs[s] \in Seq(Items) /\ Len(q.pebs[s]) \in Nat
        /\ q.pebs[s] = << >> <=> Len(q.pebs[s]) = 0
  BY LenProperties, EmptySeq DEF PointType
<1> HIDE DEF P
<1>5. ASSUME NEW q \in P, "peb_map" \in q.found
      PROVE  \E p \in Seen : q.time = vol[p].time
  <2>1. PICK s \in SegTypes : q.pebs[s] # << >>
    BY <1>2, <1>5 DEF PointOK
  <2>2. 1 \in 1 .. Len(q.pebs[s])
    BY <1>2, <1>4, <2>1
  <2> QED
    BY <1>1, <2>2 DEF Records
<1>6. ASSUME NEW p \in Seen
      PROVE  \E q \in P : "peb_map" \in q.found /\ q.time = vol[p].time
  <2> DEFINE s == vol[p].type
  <2>1. PICK q \in P : /\ q.time = vol[p].time
                       /\ \E n \in 1 .. Len(q.pebs[s]) : q.pebs[s][n].peb = p
    BY <1>1, <1>6 DEF Records
  <2>2. s \in SegTypes
    BY <1>1, <1>6, SearchAssumption
  <2>3. q.pebs[s] # << >>
    BY <1>2, <1>4, <2>1, <2>2
  <2> QED
    BY <1>2, <2>1, <2>2, <2>3 DEF PointOK
<1> QED
  BY <1>3, <1>5, <1>6 DEF SeenTimes, P
(* The search ends once: a step from an ended search changes nothing. *)
LEMMA EndsOnce ==
  ASSUME SearchInv, [Next]_vars, pc \in {"done", "crashed"}
  PROVE  UNCHANGED vars
<1>1. \A t \in Workers : ~Worker(t)
  BY DEF SearchInv, JoinInv, JoinedBeforeFree, Worker, SkipPeb, AddPeb, AddPebFails,
         ReadBeyondEnd, ExitThread, HasWork
<1>2. ~Main
  BY DEF Main, AllocPool, AllocPoolFails, Spawn, SpawnFails, UnwindJoin, UnwindDone,
         AllSpawned, WaitJoin, AllJoined, MergeItem, MergeGarbage, MergeFails,
         MergeNullMap, MergeNextMap, MergeDone
<1> QED
  BY <1>1, <1>2 DEF Next, Idle

(* How it ends: with success only when all maps are merged. *)
LEMMA HowItEnds ==
  ASSUME CompleteInv, [Next]_vars, pc \notin {"done", "crashed"}
  PROVE  /\ vol' = vol
         /\ pc' = "done" /\ res' = "success" =>
              /\ pc = "merge" /\ i = Capacity /\ res = "success"
              /\ array' = array /\ oom' = oom
<1>1. CASE \E t \in Workers : Worker(t)
  BY <1>1 DEF Worker, SkipPeb, AddPeb, AddPebFails, ReadBeyondEnd, ExitThread, mainVars
<1>2. CASE \/ AllocPool \/ AllocPoolFails \/ Spawn \/ SpawnFails
           \/ UnwindJoin \/ UnwindDone \/ AllSpawned \/ WaitJoin \/ AllJoined
  BY <1>2 DEF AllocPool, AllocPoolFails, Spawn, SpawnFails, UnwindJoin, UnwindDone,
              AllSpawned, WaitJoin, AllJoined, CompleteInv, EndInv
<1>3. CASE \/ MergeItem \/ MergeGarbage \/ MergeFails \/ MergeNullMap
           \/ MergeNextMap \/ MergeDone
  BY <1>3 DEF MergeItem, MergeGarbage, MergeFails, MergeNullMap, MergeNextMap, MergeDone
<1>4. CASE Idle \/ UNCHANGED vars
  BY <1>4 DEF Idle, vars
<1> QED
  BY <1>1, <1>2, <1>3, <1>4 DEF Next, Main

RefineInv == CompleteInv /\ FoundInv

(* Every step of the search is a step of VolumeSearch or changes nothing   *)
(* that VolumeSearch knows of.                                             *)
LEMMA StepRefines ==
  ASSUME RefineInv, RefineInv', [Next]_vars
  PROVE  [Abstract!SearchNext]_(Abstract!searchVars)
<1> DEFINE Outcome == IF pc = "done" THEN res ELSE IF pc = "crashed" THEN pc
                      ELSE "pending"
<1>1. SearchInv /\ TypeOK' /\ ArrayOK(array) /\ ArrayOK(array')
  BY SearchArrayOK DEF RefineInv, CompleteInv, SearchInv, FoundInv, TypeOK,
         ArrayInv, PointsSorted, ArrayOK, ArrayType, Ordered
<1>2. \/ BasePoint' = BasePoint
      \/ BasePoint' = [time |-> NoTime, found |-> {}] /\ LosingStep
  <2>1. \/ array' = array
        \/ FoundOK(array) /\ FoundOK(array') /\ Bases(array') = Bases(array)
        \/ LosingStep
    BY NextFoundInv DEF RefineInv, CompleteInv
  <2>2. BasePoint = BaseIn(array) /\ BasePoint' = BaseIn(array')
    BY DEF BasePoint, BaseIn
  <2>3. CASE FoundOK(array) /\ FoundOK(array') /\ Bases(array') = Bases(array)
    <3>1. /\ Bases(array) = {} => BaseIn(array) = [time |-> NoTime, found |-> {}]
          /\ Bases(array) # {} => Bases(array) = {BaseIn(array)}
      BY <1>1, <2>3, BaseInIs
    <3>2. /\ Bases(array') = {} => BaseIn(array') = [time |-> NoTime, found |-> {}]
          /\ Bases(array') # {} => Bases(array') = {BaseIn(array')}
      BY <1>1, <2>3, BaseInIs
    <3> QED BY <2>2, <2>3, <3>1, <3>2
  <2>4. CASE array' = LostPoints
    <3>1. "base_snapshot" \notin NewPoint(NoTime).found
      BY NewPointFields DEF NewPoint
    <3>2. BaseIn(LostPoints) = [time |-> NoTime, found |-> {}]
      BY <3>1 DEF BaseIn, LostPoints
    <3> QED BY <2>1, <2>2, <2>3, <2>4, <3>2
  <2>5. ASSUME NEW it \in Items, array' = WithoutMap(array, it)
        PROVE  BasePoint' = BasePoint
    <3> DEFINE b == WithoutMap(array, it)
    <3>1. /\ DOMAIN b.points = DOMAIN array.points
          /\ \A k \in DOMAIN array.points : /\ b.points[k].time = array.points[k].time
                                           /\ b.points[k].found = array.points[k].found
      BY <1>1, <2>5, WithoutMapSorted DEF ArrayOK, ArrayType
    <3> HIDE DEF b
    <3> DEFINE known(a) == { k \in DOMAIN a.points : "base_snapshot" \in a.points[k].found }
    <3>2. known(b) = known(array)
      BY <3>1
    <3>3. known(array) # {} => (CHOOSE k \in known(array) : TRUE) \in DOMAIN array.points
      OBVIOUS
    <3>4. BaseIn(b) = BaseIn(array)
      BY <3>1, <3>2, <3>3 DEF BaseIn
    <3> QED BY <2>2, <2>5, <3>4 DEF b
  <2> QED
    BY <2>1, <2>2, <2>3, <2>4, <2>5 DEF LosingStep
<1>3. CASE pc \in {"done", "crashed"}
  <2>1. UNCHANGED vars
    BY <1>1, <1>3, EndsOnce
  <2> QED
    BY <2>1 DEF vars, Abstract!searchVars, NewestPoint, Over, BasePoint
<1>4. CASE pc \notin {"done", "crashed"} /\ pc' \notin {"done", "crashed"}
  <2>1. vol' = vol
    BY <1>4, HowItEnds DEF RefineInv
  <2> QED
    BY <1>2, <1>4, <2>1 DEF Abstract!searchVars, NewestPoint, Over, LosingStep
<1>5. CASE /\ pc \notin {"done", "crashed"}
           /\ pc' = "crashed" \/ (pc' = "done" /\ res' = "failure")
  <2>1. vol' = vol /\ MayFailAlloc /\ oom' \in BOOLEAN
    BY <1>1, <1>5, HowItEnds DEF RefineInv, CompleteInv, EndInv, TypeOK
  <2>2. NewestPoint' = NewestPoint
    BY <1>5 DEF NewestPoint
  <2>3. Abstract!Fail
    BY <1>2, <1>5, <2>1, <2>2 DEF Abstract!Fail, Abstract!Unknown, Over, LosingStep
  <2> QED
    BY <2>3 DEF Abstract!SearchNext
<1>6. CASE pc \notin {"done", "crashed"} /\ pc' = "done" /\ res' = "success"
  <2>0. BasePoint' = BasePoint
    BY <1>2, <1>6 DEF LosingStep
  <2>1. /\ pc = "merge" /\ i = Capacity /\ res = "success"
        /\ array' = array /\ oom' = oom /\ vol' = vol
    BY <1>6, HowItEnds DEF RefineInv
  <2>2. NewestPoint' = Abstract!NewestOf(SeenTimes)
    BY <1>1, <1>6, <2>1, NewestIsLast DEF NewestPoint, RefineInv
  <2>3. CASE ~oom
    <3>1. SeenTimes = Abstract!OnDevice
      BY <2>1, <2>3, SeenTimesComplete DEF RefineInv, Merging
    <3>2. Abstract!Found
      BY <2>0, <1>6, <2>1, <2>2, <2>3, <3>1 DEF Abstract!Found, Over
    <3> QED
      BY <3>2 DEF Abstract!SearchNext
  <2>4. CASE oom
    <3>1. MayFailAlloc
      BY <2>4 DEF RefineInv, CompleteInv, EndInv
    <3>2. SeenTimes \in SUBSET Times
      <4>1. PointsOf(array) \subseteq PointType
        BY <1>1, PointsTyped
      <4>2. \A q \in PointsOf(array) : "peb_map" \in q.found => q.time \in Times
        BY <2>1, <4>1 DEF RefineInv, FoundInv, FoundOK, PointOK, PointType
      <4> QED
        BY <4>2 DEF SeenTimes
    <3>3. Abstract!FoundPart
      BY <2>0, <1>6, <2>1, <2>2, <2>4, <3>1, <3>2 DEF Abstract!FoundPart, Over
    <3> QED
      BY <3>3 DEF Abstract!SearchNext
  <2> QED
    BY <2>3, <2>4
<1>7. res' \in {"success", "failure"}
  BY <1>1 DEF TypeOK
<1> QED
  BY <1>3, <1>4, <1>5, <1>6, <1>7

(* The search with its pool of threads, its maps and its merge implements  *)
(* VolumeSearch (ImplementsSearch): for every number of threads, device    *)
(* and interleaving it does in effect one step, which names the newest     *)
(* volume of the device unless memory ran out (execute_whole_volume_search *)
(* as detect_file_system uses it).                                         *)
THEOREM SearchRefines == Spec => ImplementsSearch
<1>1. Init => RefineInv /\ Abstract!Pending
  <2>1. Init => RefineInv
    <3>1. Init => EndInv
      BY DEF Init, EndInv, Merging
    <3> QED
      BY <3>1, InitSearchInv, InitWorkerInv, InitRecordInv, InitFoundInv
      DEF RefineInv, CompleteInv
  <2>2. Init => Abstract!Pending
    BY DEF Init, Abstract!Pending, Abstract!Unknown, NewestPoint, Over
  <2> QED
    BY <2>1, <2>2
<1>2. CompleteInv /\ FoundInv /\ [Next]_vars => FoundInv'
  BY NextFoundInv DEF CompleteInv
<1>3. Spec => []RefineInv
  <2>1. RefineInv <=> CompleteInv /\ FoundInv
    BY DEF RefineInv
  <2> QED
    BY <1>1, <1>2, <2>1, CompleteInvariant, PTL DEF Spec
<1>4. RefineInv /\ RefineInv' /\ [Next]_vars =>
        [Abstract!SearchNext]_(Abstract!searchVars)
  BY StepRefines
<1> QED
  BY <1>1, <1>3, <1>4, PTL DEF Spec, ImplementsSearch
=============================================================================
