---------------------------- MODULE LastLogProof ----------------------------
(***************************************************************************)
(* The search for the newest log of a metadata PEB, proved for PEBs of     *)
(* every size and every content: it ends on the last full log, and on a    *)
(* regular PEB it reads no page of the next PEB.                           *)
(***************************************************************************)
EXTENDS LastLog, Integers, TLAPS

(* Multiples of a log length are at least that length apart. *)
LEMMA MultiplesApart ==
  ASSUME NEW a \in Nat, NEW b \in Nat, NEW n \in Nat \ {0},
         a % n = 0, b % n = 0
  PROVE  /\ (a + n) % n = 0
         /\ a < b => a + n <= b
<1>1. \A x \in Int : x = n * (x \div n) + (x % n)
  BY SMT
<1>2. a \div n \in Int /\ b \div n \in Int
  BY SMT
<1> DEFINE p == a \div n
           q == b \div n
<1>3. a = n * p /\ b = n * q
  BY <1>1
<1>4. p \in Int /\ q \in Int
  BY <1>2
<1> HIDE DEF p, q
<1>5. (a + n) % n = 0
  <2>1. (a + n) % n \in 0 .. n - 1
    BY SMT
  <2>2. a + n = n * ((a + n) \div n) + ((a + n) % n)
    BY <1>1
  <2>3. (a + n) \div n \in Int
    BY SMT
  <2> DEFINE r == (a + n) % n
             s == (a + n) \div n
  <2>4. n * (p + 1) = n * s + r
    BY <1>3, <1>4, <2>2
  <2>5. r \in 0 .. n - 1 /\ s \in Int
    BY <2>1, <2>3
  <2> HIDE DEF r, s
  <2>6. r = n * (p + 1 - s)
    BY <1>4, <2>4, <2>5
  <2>7. p + 1 - s >= 1 => r >= n
    BY <1>4, <2>5, <2>6
  <2>8. p + 1 - s <= -1 => r < 0
    BY <1>4, <2>5, <2>6
  <2>9. p + 1 - s = 0
    BY <1>4, <2>5, <2>7, <2>8
  <2>10. r = 0
    BY <2>6, <2>9
  <2> QED
    BY <2>10 DEF r
<1>6. a < b => a + n <= b
  <2> SUFFICES ASSUME a < b PROVE a + n <= b
    OBVIOUS
  <2>1. p < q
    BY <1>3, <1>4, SMT
  <2>2. n * (p + 1) <= n * q
    BY <1>4, <2>1, SMT
  <2> QED
    BY <1>3, <1>4, <2>2
<1> QED
  BY <1>5, <1>6

-----------------------------------------------------------------------------
(* The full logs *)

LogLen == page[0].len

(* What every page holds, and that the caller has found a header at 0. *)
PageInv ==
  /\ page \in [0 .. Pages - 1 -> SegHeaders \cup OtherPages]
  /\ page[0].kind = "seg"

LastFull(k) == k \in FullLogs /\ \A j \in FullLogs : j <= k

(***************************************************************************)
(* The inductive invariant.  While full logs are stepped over, the log is  *)
(* one of them and cur is one stride behind it; when that search ends, no  *)
(* full log follows.  The partial search stays in the last full log.       *)
(***************************************************************************)
FullInv ==
  /\ pc = "full" => start = 0
  /\ pc \in {"full_scan", "partial"} =>
       /\ start \in FullLogs
       /\ LogLen > 0
       /\ full = LogLen
       /\ cur = start + LogLen
  /\ pc = "full_scan" => cur < Pages
  /\ pc = "partial" => LastFull(start)

PartialInv ==
  pc = "partial_scan" =>
    \E k \in FullLogs :
      /\ LastFull(k)
      /\ start \in Nat /\ cur \in Nat
      /\ LogLen > 0
      /\ k <= start /\ start <= cur /\ cur < window
      /\ window = k + page[k].len

DoneInv ==
  /\ pc \in {"full", "full_scan", "partial", "partial_scan", "done", "abort", "spin"}
  /\ pc = "done" /\ res = "success" =>
       \E k \in FullLogs : /\ LastFull(k)
                           /\ k <= start
                           /\ start = k \/ start < k + page[k].len

LastLogInv == PageInv /\ FullInv /\ PartialInv /\ DoneInv /\ StaysInPeb

(* Lengths are natural numbers, whatever the page holds. *)
LEMMA PageTypes ==
  ASSUME PageInv
  PROVE  \A k \in 0 .. Pages - 1 :
           /\ page[k].len \in Nat
           /\ page[k].bytes \in Nat
           /\ page[k].kind \in {"seg", "partial", "empty", "unreadable"}
           /\ page[k].foot \in {"ok", "none", "unreadable", "beyond"}
<1>1. Pages \in Nat \ {0} /\ LogPages \subseteq Nat /\ MaxLen \in Nat
  BY LastLogAssumption
<1>2. 0 .. MaxLen \subseteq Nat /\ {0} \subseteq Nat
  BY <1>1
<1>3. \A h \in SegHeaders \cup OtherPages :
        /\ h.len \in Nat
        /\ h.bytes \in Nat
        /\ h.kind \in {"seg", "partial", "empty", "unreadable"}
        /\ h.foot \in {"ok", "none", "unreadable", "beyond"}
  BY <1>1, <1>2 DEF SegHeaders, OtherPages
<1> QED
  BY <1>3 DEF PageInv

(* A page behind the PEB holds what a page of another PEB may hold. *)
LEMMA HoldsTypes ==
  ASSUME PageInv, NEW k \in Nat, NEW h \in Holds(k)
  PROVE  h.len \in Nat
<1>1. MaxLen \in Nat
  BY LastLogAssumption
<1>2. 0 .. MaxLen \subseteq Nat /\ {0} \subseteq Nat
  BY <1>1
<1>3. \A g \in OtherPages : g.len \in Nat
  BY <1>2 DEF OtherPages
<1>4. CASE k < Pages
  <2>1. k \in 0 .. Pages - 1
    BY <1>4, LastLogAssumption
  <2> QED
    BY <1>4, <2>1, PageTypes DEF Holds
<1>5. CASE ~(k < Pages)
  BY <1>3, <1>5 DEF Holds
<1> QED
  BY <1>4, <1>5

(* The header at 0 is a full log. *)
LEMMA FirstFullLog ==
  ASSUME PageInv, LogLen > 0
  PROVE  0 \in FullLogs /\ LogLen \in Nat \ {0}
<1>1. Pages \in Nat \ {0} /\ 0 \in 0 .. Pages - 1
  BY LastLogAssumption
<1>2. LogLen \in Nat \ {0}
  BY <1>1, PageTypes DEF LogLen
<1>3. 0 % LogLen = 0
  BY <1>2
<1>4. \A j \in 0 .. 0 : j = 0
  OBVIOUS
<1> QED
  BY <1>1, <1>2, <1>3, <1>4 DEF FullLogs, LogLen, PageInv

(* A header one stride behind a full log is a full log. *)
LEMMA NextFullLog ==
  ASSUME PageInv, LogLen > 0, NEW k \in FullLogs,
         k + LogLen < Pages, page[k + LogLen].kind = "seg"
  PROVE  k + LogLen \in FullLogs
<1>1. Pages \in Nat \ {0} /\ LogLen \in Nat \ {0}
  BY LastLogAssumption, FirstFullLog
<1>2. /\ k \in Nat /\ k % LogLen = 0
      /\ \A j \in 0 .. k : j % LogLen = 0 => page[j].kind = "seg"
  BY <1>1 DEF FullLogs, LogLen
<1>3. (k + LogLen) % LogLen = 0
  BY <1>1, <1>2, MultiplesApart
<1>4. ASSUME NEW j \in 0 .. k + LogLen, j % LogLen = 0
      PROVE  page[j].kind = "seg"
  <2>0. j \in Nat
    BY <1>1, <1>2
  <2>1. k < j => k + LogLen <= j
    BY <1>1, <1>2, <1>4, <2>0, MultiplesApart
  <2>2. j \in 0 .. k \/ j = k + LogLen
    BY <1>1, <1>2, <2>0, <2>1
  <2> QED
    BY <1>2, <1>4, <2>2
<1>5. k + LogLen \in 0 .. Pages - 1
  BY <1>1, <1>2
<1> QED
  BY <1>3, <1>4, <1>5 DEF FullLogs, LogLen

(* A full log with no header one stride behind it is the last one. *)
LEMMA NoFullLogBehind ==
  ASSUME PageInv, LogLen > 0, NEW k \in FullLogs,
         k + LogLen >= Pages \/ page[k + LogLen].kind # "seg"
  PROVE  LastFull(k)
<1>1. Pages \in Nat \ {0} /\ LogLen \in Nat \ {0}
  BY LastLogAssumption, FirstFullLog
<1>2. k \in Nat /\ k % LogLen = 0
  BY <1>1 DEF FullLogs, LogLen
<1>3. (k + LogLen) % LogLen = 0
  BY <1>1, <1>2, MultiplesApart
<1> SUFFICES ASSUME NEW j \in FullLogs, j > k PROVE FALSE
  <2>1. \A j \in FullLogs : j \in Nat
    BY <1>1 DEF FullLogs
  <2> QED
    BY <1>2, <2>1 DEF LastFull
<1>4. /\ j \in 0 .. Pages - 1 /\ j % LogLen = 0
      /\ \A m \in 0 .. j : m % LogLen = 0 => page[m].kind = "seg"
  BY DEF FullLogs, LogLen
<1>5. k + LogLen <= j
  <2>1. j \in Nat /\ k < j
    BY <1>1, <1>2, <1>4
  <2> QED
    BY <1>1, <1>2, <1>4, <2>1, MultiplesApart
<1>6. k + LogLen \in 0 .. j /\ k + LogLen < Pages
  BY <1>1, <1>2, <1>4, <1>5
<1> QED
  BY <1>1, <1>2, <1>3, <1>4, <1>6

(* On a regular PEB the last full log ends inside the PEB. *)
LEMMA RegularFits ==
  ASSUME PageInv, Regular, NEW k \in FullLogs
  PROVE  k + page[k].len <= Pages
<1>1. Pages \in Nat \ {0} /\ LogLen \in Nat \ {0}
  BY LastLogAssumption, FirstFullLog DEF Regular, LogLen
<1>2. /\ k \in 0 .. Pages - 1 /\ k % LogLen = 0
      /\ \A j \in 0 .. k : j % LogLen = 0 => page[j].kind = "seg"
  BY <1>1 DEF FullLogs, LogLen
<1>3. k \in Nat /\ k \in 0 .. k /\ k < Pages
  BY <1>1, <1>2
<1>4. page[k].kind = "seg"
  BY <1>2, <1>3
<1>5. page[k].len = LogLen /\ Pages % LogLen = 0
  BY <1>2, <1>4 DEF Regular, LogLen
<1> QED
  BY <1>1, <1>2, <1>3, <1>5, MultiplesApart

-----------------------------------------------------------------------------
(* The invariant is inductive *)

(* While the PEB stays as it is, so do its full logs. *)
LEMMA SamePage ==
  ASSUME page' = page
  PROVE  /\ FullLogs' = FullLogs
         /\ LogLen' = LogLen
         /\ Regular' = Regular
         /\ PageInv => PageInv'
         /\ \A k : LastFull(k) => LastFull(k)'
BY DEF FullLogs, LogLen, Regular, PageInv, LastFull

LEMMA InitLastLog ==
  ASSUME Init
  PROVE  LastLogInv
BY DEF Init, LastLogInv, PageInv, FullInv, PartialInv, DoneInv, StaysInPeb

(* The steps that look for the last full log. *)
LEMMA FullStep ==
  ASSUME LastLogInv, ZeroLogPages \/ StartFull \/ NextFull \/ EndOfFull
  PROVE  LastLogInv'
<1> USE DEF LastLogInv
<1>1. Pages \in Nat \ {0}
  BY LastLogAssumption
<1>2. page' = page /\ outside' = outside /\ window' = window
  BY DEF ZeroLogPages, StartFull, NextFull, EndOfFull
<1>3. PageInv' /\ StaysInPeb'
  BY <1>2, SamePage DEF StaysInPeb
<1>4. \A k \in FullLogs : k \in 0 .. Pages - 1
  BY DEF FullLogs
<1>5. CASE ZeroLogPages
  BY <1>3, <1>5 DEF ZeroLogPages, FullInv, PartialInv, DoneInv
<1>6. CASE StartFull
  <2>1. start = 0 /\ LogLen > 0 /\ full' = LogLen /\ cur' = LogLen /\ start' = 0
    <3>1. start = 0
      BY <1>6 DEF StartFull, FullInv
    <3>2. page[0].len \in Nat
      BY <1>1, PageTypes
    <3> QED
      BY <1>6, <3>1, <3>2 DEF StartFull, LogLen
  <2>2. 0 \in FullLogs /\ LogLen \in Nat \ {0}
    BY <2>1, FirstFullLog
  <2>3. pc' = "partial" => LastFull(0)
    <3>1. pc' = "partial" => 0 + LogLen >= Pages
      BY <1>1, <1>6, <2>1, <2>2 DEF StartFull, Finish
    <3> QED
      BY <2>1, <2>2, <3>1, NoFullLogBehind
  <2>4. /\ pc' \in {"done", "partial", "full_scan"}
        /\ pc' = "done" => res' = "failure"
        /\ pc' = "full_scan" => cur' < Pages
    BY <1>6 DEF StartFull, Finish
  <2>5. FullInv'
    BY <1>2, <2>1, <2>2, <2>3, <2>4, SamePage DEF FullInv
  <2>6. PartialInv' /\ DoneInv'
    BY <2>4 DEF PartialInv, DoneInv
  <2> QED
    BY <1>3, <2>5, <2>6
<1>7. CASE NextFull
  <2>1. /\ start \in FullLogs /\ LogLen > 0 /\ full = LogLen
        /\ cur = start + LogLen /\ cur < Pages
    BY <1>7 DEF NextFull, FullInv
  <2>2. start \in Nat /\ LogLen \in Nat \ {0}
    BY <1>1, <1>4, <2>1, FirstFullLog
  <2>3. cur \in FullLogs
    BY <1>7, <2>1, NextFullLog DEF NextFull
  <2>4. /\ start' = cur /\ cur' = cur + LogLen /\ full' = LogLen
        /\ pc' \in {"full_scan", "partial"}
        /\ pc' = "full_scan" => cur' < Pages
        /\ pc' = "partial" => ~(cur' < Pages)
    BY <1>7, <2>1 DEF NextFull
  <2>5. pc' = "partial" => LastFull(cur)
    <3>1. pc' = "partial" => cur + LogLen >= Pages
      BY <1>1, <2>1, <2>2, <2>4
    <3> QED
      BY <2>1, <2>3, <3>1, NoFullLogBehind
  <2>6. FullInv'
    BY <1>2, <2>1, <2>3, <2>4, <2>5, SamePage DEF FullInv
  <2>7. PartialInv' /\ DoneInv'
    BY <2>4 DEF PartialInv, DoneInv
  <2> QED
    BY <1>3, <2>6, <2>7
<1>8. CASE EndOfFull
  <2>1. /\ start \in FullLogs /\ LogLen > 0 /\ full = LogLen
        /\ cur = start + LogLen
    BY <1>8 DEF EndOfFull, FullInv
  <2>2. LastFull(start)
    BY <1>8, <2>1, NoFullLogBehind DEF EndOfFull
  <2>3. /\ pc' \in {"done", "partial"}
        /\ pc' = "done" => res' = "failure"
        /\ start' = start /\ cur' = cur /\ full' = full
    BY <1>8 DEF EndOfFull, Finish
  <2>4. FullInv'
    BY <1>2, <2>1, <2>2, <2>3, SamePage DEF FullInv
  <2>5. PartialInv' /\ DoneInv'
    BY <2>3 DEF PartialInv, DoneInv
  <2> QED
    BY <1>3, <2>4, <2>5
<1> QED
  BY <1>5, <1>6, <1>7, <1>8

(* The steps that look for the last partial log of that full log. *)
LEMMA PartialStep ==
  ASSUME LastLogInv, StartPartial \/ ScanBeyond \/ NextPartial
  PROVE  LastLogInv'
<1> USE DEF LastLogInv
<1>1. Pages \in Nat \ {0}
  BY LastLogAssumption
<1>2. page' = page
  BY DEF StartPartial, ScanBeyond, NextPartial
<1>3. PageInv'
  BY <1>2, SamePage
<1>4. \A k \in FullLogs : k \in 0 .. Pages - 1 /\ k \in Nat
  BY <1>1 DEF FullLogs
<1>5. CASE StartPartial
  <2>1. start \in FullLogs /\ LogLen > 0 /\ LastFull(start)
    BY <1>5 DEF StartPartial, FullInv
  <2>2. start \in Nat /\ page[start].len \in Nat /\ page[start].bytes \in Nat
    BY <1>4, <2>1, PageTypes
  <2>3. start' = start /\ outside' = outside
    BY <1>5 DEF StartPartial
  <2>4. /\ pc' \in {"done", "spin", "partial_scan"}
        /\ pc' = "partial_scan" =>
             /\ page[start].bytes < page[start].len
             /\ cur' = start + page[start].bytes
             /\ window' = start + page[start].len
    BY <1>5 DEF StartPartial, Finish
  <2>5. FullInv' /\ StaysInPeb'
    BY <1>2, <2>3, <2>4, SamePage DEF FullInv, StaysInPeb
  <2>6. PartialInv'
    <3> SUFFICES ASSUME pc' = "partial_scan" PROVE PartialInv'
      BY DEF PartialInv
    <3>1. start' \in Nat /\ cur' \in Nat
      BY <2>2, <2>3, <2>4
    <3>2. start <= start' /\ start' <= cur' /\ cur' < window'
      BY <2>2, <2>3, <2>4
    <3> QED
      BY <1>2, <2>1, <2>4, <3>1, <3>2, SamePage DEF PartialInv
  <2>7. DoneInv'
    <3>1. start <= start'
      BY <2>2, <2>3
    <3> QED
      BY <1>2, <2>1, <2>3, <2>4, <3>1, SamePage DEF DoneInv
  <2> QED
    BY <1>3, <2>5, <2>6, <2>7
<1>6. CASE NextPartial
  <2>1. PICK k \in FullLogs :
          /\ LastFull(k)
          /\ start \in Nat /\ cur \in Nat
          /\ LogLen > 0
          /\ k <= start /\ start <= cur /\ cur < window
          /\ window = k + page[k].len
    BY <1>6 DEF NextPartial, PartialInv
  <2>2. PICK h \in Holds(cur) :
          \/ h.kind = "partial" /\ start' = cur /\ pc' = "spin"
          \/ /\ h.kind = "partial"
             /\ start' = cur
             /\ cur' = cur + Step(h.len)
             /\ IF cur' < window THEN UNCHANGED <<pc, res>>
                                 ELSE Finish("success")
          \/ /\ h.kind \in {"empty", "seg"}
             /\ Finish("success")
             /\ UNCHANGED <<cur, start>>
          \/ /\ h.kind = "unreadable"
             /\ Finish("failure")
             /\ UNCHANGED <<cur, start>>
    BY <1>6 DEF NextPartial
  <2>3. k \in Nat /\ page[k].len \in Nat /\ window \in Nat
    BY <1>4, <2>1, PageTypes
  <2>4. Step(h.len) \in Nat \ {0}
    BY <2>1, HoldsTypes DEF Step
  <2>5. /\ window' = window /\ pc = "partial_scan"
        /\ pc' \in {"partial_scan", "done", "spin"}
        /\ pc' = "partial_scan" =>
             start' = cur /\ cur' = cur + Step(h.len) /\ cur' < window
        /\ start' \in {cur, start}
    BY <1>6, <2>2 DEF NextPartial, Finish
  <2>6. start' \in Nat /\ k <= start' /\ start' < window
    BY <2>1, <2>3, <2>5
  <2>7. FullInv'
    BY <2>5 DEF FullInv
  <2>8. PartialInv'
    <3> SUFFICES ASSUME pc' = "partial_scan" PROVE PartialInv'
      BY DEF PartialInv
    <3>1. cur' \in Nat /\ start' <= cur' /\ cur' < window'
      BY <2>1, <2>4, <2>5
    <3> QED
      BY <1>2, <2>1, <2>5, <2>6, <3>1, SamePage DEF PartialInv
  <2>9. DoneInv'
    BY <1>2, <2>1, <2>5, <2>6, SamePage DEF DoneInv
  <2>10. StaysInPeb'
    <3> SUFFICES ASSUME Regular PROVE ~outside'
      BY <1>2, SamePage DEF StaysInPeb
    <3>1. window <= Pages
      BY <2>1, RegularFits
    <3>2. ~(cur >= Pages)
      BY <1>1, <2>1, <2>3, <3>1
    <3> QED
      BY <1>6, <3>2 DEF NextPartial, StaysInPeb
  <2> QED
    BY <1>3, <2>7, <2>8, <2>9, <2>10
<1>7. CASE ScanBeyond
  <2>1. PICK k \in FullLogs : LastFull(k) /\ cur < window /\ window = k + page[k].len
    BY <1>7 DEF ScanBeyond, PartialInv
  <2>2. ~Regular
    <3> SUFFICES ASSUME Regular PROVE FALSE
      OBVIOUS
    <3>1. k + page[k].len <= Pages
      BY <2>1, RegularFits
    <3>2. cur \in Nat /\ cur >= Pages + Behind /\ Behind \in Nat
          /\ k \in Nat /\ page[k].len \in Nat
      BY <1>4, <1>7, PageTypes, LastLogAssumption DEF ScanBeyond, PartialInv
    <3> QED
      BY <1>1, <2>1, <3>1, <3>2
  <2>3. StaysInPeb'
    BY <1>2, <2>2, SamePage DEF StaysInPeb
  <2> QED
    BY <1>3, <1>7, <2>3 DEF ScanBeyond, FullInv, PartialInv, DoneInv
<1> QED
  BY <1>5, <1>6, <1>7

LEMMA NextLastLog ==
  ASSUME LastLogInv, [Next]_vars
  PROVE  LastLogInv'
<1>1. CASE UNCHANGED vars
  <2>1. page' = page /\ pc' = pc /\ cur' = cur /\ start' = start /\ full' = full
        /\ window' = window /\ outside' = outside /\ res' = res
    BY <1>1 DEF vars
  <2> QED
    BY <2>1, SamePage
    DEF LastLogInv, FullInv, PartialInv, DoneInv, StaysInPeb
<1>2. CASE ZeroLogPages \/ StartFull \/ NextFull \/ EndOfFull
  BY <1>2, FullStep
<1>3. CASE StartPartial \/ ScanBeyond \/ NextPartial
  BY <1>3, PartialStep
<1> QED
  BY <1>1, <1>2, <1>3 DEF Next, Idle

-----------------------------------------------------------------------------
(* Whatever the pages of a PEB hold, the partial logs that                 *)
(* ssdfs_fsck_find_last_partial_log steps over are those of the last full  *)
(* log: a search that succeeds ends in it.                                 *)
THEOREM LastLogInLastFullLog == Spec => []LastFullLogFound
<1>1. Init => LastLogInv
  BY InitLastLog
<1>2. LastLogInv /\ [Next]_vars => LastLogInv'
  BY NextLastLog
<1>3. LastLogInv => LastFullLogFound
  <2> SUFFICES ASSUME LastLogInv,
                      \/ pc \in {"partial", "partial_scan"}
                      \/ pc = "done" /\ res = "success"
               PROVE  \E k \in FullLogs :
                        /\ \A j \in FullLogs : j <= k
                        /\ k <= start
                        /\ start = k \/ (pc # "partial" /\ start < k + page[k].len)
    BY DEF LastFullLogFound
  <2>1. CASE pc = "partial"
    <3>1. LastFull(start) /\ start \in FullLogs
      BY <2>1 DEF LastLogInv, FullInv
    <3>2. start <= start
      BY <3>1, LastLogAssumption DEF FullLogs
    <3> QED
      BY <3>1, <3>2 DEF LastFull
  <2>2. CASE pc = "partial_scan"
    <3>1. PICK k \in FullLogs :
            /\ LastFull(k)
            /\ start \in Nat /\ cur \in Nat
            /\ k <= start /\ start <= cur /\ cur < window
            /\ window = k + page[k].len
      BY <2>2 DEF LastLogInv, PartialInv
    <3>2. k \in 0 .. Pages - 1
      BY DEF FullLogs
    <3>3. k \in Nat /\ page[k].len \in Nat
      BY <3>2, PageTypes DEF LastLogInv
    <3>4. start < k + page[k].len
      BY <3>1, <3>3
    <3> QED
      BY <2>2, <3>1, <3>4 DEF LastFull
  <2>3. CASE pc = "done" /\ res = "success"
    BY <2>3 DEF LastLogInv, DoneInv, LastFull
  <2> QED
    BY <2>1, <2>2, <2>3
<1> QED
  BY <1>1, <1>2, <1>3, PTL DEF Spec

(* On a PEB laid out the way mkfs.ssdfs does, of any number of pages and   *)
(* with partial logs of any length, the search reads no page of the next   *)
(* PEB.                                                                    *)
THEOREM LastLogStaysInPeb == Spec => []StaysInPeb
<1>1. LastLogInv => StaysInPeb
  BY DEF LastLogInv
<1> QED
  BY <1>1, InitLastLog, NextLastLog, PTL DEF Spec
=============================================================================
