------------------------------ MODULE LastLog -------------------------------
(***************************************************************************)
(* How fsck.ssdfs finds the newest log of a metadata PEB.  A PEB holds     *)
(* full logs of log_pages pages one after the other, each starting with a  *)
(* segment header; the newest full log may itself be a run of partial      *)
(* logs.  ssdfs_fsck_find_last_full_log steps over the full logs, then     *)
(* ssdfs_fsck_find_last_partial_log over the partial logs in the last one. *)
(* The PEB may be corrupted: page contents and lengths are arbitrary.  It  *)
(* lies on the device, but an offset or a length may lead past the end of  *)
(* the device, where ssdfs_pread() repeats a read of 0 bytes for ever.     *)
(***************************************************************************)
EXTENDS Naturals

CONSTANTS
  Pages,      \* pages_per_peb
  Behind,     \* pages of the device behind the PEB
  LogPages,   \* the values of log_pages in segment headers
  MaxLen      \* bound on log_bytes / page_size

ASSUME LastLogAssumption ==
  /\ Pages \in Nat \ {0} /\ Behind \in Nat
  /\ LogPages \subseteq Nat
  /\ MaxLen \in Nat

VARIABLES
  page,       \* what each page of the PEB holds
  pc,
  cur,        \* cur_page
  start,      \* log->start_page
  full,       \* full_log_pages: stride of the full log search
  window,     \* upper_page of the partial log search
  outside,    \* history: a page of another PEB was read
  res

vars == <<page, pc, cur, start, full, window, outside, res>>

(***************************************************************************)
(* A segment header gives the length of a full log (log_pages) and, by its *)
(* footer or partial footer, the length of its first partial log (bytes);  *)
(* seg_flags may name no footer, the footer may be unreadable, or lie past *)
(* the end of the device.  A partial log header gives the length of its    *)
(* log; the footer it names is read too, but a failure is only logged.     *)
(***************************************************************************)
SegHeaders == [kind : {"seg"}, len : LogPages, foot : {"ok"},
               bytes : 0 .. MaxLen]
              \cup [kind : {"seg"}, len : LogPages,
                    foot : {"none", "unreadable", "beyond"}, bytes : {0}]
OtherPages == [kind : {"partial"}, len : 0 .. MaxLen, foot : {"ok", "beyond"},
               bytes : {0}]
              \cup [kind : {"empty", "unreadable"}, len : {0}, foot : {"ok"},
                    bytes : {0}]

(* The caller has found a segment header at the start of the PEB. *)
Init ==
  /\ page \in { f \in [0 .. Pages - 1 -> SegHeaders \cup OtherPages] :
                  f[0].kind = "seg" }
  /\ pc = "full"
  /\ cur = 0
  /\ start = 0
  /\ full = 0
  /\ window = 0
  /\ outside = FALSE
  /\ res = "none"

Finish(r) == pc' = "done" /\ res' = r

-----------------------------------------------------------------------------
(* ssdfs_fsck_find_last_full_log *)

(* BUG_ON(full_log_pages == 0) aborts the tool. *)
ZeroLogPages ==
  /\ pc \in {"full", "partial"}
  /\ page[start].len = 0
  /\ pc' = "abort"
  /\ UNCHANGED <<page, cur, start, full, window, outside, res>>

StartFull ==
  /\ pc = "full"
  /\ page[start].len > 0
  /\ full' = page[start].len
  /\ cur' = start + page[start].len
  /\ \/ cur' > Pages /\ Finish("failure")
     \/ cur' = Pages /\ pc' = "partial" /\ res' = res
     \/ cur' < Pages /\ pc' = "full_scan" /\ res' = res
  /\ UNCHANGED <<page, start, window, outside>>

\* A plausible bug: start_page is set after the step to the next log.
NextFullLate ==
  /\ pc = "full_scan"
  /\ page[cur].kind = "seg"
  /\ cur' = cur + full
  /\ start' = IF cur' < Pages THEN cur' ELSE cur
  /\ pc' = IF cur' < Pages THEN "full_scan" ELSE "partial"
  /\ UNCHANGED <<page, full, window, outside, res>>

(* A segment header: the log is the newest so far; step over it. *)
NextFull ==
  /\ pc = "full_scan"
  /\ page[cur].kind = "seg"
  /\ start' = cur
  /\ cur' = cur + full
  /\ pc' = IF cur' < Pages THEN "full_scan" ELSE "partial"
  /\ UNCHANGED <<page, full, window, outside, res>>

EndOfFull ==
  /\ pc = "full_scan"
  /\ page[cur].kind # "seg"
  /\ IF page[cur].kind = "unreadable"
     THEN Finish("failure")
     ELSE pc' = "partial" /\ res' = res
  /\ UNCHANGED <<page, cur, start, full, window, outside>>

-----------------------------------------------------------------------------
(* ssdfs_fsck_find_last_partial_log *)

\* A plausible bug: the window of the partial logs starts at cur_page.
StartPartialWide ==
  /\ pc = "partial"
  /\ page[start].len > 0
  /\ page[start].foot = "ok"
  /\ page[start].bytes < page[start].len
  /\ cur' = start + page[start].bytes
  /\ window' = cur' + page[start].len
  /\ pc' = "partial_scan"
  /\ UNCHANGED <<page, start, full, outside, res>>

(* The footer of the last full log tells where its first partial log ends. *)
StartPartial ==
  /\ pc = "partial"
  /\ page[start].len > 0
  /\ LET h == page[start]
     IN  \/ /\ h.foot \in {"none", "unreadable"}
            /\ Finish("failure")
            /\ UNCHANGED <<cur, window>>
         \/ /\ h.foot = "beyond"
            /\ pc' = "spin"
            /\ UNCHANGED <<cur, window, res>>
         \/ /\ h.foot = "ok"
            /\ h.bytes >= h.len
            /\ Finish("success")
            /\ UNCHANGED <<cur, window>>
         \/ /\ h.foot = "ok"
            /\ h.bytes < h.len
            /\ cur' = start + h.bytes
            /\ window' = start + h.len
            /\ pc' = "partial_scan"
            /\ res' = res
  /\ UNCHANGED <<page, start, full, outside>>

\* A plausible bug: a log of zero pages is not stepped over.
StepNoGuard(len) == len

(* A partial log of zero pages is stepped over page by page. *)
Step(len) == IF len = 0 THEN 1 ELSE len

(* A page of the next PEB may hold anything. *)
Holds(k) == IF k < Pages THEN {page[k]} ELSE OtherPages

(* The scan leaves the device. *)
ScanBeyond ==
  /\ pc = "partial_scan"
  /\ cur >= Pages + Behind
  /\ pc' = "spin"
  /\ outside' = TRUE
  /\ UNCHANGED <<page, cur, start, full, window, res>>

NextPartial ==
  /\ pc = "partial_scan"
  /\ cur < Pages + Behind
  /\ outside' = (outside \/ cur >= Pages)
  /\ \E h \in Holds(cur) :
       \/ /\ h.kind = "partial"
          /\ h.foot = "beyond"
          /\ start' = cur
          /\ pc' = "spin"
          /\ UNCHANGED <<cur, res>>
       \/ /\ h.kind = "partial"
          /\ h.foot = "ok"
          /\ start' = cur
          /\ cur' = cur + Step(h.len)
          /\ IF cur' < window THEN UNCHANGED <<pc, res>> ELSE Finish("success")
       \/ /\ h.kind \in {"empty", "seg"}
          /\ Finish("success")
          /\ UNCHANGED <<cur, start>>
       \/ /\ h.kind = "unreadable"
          /\ Finish("failure")
          /\ UNCHANGED <<cur, start>>
  /\ UNCHANGED <<page, full, window>>

Idle == pc \in {"done", "abort", "spin"} /\ UNCHANGED vars

Next ==
  \/ ZeroLogPages \/ StartFull \/ NextFull \/ EndOfFull
  \/ StartPartial \/ ScanBeyond \/ NextPartial \/ Idle

Spec == Init /\ [][Next]_vars /\ WF_vars(Next)

-----------------------------------------------------------------------------
(* Properties *)

(* The full logs of the PEB: the unbroken run of segment headers at the    *)
(* stride of the first header.                                             *)
FullLogs ==
  { k \in 0 .. Pages - 1 :
      /\ k % page[0].len = 0
      /\ \A j \in 0 .. k : j % page[0].len = 0 => page[j].kind = "seg" }

(* The search of full logs ends on the last one: the partial logs of an    *)
(* older one are never taken for the newest state of the metadata.         *)
LastFullLogFound ==
  pc \in {"partial", "partial_scan"} \/ (pc = "done" /\ res = "success") =>
    \E k \in FullLogs :
      /\ \A j \in FullLogs : j <= k
      /\ k <= start
      /\ start = k \/ (pc # "partial" /\ start < k + page[k].len)

(* The logs fill the PEB: every segment header carries the same length,    *)
(* which divides the number of pages (the layout mkfs.ssdfs writes).       *)
Regular ==
  /\ page[0].len > 0
  /\ Pages % page[0].len = 0
  /\ \A k \in 0 .. Pages - 1 : page[k].kind = "seg" => page[k].len = page[0].len

(* On a regular PEB the search reads no page of the next PEB. *)
StaysInPeb == Regular => ~outside

(* The full logs end in the PEB, and every footer lies on the device. *)
LogsInside ==
  \A k \in 0 .. Pages - 1 :
    /\ page[k].kind = "seg" => k + page[k].len <= Pages
    /\ page[k].foot # "beyond"

(* The search ends on every PEB whose full logs and footers lie inside,    *)
(* however the lengths of partial logs are corrupted: a partial log of no  *)
(* length does not hold it, and no offset leads past the end of the device *)
(* where ssdfs_pread() never returns.                                      *)
SearchEnds == LogsInside => <>(pc \in {"done", "abort"})
=============================================================================
