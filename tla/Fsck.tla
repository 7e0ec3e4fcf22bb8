-------------------------------- MODULE Fsck --------------------------------
(***************************************************************************)
(* One session of fsck.ssdfs: detect a volume, check it, ask, recover.     *)
(* The four detect actions are taken by their results (SbChain and LastLog *)
(* model two of them), the whole-volume search by VolumeSearch, which      *)
(* FsckSearch implements; both may never return.  The check and recovery   *)
(* functions are those of this version: each corruption check reports a    *)
(* corruption, and each recovery step that has something to do reports a   *)
(* failure.                                                                *)
(***************************************************************************)
EXTENDS VolumeSearch, PebPartition, Sequences

CONSTANTS
  PebsCount,  \* fs_size / erase_size
  Threads     \* what option -j may say

ASSUME FsckAssumption ==
  /\ PebsCount \in Nat \ {0}
  /\ Threads \subseteq Nat \ {0}
  /\ Times \subseteq Nat
  /\ NoTime \in Nat
  /\ \A t \in Times : t < NoTime
  /\ Headers \subseteq [type : STRING, time : Times]
  /\ MayFailAlloc \in BOOLEAN

VARIABLES
  astray, \* a place or a length on the device leads past its end
  opts,   \* force_checking, no_change, auto_repair or yes_all, show_info, threads
  pc,
  act,    \* index of the detect action
  det,    \* detection_result.state
  chk,    \* check_result.state
  mask,   \* check_result.corruption.mask
  rec,    \* recovery_result.state
  answer, \* what the user typed last
  exit    \* exit status, -1 while the session runs

sessionVars == <<astray, opts, pc, act, det, chk, mask, rec, answer, exit>>
vars == <<searchVars, sessionVars>>

Options == [force : BOOLEAN, noChange : BOOLEAN, repair : BOOLEAN, info : BOOLEAN,
            threads : Threads]

(* A PEB may also hold a log of user data, or no valid segment header. *)
UserData == [type |-> "user", time |-> 0]
Other == [type |-> "other", time |-> 0]

Critical == {"base_snapshot", "sb_segs", "maptbl", "segbmap", "maptbl_cache"}

(* What the detect actions set in found_metadata: all of it on success, a  *)
(* part of it when something is missing.                                   *)
DetectBits == << {"base_snapshot"}, {"sb_segs", "maptbl_cache"}, {"segbmap"},
                 {"maptbl"} >>
PartialBits == << {{}}, {{}, {"sb_segs"}}, {{}}, {{}} >>

Structures == {"base_snapshot", "superblock", "segbmap", "maptbl", "inodes",
               "snapshots", "invalid_extents", "shared_dict"}

Init ==
  /\ vol \in [0 .. PebsCount - 1 -> Headers \cup {UserData, Other}]
  /\ base = Unknown
  /\ Pending
  /\ astray \in BOOLEAN
  /\ opts \in Options
  /\ pc = "open"
  /\ act = 1
  /\ det = "unknown"
  /\ chk = "unknown"
  /\ mask = {}
  /\ rec = "unknown"
  /\ answer = "none"
  /\ exit = -1

Exit(status) == pc' = "exit" /\ exit' = status

-----------------------------------------------------------------------------
(* Detection *)

OpenDevice ==
  /\ pc = "open"
  /\ \/ pc' = "probe" /\ exit' = exit
     \/ Exit(1)
  /\ UNCHANGED <<searchVars, astray, opts, act, det, chk, mask, rec, answer>>

(* ssdfs_find_any_valid_peb: PEBs 0, 1, 3, 7, ... until one is valid, or   *)
(* one cannot be read.                                                     *)
Probed == { p \in 0 .. PebsCount - 1 : \E k \in 0 .. PebsCount : p + 1 = 2 ^ k }

SomeValid == \E p \in Probed : vol[p] # Other

FindAnyValidPeb ==
  /\ pc = "probe"
  /\ \/ SomeValid /\ pc' = "detect" /\ UNCHANGED <<det, exit>>
     \/ ~SomeValid /\ det' = "no_fs" /\ Exit(0)
     \/ det' = "failed" /\ Exit(0)
  /\ UNCHANGED <<searchVars, astray, opts, act, chk, mask, rec, answer>>

(* A detect action succeeds; the base snapshot in PEB 0 gives the creation *)
(* time.  After the last one the search is run only with option -f.        *)
DetectFound ==
  /\ pc = "detect"
  /\ act = 1 => vol[0] \in Headers /\ vol[0].type = "snapshot"
  /\ base' = [time |-> IF act = 1 THEN vol[0].time ELSE base.time,
              found |-> base.found \cup DetectBits[act]]
  /\ act' = act + 1
  /\ pc' = IF act < Len(DetectBits) THEN "detect"
           ELSE IF opts.force THEN "search" ELSE "verdict"
  /\ UNCHANGED <<vol, newest, outcome, oom, astray, opts, det, chk, mask, rec, answer, exit>>

\* A plausible bug: the search is left out when nothing was found so far.
DetectMissingNoSearch ==
  /\ pc = "detect"
  /\ \E part \in PartialBits[act] :
       base' = [base EXCEPT !.found = @ \cup part]
  /\ pc' = IF act = 1 THEN "verdict" ELSE "search"
  /\ UNCHANGED <<vol, newest, outcome, oom, astray, opts, act, det, chk, mask, rec, answer, exit>>

DetectMissing ==
  /\ pc = "detect"
  /\ \E part \in PartialBits[act] :
       base' = [base EXCEPT !.found = @ \cup part]
  /\ pc' = "search"
  /\ UNCHANGED <<vol, newest, outcome, oom, astray, opts, act, det, chk, mask, rec, answer, exit>>

DetectFails ==
  /\ pc = "detect"
  /\ det' = "failed"
  /\ Exit(0)
  /\ UNCHANGED <<searchVars, astray, opts, act, chk, mask, rec, answer>>

(* The detection of superblocks, segment bitmap and mapping table follows  *)
(* what it reads; where that leads past the end of the device,             *)
(* ssdfs_pread() never returns (the spin of SbChain and LastLog).          *)
DetectHangs ==
  /\ pc = "detect" /\ act > 1
  /\ astray
  /\ pc' = "hung"
  /\ UNCHANGED <<searchVars, astray, opts, act, det, chk, mask, rec, answer, exit>>

(* A worker whose share wraps reads past the end of the device and is      *)
(* never joined (run search_hang of FsckSearch).                           *)
SearchHangs ==
  /\ pc = "search"
  /\ ~Fits(PebsCount, opts.threads)
  /\ pc' = "hung"
  /\ UNCHANGED <<searchVars, astray, opts, act, det, chk, mask, rec, answer, exit>>

Search ==
  /\ pc = "search"
  /\ SearchNext
  /\ outcome' = "success" => Fits(PebsCount, opts.threads)
  /\ CASE outcome' = "success" -> pc' = "verdict" /\ UNCHANGED <<det, exit>>
       [] outcome' = "failure" -> det' = "failed" /\ Exit(0)
       [] outcome' = "crashed" -> pc' = "crashed" /\ UNCHANGED <<det, exit>>
  /\ UNCHANGED <<astray, opts, act, chk, mask, rec, answer>>

(* The last creation point: that of the search, or the only one. *)
Last == IF outcome = "success" THEN newest ELSE base

Verdict ==
  /\ pc = "verdict"
  /\ det' = IF Last.found = {} THEN "no_fs"
            ELSE IF Last.found = Critical THEN "has_fs" ELSE "some_metadata"
  /\ IF det' = "no_fs" THEN Exit(0) ELSE pc' = "check" /\ exit' = exit
  /\ UNCHANGED <<searchVars, astray, opts, act, chk, mask, rec, answer>>

-----------------------------------------------------------------------------
(* Check *)

(* is_ssdfs_volume_corrupted: every check action reports a corruption, and *)
(* no state follows from them.                                             *)
Check ==
  /\ pc = "check"
  /\ \/ /\ det = "has_fs"
        /\ mask' = Structures
        /\ chk' = "check_failed"
        /\ Exit(0)
     \/ /\ det = "some_metadata"
        /\ mask' = {}
        /\ chk' = "heavily_corrupted"
        /\ pc' = "decide"
        /\ exit' = exit
  /\ UNCHANGED <<searchVars, astray, opts, act, det, rec, answer>>

\* A plausible bug: -y is looked at before -n.
DecideRepairFirst ==
  /\ pc = "decide"
  /\ IF opts.repair THEN pc' = "recover" /\ exit' = exit
     ELSE IF opts.noChange \/ ~opts.info THEN Exit(0)
     ELSE pc' = "ask" /\ exit' = exit
  /\ UNCHANGED <<searchVars, astray, opts, act, det, chk, mask, rec, answer>>

Decide ==
  /\ pc = "decide"
  /\ IF opts.noChange THEN Exit(0)
     ELSE IF opts.repair THEN pc' = "recover" /\ exit' = exit
     ELSE IF ~opts.info THEN Exit(0)
     ELSE pc' = "ask" /\ exit' = exit
  /\ UNCHANGED <<searchVars, astray, opts, act, det, chk, mask, rec, answer>>

(* get_user_answer: anything but a yes or a no, the end of the input too,  *)
(* asks again.                                                             *)
Answer ==
  /\ pc = "ask"
  /\ answer' \in {"yes", "no", "unknown"}
  /\ CASE answer' = "yes" -> pc' = "recover" /\ exit' = exit
       [] answer' = "no" -> Exit(0)
       [] answer' = "unknown" -> UNCHANGED <<pc, exit>>
  /\ UNCHANGED <<searchVars, astray, opts, act, det, chk, mask, rec>>

-----------------------------------------------------------------------------
\* A plausible bug: a recovery that failed is tried again.
RecoverRetrying ==
  /\ pc = "recover"
  /\ rec' = "failed"
  /\ UNCHANGED <<searchVars, astray, opts, pc, act, det, chk, mask, answer, exit>>

(* recover_corrupted_ssdfs_volume: a structure in the mask cannot be       *)
(* recovered; with none in it the recovery cannot be explained.            *)
Recover ==
  /\ pc = "recover"
  /\ rec' = "failed"
  /\ Exit(0)
  /\ UNCHANGED <<searchVars, astray, opts, act, det, chk, mask, answer>>

Idle == pc \in {"exit", "crashed", "hung"} /\ UNCHANGED vars

Next ==
  \/ OpenDevice \/ FindAnyValidPeb
  \/ DetectFound \/ DetectMissing \/ DetectFails \/ DetectHangs
  \/ Search \/ SearchHangs \/ Verdict
  \/ Check \/ Decide \/ Answer \/ Recover \/ Idle

(* The process runs on; nothing makes the user answer. *)
Spec == Init /\ [][Next]_vars /\ WF_vars(Next)

-----------------------------------------------------------------------------
(* Properties *)

(* A recovery is started only after the volume was found corrupted, never  *)
(* with option -n, and only by option -p or -y or by a yes of the user.    *)
RepairOnlyByConsent ==
  pc = "recover" \/ rec # "unknown" =>
    /\ chk = "heavily_corrupted"
    /\ ~opts.noChange
    /\ opts.repair \/ answer = "yes"

(* Once a valid PEB was met, "no file system" is said only of a device     *)
(* without any metadata PEB (as long as memory does not run out): a volume *)
(* that lost its base snapshot is not taken for an empty device.           *)
NothingOnlyIfNothing == det = "no_fs" /\ SomeValid /\ ~oom => OnDevice = {}

(* Detection and search return: nothing on the device leads past its end,  *)
(* and no worker's share wraps.                                            *)
Returning == ~astray /\ Fits(PebsCount, opts.threads)

(* Where detection and search return, the session ends, unless the user is *)
(* asked for ever: no option, answer or failure makes it repeat anything   *)
(* else.                                                                   *)
SessionEnds ==
  Returning => <>(pc \in {"exit", "crashed"}) \/ <>[](pc = "ask")

(* The exit status as the manual page gives it: status 0 means that no     *)
(* error was detected.                                                     *)
ZeroMeansNoErrors ==
  exit = 0 => chk \notin {"heavily_corrupted"} /\ det # "failed"
=============================================================================
