----------------------------- MODULE FsckProof ------------------------------
(***************************************************************************)
(* Invariance proofs for a session of fsck.ssdfs: for every device, every  *)
(* choice of options and every answer of the user.                         *)
(***************************************************************************)
EXTENDS Fsck, TLAPS, WellFoundedInduction

(***************************************************************************)
(* Consent.  The property speaks of the moment of the recovery; what makes *)
(* it inductive is where chk, noChange and the answer were looked at on    *)
(* the way there, and that nothing happens after the recovery.             *)
(***************************************************************************)
ConsentInv ==
  /\ pc \in {"decide", "ask", "recover"} => chk = "heavily_corrupted"
  /\ pc = "ask" => ~opts.noChange
  /\ rec # "unknown" => pc = "exit"
  /\ RepairOnlyByConsent

LEMMA ConsentStep == ConsentInv /\ [Next]_vars => ConsentInv'
<1> SUFFICES ASSUME ConsentInv, [Next]_vars PROVE ConsentInv'
  OBVIOUS
<1> USE DEF ConsentInv, RepairOnlyByConsent
<1>1. CASE OpenDevice
  BY <1>1 DEF OpenDevice, Exit
<1>2. CASE FindAnyValidPeb
  BY <1>2 DEF FindAnyValidPeb, Exit
<1>3. CASE DetectFound
  BY <1>3 DEF DetectFound
<1>4. CASE DetectMissing
  BY <1>4 DEF DetectMissing
<1>5. CASE DetectFails
  BY <1>5 DEF DetectFails, Exit
<1>6. CASE Search
  <2>1. pc = "search" /\ outcome' \in {"success", "failure", "crashed"}
    BY <1>6 DEF Search, SearchNext, Found, FoundPart, Fail
  <2>2. pc' \in {"verdict", "exit", "crashed"}
    BY <1>6, <2>1 DEF Search, Exit
  <2> QED
    BY <1>6, <2>1, <2>2 DEF Search
<1>7. CASE Verdict
  BY <1>7 DEF Verdict, Exit
<1>8. CASE Check
  BY <1>8 DEF Check, Exit
<1>9. CASE Decide
  BY <1>9 DEF Decide, Exit
<1>10. CASE Answer
  BY <1>10 DEF Answer, Exit
<1>11. CASE Recover
  BY <1>11 DEF Recover, Exit
<1>12. CASE Idle \/ UNCHANGED vars
  BY <1>12 DEF Idle, vars, sessionVars
<1>13. CASE DetectHangs \/ SearchHangs
  BY <1>13 DEF DetectHangs, SearchHangs
<1> QED
  BY <1>1, <1>2, <1>3, <1>4, <1>5, <1>6, <1>7, <1>8, <1>9, <1>10, <1>11, <1>12, <1>13
  DEF Next

(* In every session, a recovery is started only on a volume that was found *)
(* corrupted, never with option -n, and only by option -p or -y or by a    *)
(* yes of the user (main of fsck.ssdfs).                                   *)
THEOREM FsckRepairOnlyByConsent == Spec => []RepairOnlyByConsent
<1>1. Init => ConsentInv
  BY DEF Init, ConsentInv, RepairOnlyByConsent
<1>2. ConsentInv => RepairOnlyByConsent
  BY DEF ConsentInv
<1> QED
  BY <1>1, <1>2, ConsentStep, PTL DEF Spec

-----------------------------------------------------------------------------
(***************************************************************************)
(* An empty verdict.  Until the search nothing is pending and the base     *)
(* point is unused or has found something; a search that succeeds with     *)
(* memory enough names the newest volume of the device.                    *)
(***************************************************************************)
BaseInv ==
  /\ vol \in [0 .. PebsCount - 1 -> Headers \cup {UserData, Other}]
  /\ base \in [time : Times \cup {NoTime}, found : SUBSET Critical]
  /\ base.time # NoTime => base.found # {}
  /\ act \in 1 .. 5
  /\ pc \in {"open", "probe"} => act = 1
  /\ pc = "detect" => act \in 1 .. 4

SearchedInv ==
  /\ pc \in {"open", "probe", "detect", "search"} =>
       outcome = "pending" /\ oom = FALSE
  /\ outcome = "success" /\ ~oom => newest = NewestOf(OnDevice)
  /\ pc = "verdict" => outcome = "success" \/ base.found # {}

VerdictInv == BaseInv /\ SearchedInv /\ NothingOnlyIfNothing

(* A non-empty set of creation times has a newest one, as each of them is  *)
(* below the reserved value.                                               *)
LEMMA NewestExists ==
  ASSUME NEW S \in SUBSET Times, S # {}
  PROVE  \E u \in S : \A v \in S : v <= u
<1> DEFINE T == { NoTime - t : t \in S }
<1>1. S \subseteq Nat /\ NoTime \in Nat /\ \A t \in S : t < NoTime
  BY FsckAssumption
<1>2. T \subseteq Nat /\ T # {}
  <2>1. \A t \in S : NoTime - t \in Nat
    BY <1>1
  <2> QED
    BY <2>1
<1>3. PICK x \in T : \A y \in T : ~(<<y, x>> \in OpToRel(<, Nat))
  BY <1>2, NatLessThanWellFounded, WFMin
<1>4. \A y \in T : ~(y < x)
  BY <1>2, <1>3 DEF OpToRel
<1>5. PICK u \in S : x = NoTime - u
  OBVIOUS
<1>6. \A v \in S : ~(NoTime - v < NoTime - u)
  BY <1>4, <1>5
<1>7. \A v \in S : v <= u
  BY <1>1, <1>6
<1> QED
  BY <1>7

(* The newest creation point of a device with metadata is not empty: its   *)
(* PEBs were found, or it is the base point and newer than all of them.    *)
LEMMA NewestNotEmpty ==
  ASSUME BaseInv, OnDevice # {}
  PROVE  NewestOf(OnDevice).found # {}
<1> DEFINE S == OnDevice \cup Known
           t == CHOOSE u \in S : \A v \in S : v <= u
<1>1. OnDevice \subseteq Times
  BY FsckAssumption DEF OnDevice
<1>2. Known \subseteq Times
  BY DEF Known, BaseInv
<1>3. S \in SUBSET Times /\ S # {}
  BY <1>1, <1>2
<1>4. t \in S
  <2> HIDE DEF S
  <2>1. \E u \in S : \A v \in S : v <= u
    BY <1>3, NewestExists
  <2> QED
    BY <2>1
<1>5. NewestOf(OnDevice) =
        [time |-> t,
         found |-> (IF t = base.time THEN base.found ELSE {})
                   \cup (IF t \in OnDevice THEN {"peb_map"} ELSE {})]
  BY <1>3 DEF NewestOf
<1> HIDE DEF t
<1>6. CASE t \in OnDevice
  BY <1>5, <1>6
<1>7. CASE t \in Known
  BY <1>5, <1>7 DEF Known, BaseInv
<1> QED
  BY <1>4, <1>6, <1>7

(* What a detect action sets is part of what the verdict asks for. *)
LEMMA ActionBits ==
  /\ Len(DetectBits) = 4
  /\ \A k \in 1 .. 4 : /\ DetectBits[k] \in SUBSET Critical
                        /\ DetectBits[k] # {}
                        /\ PartialBits[k] \subseteq SUBSET Critical
<1>1. \A k \in 1 .. 4 : k = 1 \/ k = 2 \/ k = 3 \/ k = 4
  OBVIOUS
<1> QED
  BY <1>1 DEF DetectBits, PartialBits, Critical

(* The steps before the verdict that are not a search. *)
LEMMA DetectStep ==
  ASSUME VerdictInv,
         \/ OpenDevice \/ FindAnyValidPeb \/ DetectFound \/ DetectMissing \/ DetectFails
         \/ DetectHangs \/ SearchHangs
  PROVE  VerdictInv'
<1> USE DEF VerdictInv
<1>1. vol' = vol /\ newest' = newest /\ outcome' = outcome /\ oom' = oom
  BY DEF OpenDevice, FindAnyValidPeb, DetectFound, DetectMissing, DetectFails,
         DetectHangs, SearchHangs, searchVars
<1>2. OnDevice' = OnDevice /\ SomeValid' = SomeValid
  BY <1>1 DEF OnDevice, SomeValid
<1>3. outcome = "pending" /\ oom = FALSE
  BY DEF SearchedInv, OpenDevice, FindAnyValidPeb, DetectFound, DetectMissing,
         DetectFails, DetectHangs, SearchHangs
<1>4. BaseInv'
  <2>1. CASE \/ OpenDevice \/ FindAnyValidPeb \/ DetectFails
             \/ DetectHangs \/ SearchHangs
    <3>1. base' = base /\ act' = act
      BY <2>1 DEF OpenDevice, FindAnyValidPeb, DetectFails, DetectHangs, SearchHangs,
         searchVars
    <3>2. pc' \in {"open", "probe", "detect"} => act = 1
      BY <2>1 DEF OpenDevice, FindAnyValidPeb, DetectFails, DetectHangs, SearchHangs,
         Exit, BaseInv
    <3> QED
      BY <1>1, <3>1, <3>2 DEF BaseInv
  <2>2. CASE DetectFound
    <3>1. pc = "detect" /\ act \in 1 .. 4
      BY <2>2 DEF BaseInv, DetectFound
    <3>2. DetectBits[act] \in SUBSET Critical /\ DetectBits[act] # {}
      BY <3>1, ActionBits
    <3>3. ASSUME act = 1 PROVE vol[0].time \in Times
      BY <2>2, <3>3, FsckAssumption DEF DetectFound
    <3>4. /\ base' \in [time : Times \cup {NoTime}, found : SUBSET Critical]
          /\ base'.found # {}
      <4>1. base'.time = (IF act = 1 THEN vol[0].time ELSE base.time)
        BY <2>2 DEF DetectFound
      <4>2. base'.found = base.found \cup DetectBits[act]
        BY <2>2 DEF DetectFound
      <4>3. base' = [time |-> base'.time, found |-> base'.found]
        BY <2>2 DEF DetectFound
      <4>4. base.time \in Times \cup {NoTime} /\ base.found \in SUBSET Critical
        BY DEF BaseInv
      <4>5. base'.time \in Times \cup {NoTime} /\ base'.found \in SUBSET Critical
        BY <4>1, <4>2, <4>4, <3>2, <3>3
      <4> QED
        BY <4>2, <4>3, <4>5, <3>2
    <3>5. /\ act' = act + 1
          /\ pc' \in {"detect", "search", "verdict"}
          /\ pc' = "detect" => act < 4
      BY <2>2, ActionBits DEF DetectFound
    <3> QED
      BY <1>1, <3>1, <3>4, <3>5 DEF BaseInv
  <2>3. CASE DetectMissing
    <3>1. pc = "detect" /\ act \in 1 .. 4 /\ act' = act /\ pc' = "search"
      BY <2>3 DEF BaseInv, DetectMissing
    <3>2. PICK part \in PartialBits[act] :
            base' = [base EXCEPT !.found = @ \cup part]
      BY <2>3 DEF DetectMissing
    <3>3. part \in SUBSET Critical
      BY <3>1, <3>2, ActionBits
    <3> QED
      BY <1>1, <3>1, <3>2, <3>3 DEF BaseInv
  <2> QED
    BY <2>1, <2>2, <2>3
<1>5. SearchedInv'
  <2>1. ASSUME pc' = "verdict" PROVE base'.found # {}
    <3>1. DetectFound /\ act \in 1 .. 4
      BY <2>1 DEF OpenDevice, FindAnyValidPeb, DetectFound, DetectMissing,
                  DetectFails, DetectHangs, SearchHangs, Exit, BaseInv
    <3>2. base'.found = base.found \cup DetectBits[act]
      BY <3>1 DEF DetectFound
    <3> QED
      BY <3>1, <3>2, ActionBits
  <2> QED
    BY <1>1, <1>3, <2>1 DEF SearchedInv
<1>6. NothingOnlyIfNothing'
  BY <1>1, <1>2
  DEF NothingOnlyIfNothing, OpenDevice, FindAnyValidPeb, DetectFound, DetectMissing,
      DetectFails, DetectHangs, SearchHangs
<1> QED
  BY <1>4, <1>5, <1>6

(* The search, in one step. *)
LEMMA SearchStep ==
  ASSUME VerdictInv, Search
  PROVE  VerdictInv'
<1> USE DEF VerdictInv
<1>1. /\ vol' = vol /\ act' = act /\ pc = "search"
      /\ base' = base \/ (outcome' = "failure" /\ base' = Unknown)
  BY DEF Search, SearchNext, Found, FoundPart, Fail
<1>2. OnDevice' = OnDevice /\ SomeValid' = SomeValid
  BY <1>1 DEF OnDevice, SomeValid
<1>3. outcome' = "success" => NewestOf(OnDevice)' = NewestOf(OnDevice)
  <2> SUFFICES ASSUME outcome' = "success"
               PROVE  NewestOf(OnDevice)' = NewestOf(OnDevice)
    OBVIOUS
  <2>1. base' = base
    BY <1>1
  <2>2. Known' = Known
    BY <2>1 DEF Known
  <2> QED
    BY <1>2, <2>1, <2>2 DEF NewestOf
<1>4. /\ outcome' \in {"success", "failure", "crashed"}
      /\ outcome' = "success" => oom' \/ newest' = NewestOf(OnDevice)
      /\ ~oom' => ~oom
  BY <1>1 DEF Search, SearchNext, Found, FoundPart, Fail, SearchedInv
<1>5. /\ pc' \in {"verdict", "exit", "crashed"}
      /\ pc' = "verdict" => outcome' = "success"
      /\ det' = det \/ det' = "failed"
      /\ outcome' = "failure" => pc' = "exit"
  <2>1. CASE outcome' = "success"
    BY <2>1 DEF Search
  <2>2. CASE outcome' = "failure"
    BY <2>2 DEF Search, Exit
  <2>3. CASE outcome' = "crashed"
    BY <2>3 DEF Search
  <2> QED
    BY <1>4, <2>1, <2>2, <2>3
<1>6. BaseInv'
  BY <1>1, <1>5 DEF BaseInv, Unknown
<1>7. SearchedInv'
  BY <1>3, <1>4, <1>5 DEF SearchedInv
<1>8. NothingOnlyIfNothing'
  BY <1>2, <1>4, <1>5 DEF NothingOnlyIfNothing
<1> QED
  BY <1>6, <1>7, <1>8

(* The verdict reads the newest point, or the only one. *)
LEMMA VerdictStep ==
  ASSUME VerdictInv, Verdict
  PROVE  VerdictInv'
<1> USE DEF VerdictInv
<1>1. /\ UNCHANGED searchVars
      /\ act' = act
      /\ pc = "verdict" /\ pc' \in {"exit", "check"}
  BY DEF Verdict, Exit
<1>2. OnDevice' = OnDevice /\ SomeValid' = SomeValid /\ Known' = Known
  BY <1>1 DEF OnDevice, SomeValid, Known, searchVars
<1>3. NewestOf(OnDevice)' = NewestOf(OnDevice)
  BY <1>1, <1>2 DEF NewestOf, searchVars
<1>4. BaseInv' /\ SearchedInv'
  BY <1>1, <1>3 DEF BaseInv, SearchedInv, searchVars
<1>5. ASSUME det' = "no_fs", ~oom, OnDevice # {} PROVE FALSE
  <2>1. Last.found = {}
    BY <1>5 DEF Verdict
  <2>2. CASE outcome = "success"
    BY <1>5, <2>1, <2>2, NewestNotEmpty DEF Last, SearchedInv
  <2>3. CASE outcome # "success"
    BY <1>1, <2>1, <2>3 DEF Last, SearchedInv
  <2> QED
    BY <2>2, <2>3
<1>6. NothingOnlyIfNothing'
  BY <1>1, <1>2, <1>5 DEF NothingOnlyIfNothing, searchVars
<1> QED
  BY <1>4, <1>6

(* From the verdict on neither the device nor the findings change. *)
LEMMA LaterStep ==
  ASSUME VerdictInv,
         Check \/ Decide \/ Answer \/ Recover \/ UNCHANGED vars
  PROVE  VerdictInv'
<1> USE DEF VerdictInv
<1>1. UNCHANGED searchVars /\ det' = det /\ act' = act
  BY DEF Check, Decide, Answer, Recover, vars, sessionVars
<1>2. pc' = pc \/ pc' \in {"exit", "decide", "ask", "recover"}
  <2>1. CASE Check \/ Decide \/ Recover \/ UNCHANGED vars
    BY <2>1 DEF Check, Decide, Recover, vars, sessionVars, Exit
  <2>2. CASE Answer
    BY <2>2 DEF Answer, Exit
  <2> QED
    BY <2>1, <2>2
<1>3. OnDevice' = OnDevice /\ SomeValid' = SomeValid /\ Known' = Known
  BY <1>1 DEF OnDevice, SomeValid, Known, searchVars
<1>4. NewestOf(OnDevice)' = NewestOf(OnDevice)
  BY <1>1, <1>3 DEF NewestOf, searchVars
<1> QED
  BY <1>1, <1>2, <1>3, <1>4
  DEF BaseInv, SearchedInv, NothingOnlyIfNothing, searchVars

LEMMA InitVerdictInv == Init => VerdictInv
<1> SUFFICES ASSUME Init PROVE VerdictInv
  OBVIOUS
<1>1. BaseInv
  BY DEF Init, BaseInv, Unknown
<1>2. SearchedInv /\ NothingOnlyIfNothing
  BY DEF Init, Pending, SearchedInv, NothingOnlyIfNothing
<1> QED
  BY <1>1, <1>2 DEF VerdictInv

LEMMA NextVerdictInv == VerdictInv /\ [Next]_vars => VerdictInv'
BY DetectStep, SearchStep, VerdictStep, LaterStep DEF Next, Idle

(* On every device that has a valid PEB where ssdfs_find_any_valid_peb     *)
(* looks, a session that has memory enough says "no file system" only when *)
(* no metadata PEB is left: a volume that lost its base snapshot is not    *)
(* taken for an empty device.                                              *)
THEOREM FsckNothingOnlyIfNothing == Spec => []NothingOnlyIfNothing
<1>1. VerdictInv => NothingOnlyIfNothing
  BY DEF VerdictInv
<1> QED
  BY <1>1, InitVerdictInv, NextVerdictInv, PTL DEF Spec
=============================================================================
