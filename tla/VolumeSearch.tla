---------------------------- MODULE VolumeSearch ----------------------------
(***************************************************************************)
(* What execute_whole_volume_search promises to its caller, with no word   *)
(* of threads, maps or arrays: in one step it names the newest creation    *)
(* point of the device, the newest volume that was ever created on it.     *)
(* Only when memory runs out it may fail, crash, or miss PEBs.             *)
(***************************************************************************)
EXTENDS Naturals

CONSTANTS Times, NoTime, Headers, MayFailAlloc

VARIABLES
  vol,      \* the header of each PEB, or something else
  base,     \* the creation point known before the search
  newest,   \* the last creation point after the search
  outcome,  \* of the search
  oom       \* an allocation failed

searchVars == <<vol, base, newest, outcome, oom>>

Unknown == [time |-> NoTime, found |-> {}]

(* The volumes whose metadata PEBs are on the device. *)
OnDevice == { vol[p].time : p \in { q \in DOMAIN vol : vol[q] \in Headers } }

Known == IF base.time = NoTime THEN {} ELSE {base.time}

(* The newest creation point when the PEBs of the volumes in seen are found. *)
NewestOf(seen) ==
  IF seen \cup Known = {} THEN base
  ELSE LET t == CHOOSE u \in seen \cup Known : \A v \in seen \cup Known : v <= u
       IN  [time |-> t,
            found |-> (IF t = base.time THEN base.found ELSE {})
                      \cup (IF t \in seen THEN {"peb_map"} ELSE {})]

Pending == newest = Unknown /\ outcome = "pending" /\ oom = FALSE

Found ==
  /\ outcome = "pending"
  /\ outcome' = "success"
  /\ newest' = NewestOf(OnDevice)
  /\ UNCHANGED <<vol, base, oom>>

FoundPart ==
  /\ MayFailAlloc
  /\ outcome = "pending"
  /\ outcome' = "success"
  /\ \E seen \in SUBSET Times : newest' = NewestOf(seen)
  /\ oom' = TRUE
  /\ UNCHANGED <<vol, base>>

(* What was known before may be lost with a failure. *)
Fail ==
  /\ MayFailAlloc
  /\ outcome = "pending"
  /\ outcome' \in {"failure", "crashed"}
  /\ base' \in {base} \cup (IF outcome' = "failure" THEN {Unknown} ELSE {})
  /\ oom' \in BOOLEAN
  /\ UNCHANGED <<vol, newest>>

SearchNext == Found \/ FoundPart \/ Fail
=============================================================================
