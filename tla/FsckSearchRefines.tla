------------------------- MODULE FsckSearchRefines --------------------------
(***************************************************************************)
(* The whole-volume search with its threads implements VolumeSearch.       *)
(***************************************************************************)
EXTENDS FsckSearch

(* The point the detection of the base snapshot left: it is lost only with *)
(* the whole array of points.                                              *)
BasePoint ==
  LET known == { k \in DOMAIN array.points :
                   "base_snapshot" \in array.points[k].found }
  IN  IF known = {} THEN [time |-> NoTime, found |-> {}]
      ELSE LET p == array.points[CHOOSE k \in known : TRUE]
           IN  [time |-> p.time, found |-> p.found \ {"peb_map"}]

Over == pc \in {"done", "crashed"}

NewestPoint ==
  LET p == array.points[Len(array.points)]
  IN  IF pc = "done" /\ res = "success"
      THEN [time |-> p.time, found |-> p.found]
      ELSE [time |-> NoTime, found |-> {}]

Abstract == INSTANCE VolumeSearch WITH
  base <- BasePoint,
  newest <- NewestPoint,
  outcome <- IF pc = "done" THEN res ELSE IF pc = "crashed" THEN pc ELSE "pending",
  oom <- Over /\ oom

(* The search, with its interleaved workers and its merge, does in effect  *)
(* one step: when it succeeds and no allocation failed, the last creation  *)
(* point is that of the newest volume with a metadata PEB on the device,   *)
(* and what the detection had found of it is kept.                         *)
ImplementsSearch ==
  Abstract!Pending /\ [][Abstract!SearchNext]_(Abstract!searchVars)
=============================================================================
