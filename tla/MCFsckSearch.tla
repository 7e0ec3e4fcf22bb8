---------------------------- MODULE MCFsckSearch ----------------------------
(***************************************************************************)
(* Small instances of the whole-volume search for TLC: two volumes have    *)
(* been created on the device, with segments of two types.                 *)
(***************************************************************************)
EXTENDS FsckSearchRefines

MCTimes == {1, 2}
MCHeaders == { [type |-> "sb", time |-> 1], [type |-> "maptbl", time |-> 2] }
MCNoHeaders == {}

(* All devices of four PEBs, which leave the third worker without work,    *)
(* and of one PEB, beyond which the third worker starts.  With seven PEBs  *)
(* the first worker has three, all metadata: its map grows twice.          *)
LargeVolumes ==
  { [p \in 0 .. 6 |-> IF p = 6 THEN x ELSE IF p < 3 THEN v[p] ELSE Other] :
      v \in [0 .. 2 -> Headers], x \in Images }
MCVolumes == [0 .. 0 -> Images] \cup [0 .. 3 -> Images] \cup LargeVolumes
MCFiveEmpty == [0 .. 4 -> {Other}]
=============================================================================
