------------------------------- MODULE MCFsck -------------------------------
(***************************************************************************)
(* A device of three PEBs (the last one is not probed) on which volumes    *)
(* were created at two times.                                              *)
(***************************************************************************)
EXTENDS Fsck

(* Five threads do not fit three PEBs: the last one starts at PEB 4. *)
MCThreads == {2, 5}

MCTimes == {1, 2}
MCHeaders == { [type |-> "snapshot", time |-> 1], [type |-> "snapshot", time |-> 2],
               [type |-> "sb", time |-> 2] }
=============================================================================
