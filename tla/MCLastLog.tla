----------------------------- MODULE MCLastLog ------------------------------
(* A PEB of four pages: logs of one or two pages fill it, a log of five is *)
(* longer than the PEB, and a length of zero is corrupt.  One page of      *)
(* another PEB follows, then the device ends.                              *)
EXTENDS LastLog

MCLogPages == {0, 1, 2, 5}
=============================================================================
