----------------------------- MODULE MCSbChain ------------------------------
(* Four PEBs: the base snapshot and up to three superblock segments. *)
EXTENDS SbChain
=============================================================================
