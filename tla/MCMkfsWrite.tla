---------------------------- MODULE MCMkfsWrite -----------------------------
(***************************************************************************)
(* Pages of three bytes, PEBs of two pages, four PEBs.  The initial        *)
(* snapshot in PEB 0 has up to three extents with every gap and overlap;   *)
(* the superblock segment has one PEB, followed by a segment without any.  *)
(***************************************************************************)
EXTENDS MkfsWrite

Extents == [off : 0 .. 5, size : 1 .. 4]

Follows(x, y) == y.off \in x.off + x.size - 1 .. x.off + x.size + 3

Logs ==
  { <<x>> : x \in { e \in Extents : e.off < 3 } } \cup
  { <<x, y>> : <<x, y>> \in { p \in Extents \X Extents :
                               p[1].off < 2 /\ Follows(p[1], p[2]) } } \cup
  { <<x, y, z>> : <<x, y, z>> \in
      { p \in Extents \X Extents \X Extents :
          p[1].off = 1 /\ p[1].size < 3 /\ p[2].size < 3 /\ p[3].size < 2
          /\ Follows(p[1], p[2]) /\ Follows(p[2], p[3]) } }

Sb(peb) == [type |-> "sb", id |-> 1,
            pebs |-> <<[id |-> peb, extents |-> <<[off |-> 0, size |-> 2],
                                                 [off |-> 3, size |-> 1]>>]>>]

MCLayouts ==
  { [perSeg |-> 1, capacity |-> 3,
     segs |-> <<[type |-> "snapshot", id |-> 0, pebs |-> <<[id |-> 0, extents |-> log]>>],
                Sb(1), [type |-> "sb", id |-> 2, pebs |-> << >>]>>] : log \in Logs }
  \cup
  { [perSeg |-> 2, capacity |-> n,
     segs |-> <<[type |-> "snapshot", id |-> 0,
                 pebs |-> <<[id |-> 0, extents |-> <<[off |-> 1, size |-> 4]>>]>>],
                Sb(peb)>>] : peb \in {0, 2}, n \in {2, 3} }
=============================================================================
