------------------------------ MODULE MCRecover ------------------------------
(***************************************************************************)
(* Small instances of recoverfs.ssdfs.  The times are 8, 9 and 10: as text *)
(* "10" comes before "8".  So do the inodes 9 (the tree of inodes) and 10. *)
(***************************************************************************)
EXTENDS Recover

MCTimes == {8, 9, 10}
MCInos == {9, 10, 11}
MCOffs == {0, 1}
MCVers == {"a", "b", "c", "n", "m", "t", "inl"}

Text(n) == IF n = 10 THEN <<1, 0>> ELSE IF n = 11 THEN <<1, 1>> ELSE <<n>>
MCBefore(x, y) ==
  LET a == Text(x) b == Text(y)
  IN  a # b /\ \/ a[1] < b[1]
               \/ a[1] = b[1] /\ Len(a) < Len(b)
               \/ a[1] = b[1] /\ Len(a) = 2 /\ Len(b) = 2 /\ a[2] < b[2]

-----------------------------------------------------------------------------
(* Building volumes *)

MainState == [readable |-> TRUE, beyond |-> FALSE, area |-> "main", frags |-> << >>]
Frag(d, sum) == [state |-> "valid", data |-> d, has_csum |-> TRUE, checksum |-> sum]
Unsummed(d) == [state |-> "valid", data |-> d, has_csum |-> FALSE, checksum |-> d]
Blk(ino, off, ver) == [ino |-> ino, off |-> off, ver |-> ver, states |-> <<MainState>>]
Journaled(ino, off, ver, frags) ==
  [ino |-> ino, off |-> off, ver |-> ver,
   states |-> <<[MainState EXCEPT !.area = "journal", !.frags = frags]>>]
Beyond(ino, off, ver) ==
  [ino |-> ino, off |-> off, ver |-> ver, states |-> <<[MainState EXCEPT !.beyond = TRUE]>>]
WithDelta(ino, off, ver) ==
  [ino |-> ino, off |-> off, ver |-> ver, states |-> <<MainState, MainState>>]

Part(count, frags) == [magic |-> TRUE, bytes |-> 4, count |-> count, frags |-> frags]
Good(blocks) == [state |-> "valid", blocks |-> blocks]
Bad(s) == [state |-> s, blocks |-> << >>]
Table(blocks) == <<Part(1, <<Good(blocks)>>)>>

NonePage == [kind |-> "none"]
Log(kind, seg, time, footer, bytes, end, table) ==
  [kind |-> kind, seg |-> seg, time |-> time, footer |-> footer, bytes |-> bytes,
   end |-> end, beyond |-> FALSE,
   area |-> IF table = << >> THEN "invalid" ELSE "readable", table |-> table]
Full(time, blocks) == Log("full", "user", time, "valid", 2, 0, Table(blocks))
Partial(time, blocks) == Log("partial", "user", time, "absent", 1, 0, Table(blocks))
Sb == Log("full", "sb", 8, "absent", 0, 2, << >>)
Node == [type |-> "leaf", blocks |-> 1, filled |-> FALSE,
         items |-> <<[ino |-> 11, inline |-> TRUE, ver |-> "inl"]>>]
Twice == [Node EXCEPT !.items = @ \o <<[ino |-> 11, inline |-> TRUE, ver |-> "b"]>>]
MCNodeOf == [v \in MCVers |-> CASE v = "n" -> Node
                                [] v = "m" -> [Node EXCEPT !.type = "index"]
                                [] v = "t" -> Twice
                                [] OTHER   -> NoNode]

(* Two PEBs of two pages.  A volume of two workers' logs in which a newer  *)
(* version of a block is in the other PEB; one with a table of two         *)
(* portions; damaged ones.                                                 *)
Pages2(a, b) == <<a, b>>
Vol(x, y) == [p \in 0 .. 1 |-> IF p = 0 THEN x ELSE y]

Versions1 ==
  Vol(Pages2(Full(8, <<Blk(9, 0, "n"), Blk(10, 0, "a")>>), Partial(9, <<Blk(9, 1, "m")>>)),
      Pages2(Full(9, <<Blk(10, 0, "b"), WithDelta(10, 1, "c")>>), NonePage))
LexicalTimes ==
  Vol(Pages2(Full(8, <<Blk(9, 0, "n")>>), Full(10, <<Blk(9, 0, "m")>>)),
      Pages2(Full(9, <<Journaled(10, 0, "a", <<Frag("a", "b")>>)>>), NonePage))
TwoPortions ==
  Vol(Pages2(Full(8, <<Blk(9, 0, "m")>>), NonePage),
      Pages2(Log("full", "maptbl", 9, "absent", 0, 3,
              <<Part(2, <<Good(<<Blk(10, 0, "a")>>)>>),
                Part(1, <<Good(<<Blk(10, 1, "b")>>)>>)>>), NonePage))
ThreePortions ==
  Vol(Pages2(Full(8, <<Blk(9, 0, "n")>>), NonePage),
      Pages2(Log("partial", "user", 9, "absent", 2, 0,
              <<Part(2, <<Good(<<Blk(10, 0, "a")>>)>>),
                Part(2, <<Good(<<Blk(10, 0, "a")>>)>>),
                Part(1, <<Good(<<Blk(10, 1, "b")>>)>>)>>), NonePage))
Damaged ==
  Vol(Pages2(Full(8, <<Blk(9, 1, "n")>>), [kind |-> "node"]),
      Pages2([kind |-> "footer"],
          Log("full", "user", 9, "unreadable", 0, 0, Table(<<Blk(10, 0, "a")>>))))
NoLength ==
  Vol(Pages2(Full(8, <<Blk(9, 0, "c")>>), NonePage),
      Pages2(Log("partial", "user", 9, "absent", 0, 0,
              <<Part(1, <<Bad("corrupt")>>)>>), [kind |-> "bad"]))
(* Blocks of two fragments, a right one and one whose second fragment is   *)
(* damaged, which a first fragment without checksum hides.                 *)
Fragmented ==
  Vol(Pages2(Full(8, <<Blk(9, 0, "n"), Journaled(10, 0, "a", <<Frag("a", "a"), Frag("a", "a")>>)>>),
             NonePage),
      Pages2(Full(9, <<Journaled(10, 0, "b", <<Frag("b", "b"), Frag("c", "b")>>),
                       Journaled(10, 1, "c", <<Unsummed("c"), Unsummed("b")>>)>>), NonePage))
Uncompared ==
  Vol(Pages2(Full(8, <<Blk(9, 0, "m"), Journaled(10, 0, "c", <<Unsummed("c"), Frag("b", "c")>>)>>),
             NonePage),
      Pages2(NonePage, NonePage))
(* What the logs say of their areas, or of a block, leads beyond the device. *)
AreaBeyond ==
  Vol(Pages2(Full(8, <<Blk(9, 0, "m")>>), NonePage),
      Pages2([Full(9, <<Blk(10, 0, "a")>>) EXCEPT !.beyond = TRUE], NonePage))
BlockBeyond ==
  Vol(Pages2(Full(8, <<Blk(9, 0, "m"), Beyond(10, 0, "a")>>), NonePage),
      Pages2(NonePage, NonePage))
Inodes ==
  Vol(Pages2(Full(8, <<Blk(9, 0, "n"), Blk(9, 1, "t")>>), NonePage),
      Pages2(NonePage, NonePage))
SbOnly == Vol(Pages2(Sb, Sb), Pages2(Partial(8, <<Blk(9, 0, "a")>>), NonePage))
NoVolume == Vol(Pages2(NonePage, NonePage), Pages2(NonePage, NonePage))

(* A superblock log behind another log, and user data of another PEB. *)
StaleVolume ==
  Vol(Pages2(Full(8, <<Blk(9, 0, "n")>>), Sb),
      Pages2(Full(9, <<Blk(10, 0, "a"), Blk(10, 1, "b")>>), NonePage))

(* A log without a folder that describes a block all the same. *)
SbTable ==
  Vol(Pages2(Full(8, <<Blk(9, 0, "n"), Blk(10, 0, "b")>>),
             Log("full", "sb", 9, "absent", 0, 2, Table(<<Blk(10, 0, "a")>>))),
      Pages2(Full(9, <<Blk(10, 1, "b")>>), NonePage))

MCVolumes ==
  [versions |-> Versions1, lexical |-> LexicalTimes, portions |-> TwoPortions,
   endless |-> ThreePortions, damaged |-> Damaged, nolength |-> NoLength,
   sb |-> SbOnly, stale |-> StaleVolume, sbtable |-> SbTable, none |-> NoVolume,
   fragmented |-> Fragmented, uncompared |-> Uncompared, inodes |-> Inodes,
   areabeyond |-> AreaBeyond, blockbeyond |-> BlockBeyond]

MCStaleVolumes == [stale |-> StaleVolume]

-----------------------------------------------------------------------------
(* 8 is in December 2024, 9 and 10 in February and March 2025. *)
When(y, m, d, h, mi) ==
  [year |-> y, month |-> m, day |-> d, hour |-> h, minute |-> mi]
MCCal == [t \in MCTimes |-> CASE t = 8  -> When(2024, 12, 5, 9, 30)
                              [] t = 9  -> When(2025, 2, 5, 10, 30)
                              [] t = 10 -> When(2025, 3, 6, 11, 30)]
MCNow == When(2025, 3, 7, 12, 0)
NoRange == When(AnyTime, AnyTime, AnyTime, AnyTime, AnyTime)
Ranges == { NoRange, When(2025, 12, 5, 10, 30), When(AnyTime, AnyTime, AnyTime, 9, AnyTime),
            When(2024, AnyTime, AnyTime, AnyTime, AnyTime), When(2025, 12, AnyTime, AnyTime, AnyTime) }
MCAsked == [v \in DOMAIN MCVolumes |-> IF v = "versions" THEN Ranges ELSE {NoRange}]
MCNoRange == [v \in DOMAIN MCStaleVolumes |-> {NoRange}]

(* Each call fails on one of the volumes. *)
MCFaults ==
  [v \in DOMAIN MCVolumes |->
     CASE v = "lexical"  -> {"mkdirat", "openat", "calloc", "write"}
       [] v = "portions" -> {"job", "block", "data", "lseek", "folder", "rmdir"}
       [] v = "inodes"   -> {"node", "inline"}
       [] v = "damaged"  -> {"pool", "init", "pthread_create", "scandir"}
       [] v = "sbtable"  -> {"calloc"}
       [] v = "none"     -> {"open"}
       [] OTHER          -> {}]
MCNoFaults == [v \in DOMAIN MCStaleVolumes |-> {}]
=============================================================================
