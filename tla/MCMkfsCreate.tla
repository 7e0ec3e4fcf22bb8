---------------------------- MODULE MCMkfsCreate ----------------------------
EXTENDS MkfsCreate, TLC

Block(size) == [zns |-> FALSE, size |-> size, zone |-> 1]
Zoned(size, zone) == [zns |-> TRUE, size |-> size, zone |-> zone]

Sizes(page, erase, seg) == ("page" :> page) @@ ("erase" :> erase) @@ ("seg" :> seg)

(* Sizes alone: every page size with small and large PEBs and segments. *)
SizeCommands ==
  { Sizes(p, e, e * n) : p \in PageSizes, e \in {128, 512, 2048, 8192}, n \in {1, 2, 4, 64} }
  \cup { Sizes(4, e, e * n) : e \in {128, 512, 8192}, n \in {512, 1024} }
  \cup {<<>>, Sizes(8, 65536, 65536), Sizes(4, 65536, 65536), Sizes(4, 256, 128)}

(* Options on top of small sizes. *)
Extra ==
  { x :> v : x \in {"fragments", "stripes", "portions"}, v \in {0, 2, 20, 100} }
  \cup { x :> v : x \in {"bmapLogPages", "maptblLogPages", "dataLogPages"}, v \in {3, 16, 100, -65536} }
  \cup { x :> 1 : x \in {"blkbmapCopy", "tableCopy", "bmapCopy", "maptblCopy", "force", "wipe", "help", "unknown"} }
  \cup { "dies" :> v : v \in {0, 2, 4} } \cup { "node" :> v : v \in {4, 32, 64} }
  \cup { "minIndex" :> v : v \in {32, 64, 2048} }
  \cup { "compression" :> 0, "threshold" :> 1, "bmapThreshold" :> 9, "lnodePages" :> -65536,
         "lnodePages" :> 4 }
  \cup { ("blkbmapCopy" :> 1) @@ ("tableCopy" :> 1), ("stripes" :> 0) @@ ("dies" :> 0),
         ("bmapCopy" :> 1) @@ ("fragments" :> 4), ("stripes" :> 15) @@ ("portions" :> 23) }

MCCommands ==
  SizeCommands
  \cup { Sizes(4, 128, 128 * n) @@ x : n \in {1, 4}, x \in Extra }
  \cup { Sizes(4, 2048, 2048) @@ x : x \in Extra }

MCDevices ==
  { Block(128 * 1000), Block(128 * 20000), Block(1024 * 1024 * 64), Block(128 * 2080000),
    Block(512 * 1100000) }
  \cup { Zoned(65536 * 300, 65536) }
MCPacked == {10, 100}
=============================================================================
