---------------------------- MODULE MkfsOptions -----------------------------
(***************************************************************************)
(* The command line of mkfs.ssdfs (options.c): which values it accepts and *)
(* what is stored.  A command line is a function from the options that are *)
(* given to integers; sizes are in KB, those of an inode and of an index   *)
(* area in bytes, an option without a value is 1, a compression is its id  *)
(* (5 stands for a name that is not known).                                *)
(***************************************************************************)
EXTENDS Rounding, Integers

Given(o, name) == name \in DOMAIN o
With(o, name, value) == IF Given(o, name) THEN o[name] ELSE value

PageSizes == {4, 8, 16, 32}
EraseSizes == { 128 * 2^k : k \in 0 .. 14 }
SegSizes == { 128 * 2^k : k \in 0 .. 19 }
NodeSizes == {4, 8, 16, 32, 64}
InodeSizes == {256, 512, 1024, 2048, 4096}
Compressions == 0 .. 4    \* none, zlib, lzo, lz4, zstd
IndexKeyBytes == 32       \* sizeof(struct ssdfs_btree_index_key)

(* A number of pages of a log or a migration threshold. *)
check_log_pages(v) == v # 0 /\ v < U16Max
check_migration_threshold(v) == v # 0 /\ v < U16Max

(* Zero and negative values of these pass. *)
check_fragments_per_peb(v) == v < U16Max
check_stripes_per_fragment(v) == v < U16Max
check_nand_dies_count(v) == v % 2 = 0

check_reserved_pebs(v) == v # 0 /\ v <= 80
check_min_index_area_size(v) == v % IndexKeyBytes = 0

AcceptsBlkbmap(o) == With(o, "blkbmapCompression", 0) \in Compressions
AcceptsOffsetTable(o) == With(o, "tableCompression", 0) \in Compressions

AcceptsMaptbl(o) ==
  /\ check_stripes_per_fragment(With(o, "stripes", 1))
  /\ check_fragments_per_peb(With(o, "portions", 1))
  /\ check_log_pages(With(o, "maptblLogPages", 1))
  /\ check_migration_threshold(With(o, "maptblThreshold", 1))
  /\ check_reserved_pebs(With(o, "reserved", 1))
  /\ With(o, "maptblCompression", 0) \in Compressions

AcceptsSegbmap(o) ==      \* segs_per_chain is clamped and never used
  /\ check_fragments_per_peb(With(o, "fragments", 1))
  /\ check_log_pages(With(o, "bmapLogPages", 1))
  /\ check_migration_threshold(With(o, "bmapThreshold", 1))
  /\ With(o, "bmapCompression", 0) \in Compressions

AcceptsBtree(o) ==
  /\ With(o, "node", 4) \in NodeSizes
  /\ check_min_index_area_size(With(o, "minIndex", 0))
  /\ \A pages \in {"lnodePages", "hnodePages", "inodePages"} :
       check_log_pages(With(o, pages, 1))

AcceptsUserData(o) ==
  /\ check_log_pages(With(o, "dataLogPages", 1))
  /\ check_migration_threshold(With(o, "dataThreshold", 1))
  /\ With(o, "dataCompression", 0) \in Compressions

(* parse_options ends mkfs with a failure at the first wrong value.  The   *)
(* volume's threshold is stored in 16 bits before it is checked.           *)
AcceptsOptions(o) ==
  /\ AcceptsBlkbmap(o) /\ AcceptsOffsetTable(o) /\ AcceptsMaptbl(o)
  /\ AcceptsSegbmap(o) /\ AcceptsBtree(o) /\ AcceptsUserData(o)
  /\ With(o, "compression", 0) \in Compressions
  /\ check_nand_dies_count(With(o, "dies", 2))
  /\ check_migration_threshold(U16(With(o, "threshold", 1)))
  /\ With(o, "page", 4) \in PageSizes
  /\ With(o, "erase", 128) \in EraseSizes
  /\ With(o, "seg", 128) \in SegSizes
  /\ With(o, "inode", 256) \in InodeSizes
  /\ ~Given(o, "unknown")

(* The layout that main() initialises and the options change.              *)
Layout(o) ==
  [page |-> With(o, "page", 4), erase |-> With(o, "erase", 8192), seg |-> With(o, "seg", 8192),
   dies |-> With(o, "dies", 1), threshold |-> U16(With(o, "threshold", U16Max)),
   force |-> Given(o, "force"),
   compression |-> With(o, "compression", 1),
   blkbmap |-> With(o, "blkbmapCompression", With(o, "compression", 1)),
   blkbmapCopy |-> Given(o, "blkbmapCopy"), tableCopy |-> Given(o, "tableCopy"),
   bmapCopy |-> Given(o, "bmapCopy"), fragments |-> U16(With(o, "fragments", 1)),
   bmapLogPages |-> U16(With(o, "bmapLogPages", U16Max)),
   maptblCopy |-> Given(o, "maptblCopy"), stripes |-> U16(With(o, "stripes", 1)),
   portions |-> U16(With(o, "portions", 1)),
   maptblLogPages |-> U16(With(o, "maptblLogPages", U16Max)),
   node |-> With(o, "node", 8), minIndex |-> U16(With(o, "minIndex", 0)),
   nodePages |-> { U16(With(o, pages, U16Max)) :
                     pages \in {"lnodePages", "hnodePages", "inodePages"} },
   dataLogPages |-> U16(With(o, "dataLogPages", U16Max)),
   thresholds |-> [segbmap |-> U16(With(o, "bmapThreshold", U16Max)),
                   maptbl |-> U16(With(o, "maptblThreshold", U16Max)),
                   data |-> U16(With(o, "dataThreshold", U16Max))]]
=============================================================================
