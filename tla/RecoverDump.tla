----------------------------- MODULE RecoverDump -----------------------------
(***************************************************************************)
(* How recoverfs.ssdfs reads one log: the length of the log, the iterator  *)
(* over its table of block descriptors, and the content of a block.        *)
(*                                                                         *)
(* A table is a sequence of portions.  A portion has a chain header, with  *)
(* the number of fragments it claims and the bytes of its content, and its *)
(* fragments, each of which is "valid", has no magic ("absent"), or does   *)
(* not decompress or fails its checksum ("corrupt").  A fragment holds     *)
(* block descriptors; a descriptor names an inode, an offset in the file   *)
(* and the states of the block: a base state and deltas.                   *)
(***************************************************************************)
EXTENDS Integers, Sequences

CONSTANTS
  PageBytes,     \* SSDFS_4KB, in the units of log_bytes
  LogsCount,     \* erase_size / SSDFS_4KB: 4 KB pages of a PEB
  ChainMax,      \* SSDFS_FRAGMENTS_CHAIN_MAX
  HdrBytes,      \* sizeof(struct ssdfs_area_block_table)
  FragsPerBlock  \* page_size / SSDFS_4KB

ASSUME DumpAssumption ==
  /\ PageBytes \in Nat \ {0}
  /\ LogsCount \in Nat \ {0}
  /\ ChainMax \in Nat \ {0}
  /\ HdrBytes \in Nat \ {0}
  /\ FragsPerBlock \in Nat \ {0}

-----------------------------------------------------------------------------
(* The next log *)

Pages(bytes) == (bytes + PageBytes - 1) \div PageBytes

(* Without a footer the log ends where its last area ends. *)
DefineNextLogIndex(index, end) ==
  LET offset == index * PageBytes
      size   == IF end > offset THEN end - offset ELSE PageBytes
  IN  IF end > 0 THEN index + Pages(size) ELSE index + 1

FullLogNext(hdr, index) ==
  CASE hdr.footer = "valid"      -> index + Pages(hdr.bytes)
    [] hdr.footer = "absent"     -> DefineNextLogIndex(index, hdr.end)
    [] hdr.footer = "unreadable" -> index + 1

PartialLogNext(hdr, index) == index + Pages(hdr.bytes)

NextLogIndex(hdr, index) ==
  IF hdr.kind = "full" THEN FullLogNext(hdr, index) ELSE PartialLogNext(hdr, index)

(* The descriptors are read only when the footer could be read, and their  *)
(* area has a place in the PEB and can be read.                            *)
HasTable(hdr) == hdr.footer # "unreadable" /\ hdr.area = "readable"

-----------------------------------------------------------------------------
(* The iterator.  A position is a portion's offset in the area, a fragment *)
(* and an item of the fragment; Start is the state before the first item   *)
(* and Stop ends the loop over the descriptors.                            *)

Start == [portion |-> -1, fragment |-> -1, item |-> 0]
Stop == [portion |-> -1, fragment |-> -1, item |-> -1]

PortionOffset(table, k) ==
  LET at[j \in 1 .. Len(table)] ==
        IF j = 1 THEN 0 ELSE at[j - 1] + HdrBytes + table[j - 1].bytes
  IN  at[k]

(* ssdfs_read_portion_header copies what is at the offset. *)
PortionAt(table, offset) ==
  { k \in 1 .. Len(table) : PortionOffset(table, k) = offset /\ table[k].magic }

FragmentState(portion, f) ==
  IF f < Len(portion.frags) THEN portion.frags[f + 1].state ELSE "absent"

(* ssdfs_copy_blk_desc_fragment: the items of the fragment, or the error. *)
CopyFragment(portion, offset, f) ==
  CASE FragmentState(portion, f) = "valid" ->
         [portion |-> offset, fragment |-> f, item |-> 1]
    [] FragmentState(portion, f) = "corrupt" -> Stop

FragmentsCount(portion) ==
  IF portion.count = 0 \/ portion.count > ChainMax THEN ChainMax ELSE portion.count

(* The fragments without magic are passed over. *)
Candidates(portion, f) ==
  { g \in f .. FragmentsCount(portion) - 1 : FragmentState(portion, g) # "absent" }

ExtractValidFragment(portion, offset, f) ==
  CopyFragment(portion, offset,
               CHOOSE g \in Candidates(portion, f) :
                 \A h \in Candidates(portion, f) : g <= h)

FirstContent(table, offset) ==
  LET ks == PortionAt(table, offset)
      p  == table[CHOOSE k \in ks : TRUE]
  IN  IF ks = {} \/ Candidates(p, 0) = {} THEN Stop
      ELSE ExtractValidFragment(p, offset, 0)

(* The next portion is looked for at the size of this one from the start   *)
(* of the area, and only when a fragment that is claimed is not there.     *)
NextContent(table, it) ==
  LET p == table[CHOOSE k \in PortionAt(table, it.portion) : TRUE]
      f == it.fragment + 1
  IN  CASE f >= p.count -> Stop
        [] f < p.count /\ Candidates(p, f) # {} ->
             ExtractValidFragment(p, it.portion, f)
        [] f < p.count /\ Candidates(p, f) = {} ->
             FirstContent(table, HdrBytes + p.bytes)

ItemsOf(table, it) ==
  table[CHOOSE k \in PortionAt(table, it.portion) : TRUE].frags[it.fragment + 1].blocks

(* ssdfs_recoverfs_get_next_blk_desc and SSDFS_CONTENT_ITERATOR_INCREMENT. *)
NextDescriptor(table, it) ==
  CASE it = Start -> FirstContent(table, 0)
    [] it # Start /\ it.item < Len(ItemsOf(table, it)) ->
         [it EXCEPT !.item = @ + 1]
    [] it # Start /\ it.item >= Len(ItemsOf(table, it)) -> NextContent(table, it)

DescriptorAt(table, it) == ItemsOf(table, it)[it.item]

-----------------------------------------------------------------------------
(* The content of a block *)

Crc32(data) == data

\* A plausible bug: the checksum of a fragment is not compared.
FragmentReadableUnchecked(frags, i) ==
  \/ i >= Len(frags)
  \/ frags[i + 1].state = "valid"

(* ssdfs_recoverfs_parse_block_fragment: a fragment beyond the chain is    *)
(* left as zeros; every checksum is compared with that of the first        *)
(* fragment.                                                               *)
FragmentReadable(frags, i) ==
  \/ i >= Len(frags)
  \/ /\ frags[i + 1].state = "valid"
     /\ frags[1].has_csum => Crc32(frags[i + 1].data) = frags[1].checksum

(* The base state lies in the main area as it is, in the other two areas   *)
(* in fragments.  ssdfs_recoverfs_read_raw_block_state has read it from    *)
(* the area of this log.                                                   *)
ReadRawBlockState(state) == state.readable

ParseBlockState(state) ==
  \/ state.area = "main"
  \/ /\ state.area \in {"diffs", "journal"}
     /\ \A i \in 0 .. FragsPerBlock - 1 : FragmentReadable(state.frags, i)

(* The block's place, which the medium gives, passes the end of the        *)
(* device: ssdfs_pread repeats the read of no bytes for ever.              *)
ReadsBeyond(desc) == Len(desc.states) > 0 /\ desc.states[1].beyond

(* Deltas are not supported: the first one ends the extraction in error.   *)
ReadDelta(state) == FALSE

ReadBlockState(k, state) ==
  IF k = 1 THEN ReadRawBlockState(state) /\ ParseBlockState(state)
           ELSE ReadDelta(state)

ExtractBlockState(desc) ==
  /\ Len(desc.states) > 0
  /\ \A k \in 1 .. Len(desc.states) : ReadBlockState(k, desc.states[k])
=============================================================================
