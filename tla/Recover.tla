------------------------------- MODULE Recover -------------------------------
(***************************************************************************)
(* A session of recoverfs.ssdfs: the raw dump (RecoverScan), the synthesis *)
(* of files from the dumped blocks by a second pool of threads, the        *)
(* deletion of the checkpoint folders, and the extraction of the files     *)
(* that are kept inside their inodes.                                      *)
(***************************************************************************)
EXTENDS RecoverScan, TimeFilter, SequencesExt

CONSTANTS
  Asked,      \* time ranges option -t may give, for each volume
  Now,        \* the current time
  Cal,        \* the local time of each timestamp
  Before(_, _), \* the order of alphasort() on decimal names
  InodesIno,  \* SSDFS_INODES_BTREE_INO
  NodeOf,     \* the node of the inodes tree a block starts, or NoNode
  NoNode

ASSUME RecoverAssumption ==
  /\ Asked \in [DOMAIN Volumes -> SUBSET TimeRanges]
  /\ Now \in Calendar /\ \A f \in Fields : Now[f] # AnyTime
  /\ Cal \in [Times -> Calendar]
  /\ InodesIno \in Inos
  /\ DOMAIN NodeOf = Vers
  /\ \A v \in Vers : NodeOf[v] # NoNode =>
       NodeOf[v].items \in Seq([ino : Inos, inline : BOOLEAN, ver : Vers])

(* Names are ordered as text: any two of them, and in one way. *)
ASSUME BeforeAssumption ==
  LET numbers == Times \cup Inos \cup Offs
  IN  \A a, b \in numbers :
        /\ Before(a, b) => a # b /\ ~Before(b, a)
        /\ a # b => Before(a, b) \/ Before(b, a)
        /\ \A c \in numbers : Before(a, b) /\ Before(b, c) => Before(a, c)

VARIABLES
  asked,   \* option -t
  range,   \* env.timestamp, filled in by the tests
  list,    \* names of the checkpoint folders: output_folder.content
  names,   \* inodes of the files of a folder, in the order of scandir
  k,       \* index in names, or in the nodes of the inodes tree
  jobs,    \* the threads that build files
  files,   \* the blocks of the files in the output folder
  out,     \* the files that exist there
  exit     \* exit status, -1 while the session runs

buildVars == <<list, names, k, jobs, range>>
outVars == <<files, out>>
vars == <<scanVars, pc, i, faults, asked, buildVars, outVars, exit>>

Places == Inos \X Offs

Init ==
  /\ ScanInit
  /\ pc = "open" /\ i = 0
  /\ faults = << >>
  /\ asked \in Asked[vol]
  /\ range = asked
  /\ list = << >> /\ names = << >> /\ k = 0 /\ jobs = << >>
  /\ files = [p \in Places |-> None]
  /\ out = {}
  /\ exit = -1

-----------------------------------------------------------------------------
(* Opening, and the end of the session *)

(* The device cannot be opened, or the output folder cannot be opened or   *)
(* created, or it is not empty.                                            *)
OpenFails ==
  /\ pc = "open"
  /\ MayFail("open")
  /\ pc' = "exit" /\ exit' = 1
  /\ UNCHANGED <<scanVars, i, asked, buildVars, outVars>>

Opened ==
  /\ pc = "open"
  /\ pc' = "probe"
  /\ UNCHANGED <<scanVars, i, faults, asked, buildVars, outVars, exit>>

(* ssdfs_find_any_valid_peb tries PEB 0, PEB 1 and then distances that     *)
(* double: PEBs 3, 7, 15, ...                                              *)
Probed == { 2^n - 1 : n \in 0 .. PebsCount } \cap Pebs

AnyValidPeb == \E peb \in Probed : Volumes[vol][peb][1].kind = "full"

(* No PEB is found, or the pool cannot be allocated. *)
ProbeFails ==
  /\ pc = "probe"
  /\ \/ ~AnyValidPeb /\ faults' = faults
     \/ AnyValidPeb /\ MayFail("pool")
  /\ pc' = "exit" /\ exit' = 1
  /\ UNCHANGED <<scanVars, i, asked, buildVars, outVars>>

CreatePool ==
  /\ pc = "probe"
  /\ AnyValidPeb
  /\ pc' = "spawn" /\ i' = 0
  /\ UNCHANGED <<scanVars, faults, asked, buildVars, outVars, exit>>

Failed(call) ==
  /\ MayFail(call)
  /\ pc' = "free" /\ exit' = 1

(* The pool is released; the error of the last step is the exit status. *)
FreePool ==
  /\ pc = "free"
  /\ pc' = "exit"
  /\ exit' = IF exit = -1 THEN 1 ELSE exit
  /\ UNCHANGED <<scanVars, i, faults, asked, buildVars, outVars>>

-----------------------------------------------------------------------------
(* ssdfs_recoverfs_synthesize_files *)

(* scandir with alphasort. *)
Sorted(entries, order) ==
  CHOOSE s \in SetToSeqs(entries) :
    \A m, n \in DOMAIN s : m < n => <<s[m], s[n]>> \in order

TimeOrder == { x \in Times \X Times : Before(x[1], x[2]) }

\* A plausible bug: the folders are taken from the last to the first.
StartSynthesisBackwards ==
  /\ pc = "join" /\ i = Capacity
  /\ list' = Reverse(Sorted(folders, TimeOrder))
  /\ pc' = "filter" /\ i' = 1
  /\ UNCHANGED <<scanVars, faults, asked, names, k, jobs, range, outVars, exit>>

StartSynthesis ==
  /\ pc = "join" /\ i = Capacity
  /\ list' = Sorted(folders, TimeOrder)
  /\ pc' = "filter" /\ i' = 1
  /\ UNCHANGED <<scanVars, faults, asked, names, k, jobs, range, outVars, exit>>

ScanOutputFails ==
  /\ pc = "join" /\ i = Capacity
  /\ Failed("scandir")
  /\ UNCHANGED <<scanVars, i, asked, buildVars, outVars>>

Verdict == InsideRange(range, Now, Cal[list[i]])

FilterFolder ==
  /\ pc = "filter" /\ i <= Len(list)
  /\ range' = Verdict.range
  /\ IF Verdict.in THEN pc' = "round" /\ i' = i ELSE pc' = pc /\ i' = i + 1
  /\ UNCHANGED <<scanVars, faults, asked, list, names, k, jobs, outVars, exit>>

(* ssdfs_recoverfs_build_files_in_folder: until the folder is empty, one   *)
(* thread per inode, as many as the pool takes.  A call that has failed    *)
(* may go on failing: the synthesis repeats it in every round.             *)
KeepsFailing(call) ==
  \/ MayFail(call)
  \/ call \in Range(faults) /\ faults' = faults

BlocksIn(time) == { p \in Places : dump[<<time, p[1], p[2]>>] # None }

FolderBuilt ==
  /\ pc = "round"
  /\ BlocksIn(list[i]) = {}
  /\ pc' = "filter" /\ i' = i + 1
  /\ UNCHANGED <<scanVars, faults, asked, buildVars, outVars, exit>>

NameOrder ==
  { x \in Places \X Places :
      \/ Before(x[1][1], x[2][1])
      \/ x[1][1] = x[2][1] /\ Before(x[1][2], x[2][2]) }

(* The folder cannot be read: it is left as it is. *)
ScanFolderFails ==
  /\ pc = "round"
  /\ MayFail("scandir")
  /\ pc' = "filter" /\ i' = i + 1
  /\ UNCHANGED <<scanVars, asked, buildVars, outVars, exit>>

StartRound ==
  /\ pc = "round"
  /\ BlocksIn(list[i]) # {}
  /\ names' = [n \in 1 .. Cardinality(BlocksIn(list[i])) |->
                 Sorted(BlocksIn(list[i]), NameOrder)[n][1]]
  /\ k' = 1 /\ jobs' = << >>
  /\ pc' = "jobs"
  /\ UNCHANGED <<scanVars, i, faults, asked, list, range, outVars, exit>>

(* ssdfs_recoverfs_add_inode_id_job: the names come in the order of text,  *)
(* an inode below that of the last job waits for the next round.           *)
WantsJob ==
  /\ k <= Len(names)
  /\ Len(jobs) < Capacity
  /\ Len(jobs) > 0 => jobs[Len(jobs)].ino < names[k]

NewJob == [pc |-> "run", ino |-> names[k], f |-> 1, range |-> range]

AddJob ==
  /\ pc = "jobs" /\ WantsJob
  /\ jobs' = Append(jobs, NewJob)
  /\ k' = k + 1
  /\ UNCHANGED <<scanVars, pc, i, faults, asked, list, names, range, outVars, exit>>

SkipName ==
  /\ pc = "jobs" /\ k <= Len(names)
  /\ ~WantsJob /\ Len(jobs) < Capacity
  /\ k' = k + 1
  /\ UNCHANGED <<scanVars, pc, i, faults, asked, list, names, jobs, range, outVars, exit>>

AllJobsDone == \A j \in DOMAIN jobs : jobs[j].pc = "exit"

(* The job cannot be started: those before it are joined, the loop over    *)
(* the names goes on with an empty pool.                                   *)
AddJobFails ==
  /\ pc = "jobs" /\ WantsJob
  /\ AllJobsDone
  /\ KeepsFailing("job")
  /\ jobs' = << >>
  /\ k' = k + 1
  /\ UNCHANGED <<scanVars, pc, i, asked, list, names, range, outVars, exit>>

JoinJobs ==
  /\ pc = "jobs"
  /\ k > Len(names) \/ Len(jobs) >= Capacity
  /\ AllJobsDone
  /\ pc' = "round" /\ jobs' = << >>
  /\ UNCHANGED <<scanVars, i, faults, asked, list, names, k, range, outVars, exit>>

-----------------------------------------------------------------------------
(* A thread that builds a file walks all the folders of the time range, in *)
(* the order of their names: what a later one holds overwrites.            *)

JobRuns(j) == j \in DOMAIN jobs /\ jobs[j].pc = "run"
JobFolder(j) == list[jobs[j].f]
JobVerdict(j) == InsideRange(jobs[j].range, Now, Cal[JobFolder(j)])
OwnBlocks(j) == { p \in BlocksIn(JobFolder(j)) : p[1] = jobs[j].ino }

JobDone(j) ==
  /\ JobRuns(j)
  /\ jobs[j].f > Len(list)
  /\ jobs' = [jobs EXCEPT ![j].pc = "exit"]
  /\ UNCHANGED <<scanVars, pc, i, faults, asked, list, names, k, range, outVars, exit>>

NextFolder(j) ==
  jobs' = [jobs EXCEPT ![j].f = @ + 1, ![j].range = JobVerdict(j).range]

JobSkipsFolder(j) ==
  /\ JobRuns(j) /\ jobs[j].f <= Len(list)
  /\ ~JobVerdict(j).in
  /\ NextFolder(j)
  /\ UNCHANGED <<scanVars, pc, i, faults, asked, list, names, k, range, outVars, exit>>

\* A plausible bug: a file of no bytes is copied as well.
SynthesizedEmpty(j, unread, kept) ==
  LET copied == OwnBlocks(j) \ unread
  IN  /\ files' = [p \in Places |-> IF p \in copied
                                    THEN dump[<<JobFolder(j), p[1], p[2]>>]
                                    ELSE files[p]]
      /\ dump' = [key \in Keys |->
                    IF /\ key[1] = JobFolder(j)
                       /\ <<key[2], key[3]>> \in OwnBlocks(j) \ kept
                    THEN None ELSE dump[key]]
      /\ out' = out \cup {jobs[j].ino}

(* ssdfs_recoverfs_synthesize_blocks creates the data file and copies the  *)
(* blocks of the folder, unless they are empty, and deletes them.  Those   *)
(* in unread are not copied, those in kept not deleted.                    *)
Synthesized(j, unread, kept) ==
  LET copied == { p \in OwnBlocks(j) \ unread :
                    dump[<<JobFolder(j), p[1], p[2]>>] # Empty }
  IN  /\ files' = [p \in Places |-> IF p \in copied
                                    THEN dump[<<JobFolder(j), p[1], p[2]>>]
                                    ELSE files[p]]
      /\ dump' = [key \in Keys |->
                    IF /\ key[1] = JobFolder(j)
                       /\ <<key[2], key[3]>> \in OwnBlocks(j) \ kept
                    THEN None ELSE dump[key]]
      /\ out' = out \cup {jobs[j].ino}

\* A plausible bug: the blocks of a folder are not deleted.
SynthesizeBlocksKeeping(j) ==
  /\ JobRuns(j) /\ jobs[j].f <= Len(list)
  /\ JobVerdict(j).in
  /\ NextFolder(j)
  /\ Synthesized(j, {}, OwnBlocks(j)) /\ faults' = faults
  /\ UNCHANGED <<vol, wrk, fdt, folders, pc, i, asked, list, names, k, range, exit>>

SynthesizeBlocks(j) ==
  /\ JobRuns(j) /\ jobs[j].f <= Len(list)
  /\ JobVerdict(j).in
  /\ NextFolder(j)
  /\ Synthesized(j, {}, {}) /\ faults' = faults
  /\ UNCHANGED <<vol, wrk, fdt, folders, pc, i, asked, list, names, k, range, exit>>

(* The data file cannot be opened or created. *)
DataFileFails(j) ==
  /\ JobRuns(j) /\ jobs[j].f <= Len(list)
  /\ JobVerdict(j).in
  /\ KeepsFailing("data")
  /\ NextFolder(j)
  /\ UNCHANGED <<scanVars, pc, i, asked, list, names, k, range, outVars, exit>>

(* The file of a block that cannot be opened stays; one that cannot be     *)
(* read or copied is deleted all the same; one that is copied may not be   *)
(* deleted.                                                                *)
BlocksFail(j) ==
  /\ KeepsFailing("block")
  /\ \E unread, kept \in SUBSET OwnBlocks(j) :
       unread \cup kept # {} /\ Synthesized(j, unread, kept)

(* When the place of a block cannot be set in the data file, the blocks    *)
(* from that one on are left.                                              *)
SeekFails(j) ==
  /\ KeepsFailing("lseek")
  /\ \E p \in OwnBlocks(j) :
       LET rest == { q \in OwnBlocks(j) : q = p \/ <<p, q>> \in NameOrder }
       IN  Synthesized(j, rest, rest)

(* The folder cannot be opened or read, when the data file exists. *)
JobFolderFails(j) ==
  /\ KeepsFailing("folder")
  /\ Synthesized(j, OwnBlocks(j), OwnBlocks(j))

SynthesizeBlocksFails(j) ==
  /\ JobRuns(j) /\ jobs[j].f <= Len(list)
  /\ JobVerdict(j).in
  /\ NextFolder(j)
  /\ BlocksFail(j) \/ SeekFails(j) \/ JobFolderFails(j)
  /\ UNCHANGED <<vol, wrk, fdt, folders, pc, i, asked, list, names, k, range, exit>>

Job(j) ==
  \/ JobDone(j) \/ JobSkipsFolder(j) \/ SynthesizeBlocks(j)
  \/ DataFileFails(j) \/ SynthesizeBlocksFails(j)

-----------------------------------------------------------------------------
(* ssdfs_recoverfs_delete_folder, for every name the output folder had     *)
(* before the synthesis.                                                   *)

\* A plausible bug: the deletion starts at the second name.
AllFilteredFromSecond ==
  /\ pc = "filter" /\ i > Len(list)
  /\ pc' = "delete" /\ i' = 2
  /\ UNCHANGED <<scanVars, faults, asked, buildVars, outVars, exit>>

AllFiltered ==
  /\ pc = "filter" /\ i > Len(list)
  /\ pc' = "delete" /\ i' = 1
  /\ UNCHANGED <<scanVars, faults, asked, buildVars, outVars, exit>>

DeleteFolder ==
  /\ pc = "delete" /\ i <= Len(list)
  /\ folders' = folders \ {list[i]}
  /\ dump' = [key \in Keys |-> IF key[1] = list[i] THEN None ELSE dump[key]]
  /\ i' = i + 1
  /\ UNCHANGED <<vol, wrk, fdt, pc, faults, asked, buildVars, outVars, exit>>

DeleteFolderFails ==
  /\ pc = "delete" /\ i <= Len(list)
  /\ MayFail("rmdir")
  /\ i' = i + 1
  /\ UNCHANGED <<scanVars, pc, asked, buildVars, outVars, exit>>

-----------------------------------------------------------------------------
(* ssdfs_recoverfs_extract_inline_files *)

AllDeleted == pc = "delete" /\ i > Len(list)

Written(ino) == { off \in Offs : files[<<ino, off>>] # None }
FileSize(ino) == IF Written(ino) = {} THEN 0 ELSE Max(Written(ino)) + 1

(* A hole reads as zeros. *)
NodeAt(off) ==
  LET ver == IF off \in Offs THEN files[<<InodesIno, off>>] ELSE None
  IN  IF ver = None THEN NoNode ELSE NodeOf[ver]

NodeOffsets == { off \in 0 .. FileSize(InodesIno) - 1 : NodeAt(off) # NoNode }
FirstNode == Min(NodeOffsets)
NodesCount ==
  (FileSize(InodesIno) - FirstNode) \div NodeAt(FirstNode).blocks

NoInodesFile ==
  /\ AllDeleted
  /\ InodesIno \notin out
  /\ pc' = "free" /\ exit' = 1
  /\ UNCHANGED <<scanVars, i, faults, asked, buildVars, outVars>>

NoNodes ==
  /\ AllDeleted
  /\ InodesIno \in out
  /\ NodeOffsets = {}
  /\ pc' = "free" /\ exit' = 0
  /\ UNCHANGED <<scanVars, i, faults, asked, buildVars, outVars>>

FindFirstNode ==
  /\ AllDeleted
  /\ InodesIno \in out
  /\ NodeOffsets # {}
  /\ pc' = "nodes" /\ k' = 0
  /\ i' = FirstNode
  /\ names' = <<NodeAt(FirstNode).blocks, NodesCount>>
  /\ UNCHANGED <<scanVars, faults, asked, list, jobs, range, outVars, exit>>

FindFirstNodeFails ==
  /\ AllDeleted
  /\ Failed("node")
  /\ UNCHANGED <<scanVars, i, asked, buildVars, outVars>>

(* The loop over the items stops before an item that ends where the node   *)
(* does.                                                                   *)
ItemsVisited(node) ==
  IF node.filled THEN 1 .. Len(node.items) - 1 ELSE 1 .. Len(node.items)

InlineFiles(node) ==
  IF node # NoNode /\ node.type \in {"hybrid", "leaf"}
  THEN { n \in ItemsVisited(node) : node.items[n].inline }
  ELSE {}

(* Of two items with one inode the later one is written over the other. *)
Extracted(node, opened, written) ==
  LET of(ino) == { n \in written : node.items[n].ino = ino }
  IN  /\ files' = [p \in Places |->
                      IF p[2] = 0 /\ of(p[1]) # {}
                      THEN node.items[Max(of(p[1]))].ver ELSE files[p]]
      /\ out' = out \cup { node.items[n].ino : n \in opened }

(* The status of the last node is what the session ends with. *)
NextNode(status) ==
  /\ exit' = IF k = names[2] - 1 THEN status ELSE exit
  /\ k' = k + 1 /\ i' = i + names[1]
  /\ UNCHANGED <<scanVars, pc, asked, list, names, jobs, range>>

ExtractNode ==
  LET node == NodeAt(i)
  IN  /\ pc = "nodes" /\ k < names[2]
      /\ Extracted(node, InlineFiles(node), InlineFiles(node))
      /\ NextNode(IF node = NoNode \/ node.type = "corrupt" THEN 1 ELSE 0)
      /\ faults' = faults

(* The node cannot be read; or the file of an item cannot be opened, which *)
(* ends the node; or it cannot be written, which is only reported.         *)
ExtractNodeFails ==
  LET node == NodeAt(i)
      found == InlineFiles(node)
      before(m) == { n \in found : n < m }
  IN  /\ pc = "nodes" /\ k < names[2]
      /\ \/ MayFail("node") /\ Extracted(node, {}, {}) /\ NextNode(1)
         \/ /\ MayFail("inline")
            /\ \E m \in found :
                 \/ Extracted(node, before(m), before(m)) /\ NextNode(1)
                 \/ Extracted(node, found, found \ {m}) /\ NextNode(0)

NodesDone ==
  /\ pc = "nodes" /\ k = names[2]
  /\ pc' = "free"
  /\ exit' = IF names[2] = 0 THEN 0 ELSE exit
  /\ UNCHANGED <<scanVars, i, faults, asked, buildVars, outVars>>

-----------------------------------------------------------------------------
sessionVars == <<asked, buildVars, outVars, exit>>

ScanStep(t) == Worker(t) /\ UNCHANGED sessionVars

Main ==
  \/ ScanMain /\ UNCHANGED sessionVars
  \/ Opened \/ OpenFails \/ ProbeFails \/ CreatePool \/ FreePool
  \/ StartSynthesis \/ ScanOutputFails \/ FilterFolder \/ FolderBuilt
  \/ ScanFolderFails \/ StartRound \/ AddJob \/ SkipName \/ AddJobFails \/ JoinJobs
  \/ AllFiltered \/ DeleteFolder \/ DeleteFolderFails
  \/ NoInodesFile \/ NoNodes \/ FindFirstNode \/ FindFirstNodeFails
  \/ ExtractNode \/ ExtractNodeFails \/ NodesDone

Step ==
  \/ Main
  \/ \E t \in Workers : ScanStep(t)
  \/ \E j \in DOMAIN jobs : Job(j)

Done == pc = "exit" /\ UNCHANGED vars

(* A worker that reads beyond the device keeps the processor busy. *)
Spin == (\E t \in Workers : At(t, "spin")) /\ UNCHANGED vars

Next == Step \/ Spin \/ Done

(* The kernel lets some thread run as long as one can. *)
Fairness == WF_vars(Step)

Spec == Init /\ [][Next]_vars /\ Fairness

-----------------------------------------------------------------------------
(* What the volume holds, said without the walk over it *)

Logs == { l \in Pebs \X (0 .. LogsCount - 1) : IsLog(Volumes[vol][l[1]][l[2] + 1]) }
HeaderOf(l) == Volumes[vol][l[1]][l[2] + 1]

Descriptors(l) ==
  IF ~HasTable(HeaderOf(l)) THEN {}
  ELSE UNION { UNION { Range(frag.blocks) :
                         frag \in { g \in Range(portion.frags) : g.state = "valid" } } :
               portion \in Range(HeaderOf(l).table) }

(* A block that is whole: a base state without deltas, every fragment of   *)
(* which has its own checksum right.                                       *)
Intact(desc) ==
  /\ Len(desc.states) = 1
  /\ desc.states[1].readable
  /\ desc.states[1].area # "main" =>
       \A frag \in Range(desc.states[1].frags) :
         frag.state = "valid" /\ (frag.has_csum => Crc32(frag.data) = frag.checksum)

Accepted(time) == InsideRange(asked, Now, Cal[time]).in

Versions(p) ==
  UNION { { <<HeaderOf(l).time, desc.ver>> :
              desc \in { d \in Descriptors(l) :
                           Intact(d) /\ d.ino = p[1] /\ d.off = p[2] } } :
          l \in { m \in Logs : ~WithoutFolder(HeaderOf(m)) /\ Accepted(HeaderOf(m).time) } }

Newest(p) ==
  IF Versions(p) = {} THEN None
  ELSE (CHOOSE v \in Versions(p) : \A w \in Versions(p) : w[1] <= v[1])[2]

InlineItems == UNION { Range(NodeOf[v].items) : v \in { w \in Vers : NodeOf[w] # NoNode } }

-----------------------------------------------------------------------------
(* The volumes and options for which nothing readable is lost; each part   *)
(* names a place in the code where it would be.                            *)

(* The walk stops at a page that cannot be read or that carries the magic  *)
(* of another structure, and follows the lengths the logs declare.         *)
LogsFollow ==
  /\ \A peb \in Pebs : \A j \in 1 .. LogsCount : Volumes[vol][peb][j].kind \notin {"bad", "node"}
  /\ \A l \in Logs :
       LET next == NextLogIndex(HeaderOf(l), l[2])
       IN  /\ next > l[2]
           /\ \A j \in l[2] + 1 .. next - 1 : <<l[1], j>> \notin Logs

(* A corrupt fragment ends the table, and only a first portion that claims *)
(* more fragments than a portion has leads to a second one.                *)
TablesFollow ==
  \A l \in Logs : HasTable(HeaderOf(l)) =>
    LET table == HeaderOf(l).table
    IN  /\ Len(table) \in 1 .. 2
        /\ \A n \in 1 .. Len(table) :
             /\ table[n].magic
             /\ \A frag \in Range(table[n].frags) : frag.state # "corrupt"
        /\ Len(table) = 2 => table[1].count > ChainMax
        /\ Last(table).count = Len(Last(table).frags)
        /\ Last(table).count \in 1 .. ChainMax

(* The checksum of every fragment is compared with that of the first one:  *)
(* all have the same one, or none has one.                                 *)
ChecksumsCompare ==
  \A l \in Logs : \A desc \in Descriptors(l) : \A n \in 1 .. Len(desc.states) :
    LET frags == desc.states[n].frags
    IN  /\ Len(frags) <= FragsPerBlock
        /\ \A frag \in Range(frags) :
             /\ frag.has_csum <=> frags[1].has_csum
             /\ frag.has_csum => frag.checksum = frags[1].checksum

(* The folders are taken in the order of their names as text. *)
NamesInOrder ==
  \A l, m \in Logs :
    HeaderOf(l).time < HeaderOf(m).time => Before(HeaderOf(l).time, HeaderOf(m).time)

(* The test of the first folder completes the time range it was given. *)
FilterSteady ==
  list # << >> =>
    Granularity(InsideRange(asked, Now, Cal[list[1]]).range) = Granularity(asked)

(* One log per time writes a given block. *)
OneVersion ==
  \A p \in Places : \A v, w \in Versions(p) : v[1] = w[1] => v = w

(* Only logs that have a folder describe blocks: after a failure a log     *)
(* without one would put them into a folder that an earlier log has left   *)
(* open.                                                                   *)
TablesInFolders == \A l \in Logs : WithoutFolder(HeaderOf(l)) => Descriptors(l) = {}

(* The checksum that the code compares, that of the first fragment, is     *)
(* that of every fragment, and no fragment lies behind a block's last.     *)
FirstChecksums ==
  \A l \in Logs : \A desc \in Descriptors(l) : \A n \in 1 .. Len(desc.states) :
    LET frags == desc.states[n].frags
    IN  /\ Len(frags) <= FragsPerBlock
        /\ \A frag \in Range(frags) :
             frag.has_csum => frags[1].has_csum /\ frag.checksum = frags[1].checksum

(* A log without a folder of its own closes a descriptor that another      *)
(* worker may have been given since.                                       *)
NoStaleDescriptor ==
  \A l \in Logs : WithoutFolder(HeaderOf(l)) => Capacity = 1

Orderly ==
  LogsFollow /\ TablesFollow /\ ChecksumsCompare /\ NamesInOrder /\ OneVersion

-----------------------------------------------------------------------------
(* Properties *)

(* Every variable keeps its type. *)
TypeOK ==
  /\ wrk \in [Workers -> [pc : {"none", "peb", "log", "folder", "areas", "descs",
                                "open", "write", "closeblock", "close", "spin",
                                "exit"},
                          n : 0 .. PebsCount, log : Nat, next : Nat,
                          fd : Fds \cup {-1},
                          it : [portion : Nat \cup {-1}, fragment : Nat \cup {-1},
                                item : Nat \cup {-1}],
                          bfd : Fds \cup {-1}]]
  /\ DOMAIN fdt = Fds
  /\ folders \subseteq Times
  /\ dump \in [Keys -> Vers \cup {None, Empty}]
  /\ files \in [Places -> Vers \cup {None}]
  /\ out \subseteq Inos
  /\ range \in TimeRanges
  /\ exit \in {-1, 0, 1}
  /\ pc \in {"open", "probe", "spawn", "unwind", "join", "filter", "round", "jobs",
             "delete", "nodes", "free", "exit"}

(* When a session succeeds and nothing failed on the way, every block of   *)
(* every file holds the newest whole version the volume has in the time    *)
(* range: the dump by several workers, the files written over each other   *)
(* in the order of the folders, and the deletions lose none and keep none  *)
(* that is older.                                                          *)
NewestRecovered ==
  pc = "exit" /\ exit = 0 /\ faults = << >>
    /\ Orderly /\ FilterSteady /\ NoStaleDescriptor =>
      \A p \in Places :
        (\A item \in InlineItems : item.ino # p[1]) => files[p] = Newest(p)

(* The same without the condition on logs that have no folder: "Recovering *)
(* file content that is still readable".                                   *)
ReadableRecovered ==
  pc = "exit" /\ exit = 0 /\ faults = << >> /\ Orderly /\ FilterSteady =>
      \A p \in Places :
        (\A item \in InlineItems : item.ino # p[1]) => files[p] = Newest(p)

(* On a volume whose blocks have the checksum that the code compares, and  *)
(* whose descriptors are in logs with folders, a file never holds anything *)
(* but a whole block that a log in the time range has for that very place, *)
(* or an inline file of an inode: whatever fails on the way.  (A call that *)
(* fails has done nothing: one that writes a part of a block is left out.) *)
NothingInvented ==
  TablesInFolders /\ FirstChecksums /\ NoStaleDescriptor /\ FilterSteady =>
    \A p \in Places : files[p] # None =>
      \/ \E v \in Versions(p) : v[2] = files[p]
      \/ \E item \in InlineItems : item.ino = p[1] /\ item.ver = files[p]

(* The pool is not freed under a worker that still runs, unless the state  *)
(* of a later worker could not be initialized.                             *)
PoolFreedJoined ==
  pc = "free" /\ (\A n \in DOMAIN faults : faults[n] # "init") =>
    \A t \in Workers : wrk[t].pc \in {"none", "exit"}

(* When the session ends well no checkpoint folder is left in the output,  *)
(* except those whose deletion failed.                                     *)
FoldersDeleted ==
  pc = "exit" /\ exit = 0 =>
    Cardinality(folders) <= Cardinality({ n \in DOMAIN faults : faults[n] = "rmdir" })

(* A step of the synthesis that fails and leaves work for another round. *)
SynthesisFails ==
  \/ AddJobFails
  \/ \E j \in DOMAIN jobs : DataFileFails(j) \/ SynthesizeBlocksFails(j)

(* The session ends, unless a worker is held by a read beyond the device,  *)
(* a log of no length or a table that leads back to itself, or the         *)
(* synthesis fails again and again: the rounds over a folder are repeated  *)
(* until no block is left in it, so a lasting failure is fatal and any     *)
(* other is not.                                                           *)
RecoverTerminates ==
  <>[][~SynthesisFails]_vars => <>(pc = "exit" \/ \E t \in Workers : Endless(t))
=============================================================================
