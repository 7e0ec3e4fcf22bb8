---------------------------- MODULE RecoverProof ----------------------------
(***************************************************************************)
(* Proofs about a session of recoverfs.ssdfs.                              *)
(*                                                                         *)
(*   RecoverPoolFreedJoined  no pool is freed under a running worker;      *)
(*   RecoverTypeOK           the variables keep their types;               *)
(*   RecoverFoldersDeleted   success leaves only those temporary folders   *)
(*                           that could not be deleted;                    *)
(*   RecoverNothingInvented  a file holds only blocks that a log of the    *)
(*                           volume has for it.                            *)
(***************************************************************************)
EXTENDS Recover, FiniteSetTheorems, WellFoundedInduction, TLAPS

-----------------------------------------------------------------------------
(* The workers of the raw dump and the thread that waits for them *)

Idle == {"none", "exit"}

(* A worker is a record with a program counter; "faults" only grows. *)
PoolTypes ==
  /\ DOMAIN wrk = Workers
  /\ \A t \in Workers : "pc" \in DOMAIN wrk[t]
  /\ faults \in Seq(Faults[vol])

NoInitFault == \A n \in DOMAIN faults : faults[n] # "init"

(* What the loops of the main thread have done so far: while it starts the *)
(* workers those from i on do not exist; when it takes back a pool that    *)
(* could not be filled those behind i have ended or never were; while it   *)
(* joins those before i have ended, and from the synthesis on all have.    *)
PoolInv ==
  /\ pc \in {"open", "probe"} => \A t \in Workers : wrk[t].pc = "none"
  /\ pc = "spawn" =>
       i \in Nat /\ \A t \in Workers : t >= i => wrk[t].pc = "none"
  /\ pc = "unwind" =>
       i \in Int /\ \A t \in Workers : t > i => wrk[t].pc \in Idle
  /\ pc = "join" =>
       i \in Nat /\ \A t \in Workers : t < i => wrk[t].pc = "exit"
  /\ pc \in {"filter", "round", "jobs", "delete", "nodes"} =>
       \A t \in Workers : wrk[t].pc = "exit"
  /\ pc = "free" /\ NoInitFault => \A t \in Workers : wrk[t].pc \in Idle

JoinedInv == PoolTypes /\ PoolInv

LEMMA InitJoined == Init => JoinedInv
  BY DEF Init, ScanInit, NewWorker, JoinedInv, PoolTypes, PoolInv

(* A call that may fail leaves one more entry in "faults". *)
LEMMA FaultGrows ==
  ASSUME PoolTypes, vol' = vol, NEW call, MayFail(call)
  PROVE  /\ faults' \in Seq(Faults[vol'])
         /\ NoInitFault' => NoInitFault
         /\ call = "init" => ~NoInitFault'
<1>1. faults' = Append(faults, call) /\ call \in Faults[vol] /\ faults \in Seq(Faults[vol])
  BY DEF MayFail, PoolTypes
<1>2. /\ faults' \in Seq(Faults[vol])
      /\ DOMAIN faults' = 1 .. Len(faults) + 1
      /\ \A n \in 1 .. Len(faults) : faults'[n] = faults[n]
      /\ faults'[Len(faults) + 1] = call
      /\ DOMAIN faults = 1 .. Len(faults)
      /\ Len(faults) \in Nat
  BY <1>1
<1>3. NoInitFault' => NoInitFault
  BY <1>2 DEF NoInitFault
<1>4. call = "init" => ~NoInitFault'
  <2> Len(faults) + 1 \in DOMAIN faults'
    BY <1>2
  <2> QED BY <1>2 DEF NoInitFault
<1> QED BY <1>2, <1>3, <1>4

(* A worker that has not started or has ended takes no step, and a step    *)
(* of one worker leaves the others and the main thread where they are.     *)
LEMMA WorkerStep ==
  ASSUME PoolTypes, NEW t \in Workers, Worker(t)
  PROVE  /\ PoolTypes'
         /\ UNCHANGED <<vol, pc, i>>
         /\ NoInitFault' => NoInitFault
         /\ pc # "free"
         /\ \A u \in Workers : wrk[u].pc \in Idle => wrk'[u].pc = wrk[u].pc
<1> USE DEF PoolTypes, At, Running, Idle
<1>1. CASE NextPeb(t) \/ LastPeb(t) \/ PebDone(t) \/ OrphanedFooter(t)
  BY <1>1 DEF NextPeb, LastPeb, PebDone, OrphanedFooter, NoInitFault
<1>2. CASE LogFound(t)
  BY <1>2 DEF LogFound, NoInitFault
<1>3. CASE CreateFolder(t)
  BY <1>3 DEF CreateFolder, NoInitFault
<1>4. CASE CreateFolderFails(t)
  <2>1. vol' = vol /\ (MayFail("mkdirat") \/ MayFail("openat"))
    BY <1>4 DEF CreateFolderFails
  <2>2. faults' \in Seq(Faults[vol']) /\ (NoInitFault' => NoInitFault)
    BY <2>1, FaultGrows
  <2> QED BY <1>4, <2>2 DEF CreateFolderFails
<1>5. CASE ParseAreas(t)
  BY <1>5 DEF ParseAreas, NoInitFault
<1>6. CASE ParseAreasFails(t)
  <2>1. vol' = vol /\ MayFail("calloc")
    BY <1>6 DEF ParseAreasFails
  <2>2. faults' \in Seq(Faults[vol']) /\ (NoInitFault' => NoInitFault)
    BY <2>1, FaultGrows
  <2> QED BY <1>6, <2>2 DEF ParseAreasFails
<1>7. CASE TableDone(t) \/ NextBlock(t) \/ ReadHangs(t)
  BY <1>7 DEF TableDone, NextBlock, ReadHangs, NoInitFault
<1>8. CASE OpenBlock(t)
  BY <1>8 DEF OpenBlock, NoInitFault
<1>9. CASE OpenBlockFails(t)
  <2>1. vol' = vol /\ (faults' = faults \/ MayFail("openat"))
    BY <1>9 DEF OpenBlockFails
  <2>2. faults' \in Seq(Faults[vol']) /\ (NoInitFault' => NoInitFault)
    BY <2>1, FaultGrows DEF NoInitFault
  <2> QED BY <1>9, <2>2 DEF OpenBlockFails
<1>10. CASE WriteBlock(t)
  <2>1. vol' = vol /\ (faults' = faults \/ MayFail("write"))
    BY <1>10 DEF WriteBlock
  <2>2. faults' \in Seq(Faults[vol']) /\ (NoInitFault' => NoInitFault)
    BY <2>1, FaultGrows DEF NoInitFault
  <2> QED BY <1>10, <2>2 DEF WriteBlock
<1>11. CASE CloseBlock(t) \/ CloseFolder(t)
  BY <1>11 DEF CloseBlock, CloseFolder, NoInitFault
<1> QED
  BY <1>1, <1>2, <1>3, <1>4, <1>5, <1>6, <1>7, <1>8, <1>9, <1>10, <1>11 DEF Worker

(* From the synthesis of files on. *)
Later == {"filter", "round", "jobs", "delete", "nodes"}

(* A step outside of the raw dump leaves the workers alone and moves the   *)
(* main thread forward.                                                    *)
Outside ==
  /\ wrk' = wrk /\ vol' = vol
  /\ faults' = faults \/ \E call : MayFail(call)
  /\ \/ pc = "open" /\ pc' \in {"probe", "exit"}
     \/ pc = "probe" /\ pc' = "exit"
     \/ pc = "probe" /\ pc' = "spawn" /\ i' = 0
     \/ pc = "free" /\ pc' = "exit"
     \/ pc = "join" /\ i = Capacity /\ pc' \in Later \cup {"free"}
     \/ pc \in Later /\ pc' \in Later \cup {"free"}

LEMMA OutsideStep ==
  ASSUME PoolTypes, Main, ~ScanMain
  PROVE  Outside
<1> USE DEF scanVars, Later, Outside
<1>1. CASE Opened \/ OpenFails
  BY <1>1 DEF Opened, OpenFails
<1>2. CASE ProbeFails \/ CreatePool
  BY <1>2 DEF ProbeFails, CreatePool
<1>3. CASE FreePool
  BY <1>3 DEF FreePool
<1>4. CASE StartSynthesis \/ ScanOutputFails
  BY <1>4 DEF StartSynthesis, ScanOutputFails, Failed
<1>5. CASE FilterFolder \/ FolderBuilt \/ ScanFolderFails
  BY <1>5 DEF FilterFolder, FolderBuilt, ScanFolderFails
<1>6. CASE StartRound \/ AddJob \/ SkipName \/ JoinJobs
  BY <1>6 DEF StartRound, AddJob, SkipName, JoinJobs
<1>7. CASE AddJobFails
  BY <1>7 DEF AddJobFails, KeepsFailing
<1>8. CASE AllFiltered \/ DeleteFolder \/ DeleteFolderFails
  BY <1>8 DEF AllFiltered, DeleteFolder, DeleteFolderFails
<1>9. CASE NoInodesFile \/ NoNodes \/ FindFirstNode
  BY <1>9 DEF NoInodesFile, NoNodes, FindFirstNode, AllDeleted
<1>10. CASE FindFirstNodeFails
  BY <1>10 DEF FindFirstNodeFails, AllDeleted, Failed
<1>11. CASE ExtractNode \/ ExtractNodeFails \/ NodesDone
  BY <1>11 DEF ExtractNode, ExtractNodeFails, NextNode, NodesDone
<1> QED
  BY <1>1, <1>2, <1>3, <1>4, <1>5, <1>6, <1>7, <1>8, <1>9, <1>10, <1>11 DEF Main

(* The thread of a file leaves the workers and the main thread alone. *)
LEMMA JobStep ==
  ASSUME NEW j \in DOMAIN jobs, Job(j)
  PROVE  /\ wrk' = wrk /\ vol' = vol /\ pc' = pc /\ i' = i
         /\ faults' = faults \/ \E call : MayFail(call)
<1> USE DEF scanVars
<1>1. CASE JobDone(j) \/ JobSkipsFolder(j)
  BY <1>1 DEF JobDone, JobSkipsFolder
<1>2. CASE SynthesizeBlocks(j)
  BY <1>2 DEF SynthesizeBlocks
<1>3. CASE DataFileFails(j)
  BY <1>3 DEF DataFileFails, KeepsFailing
<1>4. CASE SynthesizeBlocksFails(j)
  BY <1>4 DEF SynthesizeBlocksFails, BlocksFail, SeekFails, JobFolderFails, KeepsFailing
<1> QED BY <1>1, <1>2, <1>3, <1>4 DEF Job

(* A job in a folder of the range copies and deletes some of its blocks. *)
LEMMA JobSynthesizes ==
  ASSUME NEW j, SynthesizeBlocks(j) \/ SynthesizeBlocksFails(j)
  PROVE  /\ JobVerdict(j).in /\ jobs[j].f <= Len(list)
         /\ \E unread, kept : Synthesized(j, unread, kept)
<1>1. CASE SynthesizeBlocks(j)
  BY <1>1 DEF SynthesizeBlocks
<1>2. CASE SynthesizeBlocksFails(j)
  <2>1. \E unread, kept : Synthesized(j, unread, kept)
    BY <1>2 DEF SynthesizeBlocksFails, BlocksFail, SeekFails, JobFolderFails
  <2> QED BY <1>2, <2>1 DEF SynthesizeBlocksFails
<1> QED BY <1>1, <1>2

LEMMA OutsideJoined ==
  ASSUME JoinedInv, Outside
  PROVE  JoinedInv'
<1>1. PoolTypes' /\ (NoInitFault' => NoInitFault)
  BY FaultGrows DEF JoinedInv, PoolTypes, Outside, NoInitFault
<1>2. PoolInv'
  BY <1>1, ScanAssumption DEF JoinedInv, PoolInv, Outside, Later, Idle, Workers
<1> QED BY <1>1, <1>2 DEF JoinedInv

LEMMA NextJoined == JoinedInv /\ [Next]_vars => JoinedInv'
<1> SUFFICES ASSUME JoinedInv, [Next]_vars PROVE JoinedInv'
  OBVIOUS
<1>0. PoolTypes /\ PoolInv /\ Capacity \in Nat
  BY ScanAssumption DEF JoinedInv
<1>1. ASSUME NEW t \in Workers, Worker(t) PROVE JoinedInv'
  <2>1. /\ PoolTypes' /\ UNCHANGED <<vol, pc, i>> /\ pc # "free"
        /\ \A u \in Workers : wrk[u].pc \in Idle => wrk'[u].pc = wrk[u].pc
    BY <1>0, <1>1, WorkerStep
  <2> QED BY <1>0, <2>1 DEF JoinedInv, PoolInv, Idle
<1>2. CASE Spawn
  <2>1. i \in Workers
    BY <1>0, <1>2 DEF Spawn, PoolInv, Workers
  <2>2. PoolTypes'
    BY <1>0, <1>2 DEF Spawn, PoolTypes
  <2>3. \A t \in Workers : t >= i + 1 => wrk'[t].pc = wrk[t].pc
    BY <1>0, <1>2 DEF Spawn, PoolInv, PoolTypes, Workers
  <2> QED BY <1>0, <1>2, <2>2, <2>3 DEF Spawn, JoinedInv, PoolInv, Workers
<1>3. CASE InitStateFails
  <2>1. vol' = vol /\ MayFail("init") /\ pc' = "free" /\ wrk' = wrk
    BY <1>3 DEF InitStateFails, scanVars
  <2> QED BY <1>0, <2>1, FaultGrows DEF JoinedInv, PoolTypes, PoolInv
<1>4. CASE SpawnFails
  <2>1. /\ pc = "spawn" /\ vol' = vol /\ MayFail("pthread_create")
        /\ pc' = "unwind" /\ wrk' = wrk /\ i' = i - 1
    BY <1>4 DEF SpawnFails, scanVars
  <2>2. PoolTypes'
    BY <1>0, <2>1, FaultGrows DEF PoolTypes
  <2> QED BY <1>0, <2>1, <2>2 DEF JoinedInv, PoolInv, Workers, Idle
<1>5. CASE UnwindJoin
  BY <1>0, <1>5 DEF UnwindJoin, scanVars, JoinedInv, PoolTypes, PoolInv, Workers, Idle
<1>6. CASE UnwindDone
  BY <1>0, <1>6 DEF UnwindDone, scanVars, JoinedInv, PoolTypes, PoolInv, Workers, NoInitFault
<1>7. CASE AllSpawned
  BY <1>0, <1>7 DEF AllSpawned, scanVars, JoinedInv, PoolTypes, PoolInv, Workers
<1>8. CASE Join
  BY <1>0, <1>8 DEF Join, scanVars, JoinedInv, PoolTypes, PoolInv, Workers
<1>9. CASE Main /\ ~ScanMain
  BY <1>0, <1>9, OutsideStep, OutsideJoined
<1>10. ASSUME NEW j \in DOMAIN jobs, Job(j) PROVE JoinedInv'
  <2>1. /\ wrk' = wrk /\ vol' = vol /\ pc' = pc /\ i' = i
        /\ faults' = faults \/ \E call : MayFail(call)
    BY <1>10, JobStep
  <2>2. PoolTypes' /\ (NoInitFault' => NoInitFault)
    BY <1>0, <2>1, FaultGrows DEF PoolTypes, NoInitFault
  <2> QED BY <1>0, <2>1, <2>2 DEF JoinedInv, PoolInv
<1>11. CASE UNCHANGED vars
  BY <1>0, <1>11 DEF vars, scanVars, JoinedInv, PoolTypes, PoolInv, NoInitFault
<1> QED
  BY <1>1, <1>2, <1>3, <1>4, <1>5, <1>6, <1>7, <1>8, <1>9, <1>10, <1>11
     DEF Next, Step, Spin, Done, ScanStep, ScanMain

(* ssdfs_recoverfs joins the workers it started before it frees the pool,  *)
(* on every path but the one where the state of a later worker cannot be   *)
(* initialized: for any number of workers, volumes and faults.             *)
THEOREM RecoverPoolFreedJoined == Spec => []PoolFreedJoined
<1>1. JoinedInv => PoolFreedJoined
  BY DEF JoinedInv, PoolInv, PoolFreedJoined, NoInitFault, Idle
<1> QED
  BY <1>1, InitJoined, NextJoined, PTL DEF Spec

-----------------------------------------------------------------------------
(* The least of a set of numbers *)

LEMMA MinIs ==
  ASSUME NEW S \in SUBSET Nat, S # {}
  PROVE  Min(S) \in S /\ \A y \in S : Min(S) <= y
<1>1. PICK d \in S : \A y \in S : ~(<<y, d>> \in OpToRel(<, Nat))
  BY WFMin, NatLessThanWellFounded
<1>2. \A y \in S : d <= y
  <2> TAKE y \in S
  <2>1. y \in Nat /\ d \in Nat
    OBVIOUS
  <2>2. ~(y < d)
    BY <1>1, <2>1 DEF OpToRel
  <2> QED BY <2>1, <2>2
<1> QED BY <1>2 DEF Min

-----------------------------------------------------------------------------
(* Sorted sequences *)

Ascends(s, order) == \A m, n \in DOMAIN s : m < n => <<s[m], s[n]>> \in order

StrictOrder(U, order) ==
  /\ \A a, b \in U : <<a, b>> \in order => a # b /\ <<b, a>> \notin order
  /\ \A a, b \in U : a # b => <<a, b>> \in order \/ <<b, a>> \in order
  /\ \A a, b, c \in U : <<a, b>> \in order /\ <<b, c>> \in order => <<a, c>> \in order

(* One more element takes its place in a sequence that ascends. *)
LEMMA Inserted ==
  ASSUME NEW U, NEW order, StrictOrder(U, order),
         NEW n \in Nat, NEW s \in [1 .. n -> U], Ascends(s, order),
         NEW x \in U, \A m \in 1 .. n : s[m] # x
  PROVE  \E r \in [1 .. n + 1 -> U] :
           /\ Ascends(r, order)
           /\ \A m \in 1 .. n + 1 : r[m] = x \/ \E l \in 1 .. n : r[m] = s[l]
<1> DEFINE P == { m \in 1 .. n + 1 : m = n + 1 \/ <<x, s[m]>> \in order }
<1>1. P \in SUBSET Nat /\ P # {}
  OBVIOUS
<1> DEFINE p == Min(P)
<1>2. p \in P /\ \A y \in P : p <= y
  <2> HIDE DEF P
  <2> QED BY <1>1, MinIs
<1>3. p \in 1 .. n + 1 /\ (p = n + 1 \/ <<x, s[p]>> \in order)
  BY <1>2
<1> HIDE DEF p
<1>4. \A m \in 1 .. n : m < p => <<s[m], x>> \in order
  <2> TAKE m \in 1 .. n
  <2> HAVE m < p
  <2>1. m \notin P
    BY <1>2, <1>3
  <2>2. <<x, s[m]>> \notin order /\ s[m] \in U /\ s[m] # x
    BY <2>1
  <2> QED BY <2>2 DEF StrictOrder
<1>5. \A m \in 1 .. n : m >= p => <<x, s[m]>> \in order
  <2> TAKE m \in 1 .. n
  <2> HAVE m >= p
  <2>1. p \in 1 .. n /\ <<x, s[p]>> \in order
    BY <1>3
  <2>2. \A a, b \in 1 .. n : a < b => <<s[a], s[b]>> \in order
    BY DEF Ascends
  <2>3. m = p \/ <<s[p], s[m]>> \in order
    BY <2>1, <2>2
  <2>4. s[p] \in U /\ s[m] \in U
    BY <2>1
  <2> QED BY <2>1, <2>3, <2>4 DEF StrictOrder
<1> DEFINE r == [m \in 1 .. n + 1 |-> IF m < p THEN s[m] ELSE IF m = p THEN x ELSE s[m - 1]]
<1>6. \A m \in 1 .. n + 1 :
        /\ m < p => m \in 1 .. n /\ r[m] = s[m]
        /\ m = p => r[m] = x
        /\ m > p => m - 1 \in 1 .. n /\ m - 1 >= p /\ r[m] = s[m - 1]
  BY <1>3
<1>7. r \in [1 .. n + 1 -> U] /\ DOMAIN r = 1 .. n + 1
  BY <1>3, <1>6
<1>8. \A m \in 1 .. n + 1 : r[m] = x \/ \E l \in 1 .. n : r[m] = s[l]
  BY <1>3, <1>6
<1>9. Ascends(r, order)
  <2> SUFFICES ASSUME NEW l \in 1 .. n + 1, NEW m \in 1 .. n + 1, l < m
               PROVE  <<r[l], r[m]>> \in order
    BY <1>7 DEF Ascends
  <2> HIDE DEF r
  <2>0. \A a, b \in 1 .. n : a < b => <<s[a], s[b]>> \in order
    BY DEF Ascends
  <2>1. CASE m < p
    BY <1>3, <1>6, <2>0, <2>1
  <2>2. CASE m = p
    BY <1>3, <1>6, <1>4, <2>2
  <2>3. CASE m > p /\ l < p
    <3>1. r[l] = s[l] /\ r[m] = s[m - 1] /\ l \in 1 .. n /\ m - 1 \in 1 .. n /\ m - 1 >= p
      BY <1>3, <1>6, <2>3
    <3> QED BY <3>1, <2>0, <2>3, <1>3
  <2>4. CASE m > p /\ l = p
    <3>1. r[l] = x /\ r[m] = s[m - 1] /\ m - 1 \in 1 .. n /\ m - 1 >= p
      BY <1>3, <1>6, <2>4
    <3> QED BY <3>1, <1>5
  <2>5. CASE m > p /\ l > p
    <3>1. r[l] = s[l - 1] /\ r[m] = s[m - 1] /\ l - 1 \in 1 .. n /\ m - 1 \in 1 .. n
      BY <1>3, <1>6, <2>5
    <3> QED BY <3>1, <2>0
  <2> QED BY <1>3, <2>1, <2>2, <2>3, <2>4, <2>5
<1> QED BY <1>7, <1>8, <1>9

(* A finite set can be sorted: there is no smallest one that cannot.       *)
LEMMA Sortable ==
  ASSUME NEW U, NEW order, StrictOrder(U, order), IsFiniteSet(U)
  PROVE  \A S \in SUBSET U : \E s \in [1 .. Cardinality(S) -> S] : Ascends(s, order)
<1> DEFINE Has(S) == \E s \in [1 .. Cardinality(S) -> S] : Ascends(s, order)
           Bad == { n \in Nat : \E S \in SUBSET U : Cardinality(S) = n /\ ~Has(S) }
<1>0. \A S \in SUBSET U : IsFiniteSet(S) /\ Cardinality(S) \in Nat
  BY FS_Subset, FS_CardinalityType
<1>1. SUFFICES ASSUME Bad # {} PROVE FALSE
  BY <1>0
<1>2. Bad \in SUBSET Nat
  OBVIOUS
<1>3. Min(Bad) \in Bad /\ \A y \in Bad : Min(Bad) <= y
  <2> HIDE DEF Bad
  <2> QED BY <1>1, <1>2, MinIs
<1>4. PICK S \in SUBSET U : Cardinality(S) = Min(Bad) /\ ~Has(S)
  BY <1>3
<1>5. CASE S = {}
  <2>1. Cardinality(S) = 0
    BY <1>5, FS_EmptySet
  <2>2. [m \in {} |-> m] \in [1 .. Cardinality(S) -> S] /\ Ascends([m \in {} |-> m], order)
    BY <2>1 DEF Ascends
  <2> QED BY <2>2, <1>4
<1>6. CASE S # {}
  <2>1. PICK x : x \in S
    BY <1>6
  <2> DEFINE T == S \ {x}
  <2>2. T \in SUBSET U /\ Cardinality(S) \in Nat /\ Cardinality(T) = Cardinality(S) - 1
    BY <1>0, <2>1, FS_RemoveElement
  <2>3. Cardinality(T) \in Nat /\ Cardinality(T) \notin Bad
    <3> HIDE DEF Bad, T, Has
    <3>1. Cardinality(T) \in Nat /\ Cardinality(T) < Min(Bad) /\ Min(Bad) \in Nat
      BY <1>0, <2>2, <1>4
    <3> QED BY <3>1, <1>2, <1>3
  <2>4. PICK c \in Nat : c = Cardinality(T)
    BY <2>3
  <2>5. PICK s \in [1 .. c -> T] : Ascends(s, order)
    BY <2>2, <2>3, <2>4
  <2>6. s \in [1 .. c -> U] /\ (\A m \in 1 .. c : s[m] # x) /\ x \in U
    BY <2>1
  <2>7. PICK r \in [1 .. c + 1 -> U] :
          /\ Ascends(r, order)
          /\ \A m \in 1 .. c + 1 : r[m] = x \/ \E l \in 1 .. c : r[m] = s[l]
    <3> HIDE DEF T, Bad, Has
    <3> DEFINE Goal == \E q \in [1 .. c + 1 -> U] :
                         /\ Ascends(q, order)
                         /\ \A m \in 1 .. c + 1 : q[m] = x \/ \E l \in 1 .. c : q[m] = s[l]
    <3>1. \A n \in Nat : \A y \in [1 .. n -> U] : \A z \in U :
            Ascends(y, order) /\ (\A m \in 1 .. n : y[m] # z) =>
              \E q \in [1 .. n + 1 -> U] :
                         /\ Ascends(q, order)
                         /\ \A m \in 1 .. n + 1 : q[m] = z \/ \E l \in 1 .. n : q[m] = y[l]
      BY Inserted
    <3>2. Goal
      BY <3>1, <2>5, <2>6
    <3> QED BY <3>2
  <2>8. r \in [1 .. Cardinality(S) -> S]
    <3>1. c + 1 = Cardinality(S)
      BY <2>2, <2>4
    <3>2. \A m \in 1 .. c + 1 : r[m] \in S
      BY <2>7, <2>5, <2>1
    <3> HIDE DEF T
    <3> QED BY <3>1, <3>2, <2>7
  <2> QED BY <1>4, <2>7, <2>8
<1> QED BY <1>5, <1>6

(* scandir returns every entry, once, in order. *)
LEMMA SortedIs ==
  ASSUME NEW U, NEW order, StrictOrder(U, order), IsFiniteSet(U), NEW S \in SUBSET U
  PROVE  /\ Cardinality(S) \in Nat
         /\ Sorted(S, order) \in [1 .. Cardinality(S) -> S]
         /\ Ascends(Sorted(S, order), order)
         /\ \A x \in S : \E n \in 1 .. Cardinality(S) : Sorted(S, order)[n] = x
<1>1. IsFiniteSet(S) /\ Cardinality(S) \in Nat
  BY FS_Subset, FS_CardinalityType
<1>2. PICK s \in [1 .. Cardinality(S) -> S] : Ascends(s, order)
  BY Sortable
<1>3. s \in SetToSeqs(S)
  <2>1. \A m, n \in 1 .. Cardinality(S) : m # n => s[m] # s[n]
    <3> TAKE m, n \in 1 .. Cardinality(S)
    <3> HAVE m # n
    <3>1. m < n \/ n < m
      BY <1>1
    <3>2. <<s[m], s[n]>> \in order \/ <<s[n], s[m]>> \in order
      BY <3>1, <1>2 DEF Ascends
    <3> QED BY <3>2 DEF StrictOrder
  <2> QED BY <2>1 DEF SetToSeqs
<1> DEFINE r == Sorted(S, order)
<1>4. r \in SetToSeqs(S) /\ Ascends(r, order)
  BY <1>2, <1>3 DEF Sorted, Ascends
<1> HIDE DEF r
<1>5. r \in Injection(1 .. Cardinality(S), S)
  BY <1>4 DEF SetToSeqs, Injection, IsInjective
<1>6. Cardinality(1 .. Cardinality(S)) = Cardinality(S)
  BY <1>1, FS_Interval
<1>7. r \in Surjection(1 .. Cardinality(S), S)
  BY <1>1, <1>5, <1>6, FS_Injection
<1>8. \A x \in S : \E n \in 1 .. Cardinality(S) : r[n] = x
  BY <1>7 DEF Surjection
<1>9. r \in [1 .. Cardinality(S) -> S]
  BY <1>4 DEF SetToSeqs
<1> QED BY <1>1, <1>4, <1>8, <1>9 DEF r

LEMMA TimesInOrder == StrictOrder(Times, TimeOrder)
  BY BeforeAssumption DEF StrictOrder, TimeOrder

LEMMA NamesOrdered == StrictOrder(Places, NameOrder)
<1>1. \A a, b \in Places : <<a, b>> \in NameOrder <=>
        Before(a[1], b[1]) \/ (a[1] = b[1] /\ Before(a[2], b[2]))
  BY DEF NameOrder
<1>2. \A a \in Places : a[1] \in Inos /\ a[2] \in Offs /\ a = <<a[1], a[2]>>
  BY DEF Places
<1> QED BY <1>1, <1>2, BeforeAssumption DEF StrictOrder

-----------------------------------------------------------------------------
(* The PEBs of a worker lie in the volume *)

LEMMA ShareInVolume ==
  ASSUME NEW t \in Workers
  PROVE  /\ PerThread \in Nat
         /\ FirstPeb(t, PerThread) = t * PerThread
         /\ FirstPeb(t, PerThread) \in Nat
         /\ Share(t, PebsCount, PerThread) \in Nat
         /\ FirstPeb(t, PerThread) + Share(t, PebsCount, PerThread) <= PebsCount
<1> DEFINE p == PerThread
<1>1. p \in Nat
  <2>1. PebsCount + Capacity - 1 \in Nat /\ Capacity \in Nat \ {0}
    BY ScanAssumption
  <2> QED BY <2>1 DEF PerThread, PebsPerThread
<1>2. (Capacity - 1) * p <= PebsCount /\ PebsCount < U64
  BY ScanAssumption DEF Fits, PerThread
<1>3. t \in Nat /\ t <= Capacity - 1 /\ Capacity \in Nat /\ PebsCount \in Nat /\ U64 \in Nat \ {0}
  BY ScanAssumption, U64Assumption DEF Workers
<1> HIDE DEF p
<1>4. t * p <= (Capacity - 1) * p /\ t * p \in Nat /\ (Capacity - 1) * p \in Int
  BY <1>1, <1>3
<1>5. (t * p) % U64 = t * p
  BY <1>2, <1>3, <1>4
<1>6. (PebsCount - t * p) % U64 = PebsCount - t * p
  <2>1. PebsCount - t * p \in 0 .. U64 - 1
    BY <1>2, <1>3, <1>4
  <2> QED BY <2>1, <1>3
<1>7. FirstPeb(t, p) = t * p
  BY <1>5 DEF FirstPeb
<1>8. Share(t, PebsCount, p) = IF PebsCount - t * p < p THEN PebsCount - t * p ELSE p
  BY <1>6, <1>7 DEF Share
<1>9. PebsCount - t * p \in Nat
  BY <1>2, <1>3, <1>4
<1>10. Share(t, PebsCount, p) \in Nat /\ t * p + Share(t, PebsCount, p) <= PebsCount
  <2> DEFINE x == t * p
  <2>1. x \in Nat /\ PebsCount - x \in Nat
    BY <1>4, <1>9
  <2> HIDE DEF x
  <2>2. Share(t, PebsCount, p) = IF PebsCount - x < p THEN PebsCount - x ELSE p
    BY <1>8 DEF x
  <2> QED BY <2>1, <2>2, <1>1, <1>3 DEF x
<1> QED BY <1>1, <1>4, <1>7, <1>10 DEF p

-----------------------------------------------------------------------------
(* The iterator over the descriptors of a log *)

(* A table of descriptors, a fragment of which is empty only when it is    *)
(* not valid.                                                              *)
GoodTable(table) ==
  /\ table \in Seq(Portions)
  /\ \A q \in DOMAIN table : \A f \in DOMAIN table[q].frags :
       table[q].frags[f].state = "valid" => table[q].frags[f].blocks # << >>

(* The iterator stands on a descriptor of a valid fragment. *)
PortionOf(table, it) == table[CHOOSE q \in PortionAt(table, it.portion) : TRUE]

Position(table, it) ==
  /\ it \in [portion : Nat, fragment : Nat, item : Nat]
  /\ PortionAt(table, it.portion) # {}
  /\ it.fragment < Len(PortionOf(table, it).frags)
  /\ PortionOf(table, it).frags[it.fragment + 1].state = "valid"
  /\ it.item \in 1 .. Len(PortionOf(table, it).frags[it.fragment + 1].blocks)

LEMMA PortionIs ==
  ASSUME NEW table, GoodTable(table), NEW offset, PortionAt(table, offset) # {}
  PROVE  LET q == CHOOSE x \in PortionAt(table, offset) : TRUE
         IN  q \in DOMAIN table /\ table[q] \in Portions
  BY DEF PortionAt, GoodTable

LEMMA FragmentIs ==
  ASSUME NEW p \in Portions, NEW f \in Nat, f < Len(p.frags)
  PROVE  /\ f + 1 \in DOMAIN p.frags
         /\ p.frags[f + 1].state \in {"valid", "absent", "corrupt"}
         /\ p.frags[f + 1].blocks \in Seq(Blocks)
         /\ Len(p.frags[f + 1].blocks) \in Nat
<1> DEFINE frags == p.frags
           Chunks == [state : {"valid", "absent", "corrupt"}, blocks : Seq(Blocks)]
<1>1. frags \in Seq(Chunks)
  BY DEF Portions
<1> HIDE DEF frags, Chunks
<1>2. f + 1 \in DOMAIN frags /\ frags[f + 1] \in Chunks
  BY <1>1 DEF frags
<1>3. /\ frags[f + 1].state \in {"valid", "absent", "corrupt"}
      /\ frags[f + 1].blocks \in Seq(Blocks)
  BY <1>2 DEF Chunks
<1>4. Len(frags[f + 1].blocks) \in Nat
  BY <1>3
<1> QED BY <1>2, <1>3, <1>4 DEF frags

(* Looking for content in a portion ends at a descriptor or stops. *)
LEMMA ContentFound ==
  ASSUME NEW table, GoodTable(table), NEW offset \in Nat, PortionAt(table, offset) # {},
         NEW f \in Nat,
         Candidates(table[CHOOSE x \in PortionAt(table, offset) : TRUE], f) # {}
  PROVE  LET p == table[CHOOSE x \in PortionAt(table, offset) : TRUE]
             it == ExtractValidFragment(p, offset, f)
         IN  it = Stop \/ Position(table, it)
<1> DEFINE q == CHOOSE x \in PortionAt(table, offset) : TRUE
           p == table[q]
           C == Candidates(p, f)
<1>1. q \in DOMAIN table /\ p \in Portions
  BY PortionIs
<1>2. FragmentsCount(p) \in Nat
  BY <1>1, DumpAssumption DEF FragmentsCount, Portions
<1>3. C \in SUBSET Nat /\ C # {}
  BY <1>2 DEF Candidates
<1>4. PICK g \in C : /\ \A h \in C : g <= h
                     /\ g = CHOOSE x \in C : \A h \in C : x <= h
  <2> HIDE DEF C
  <2> QED BY <1>3, MinIs DEF Min
<1>5. g \in Nat /\ FragmentState(p, g) # "absent"
  BY <1>2, <1>4 DEF Candidates
<1>6. g < Len(p.frags) /\ g + 1 \in DOMAIN p.frags /\ FragmentState(p, g) = p.frags[g + 1].state
  BY <1>1, <1>5 DEF FragmentState, Portions
<1>7. ExtractValidFragment(p, offset, f) = CopyFragment(p, offset, g)
  BY <1>4 DEF ExtractValidFragment
<1>8. FragmentState(p, g) \in {"valid", "corrupt"}
  <2> HIDE DEF p
  <2> QED BY <1>1, <1>5, <1>6, FragmentIs
<1>9. CASE FragmentState(p, g) = "corrupt"
  BY <1>7, <1>9 DEF CopyFragment
<1>10. CASE FragmentState(p, g) = "valid"
  <2> DEFINE it == [portion |-> offset, fragment |-> g, item |-> 1]
  <2>1. CopyFragment(p, offset, g) = it
    BY <1>10 DEF CopyFragment
  <2>2. PortionOf(table, it) = p
    BY DEF PortionOf
  <2>3. p.frags[g + 1].blocks \in Seq(Blocks) /\ p.frags[g + 1].blocks # << >>
    <3>1. p.frags[g + 1].blocks \in Seq(Blocks)
      <4> HIDE DEF p
      <4> QED BY <1>1, <1>5, <1>6, FragmentIs
    <3>2. p.frags[g + 1].blocks # << >>
      <4> HIDE DEF q
      <4> QED BY <1>1, <1>6, <1>10 DEF GoodTable
    <3> QED BY <3>1, <3>2
  <2>4. Len(p.frags[g + 1].blocks) \in Nat \ {0}
    <3> DEFINE b == p.frags[g + 1].blocks
    <3>1. b \in Seq(Blocks) /\ b # << >>
      BY <2>3
    <3> HIDE DEF b
    <3>2. Len(b) \in Nat \ {0}
      BY <3>1
    <3> QED BY <3>2 DEF b
  <2>5. Position(table, it)
    <3>1. /\ it.portion = offset /\ it.fragment = g /\ it.item = 1
          /\ it \in [portion : Nat, fragment : Nat, item : Nat]
      BY <1>5
    <3>2. 1 \in 1 .. Len(p.frags[g + 1].blocks)
      <4> HIDE DEF p
      <4> QED BY <2>4
    <3> HIDE DEF p, it
    <3> QED BY <2>2, <3>1, <3>2, <1>5, <1>6, <1>10 DEF Position
  <2> QED BY <1>7, <2>1, <2>5
<1> QED BY <1>8, <1>9, <1>10

LEMMA FirstContentIs ==
  ASSUME NEW table, GoodTable(table), NEW offset \in Nat
  PROVE  FirstContent(table, offset) = Stop \/ Position(table, FirstContent(table, offset))
<1> DEFINE q == CHOOSE x \in PortionAt(table, offset) : TRUE
<1>1. CASE PortionAt(table, offset) = {} \/ Candidates(table[q], 0) = {}
  BY <1>1 DEF FirstContent
<1>2. CASE PortionAt(table, offset) # {} /\ Candidates(table[q], 0) # {}
  <2>1. FirstContent(table, offset) = ExtractValidFragment(table[q], offset, 0)
    BY <1>2 DEF FirstContent
  <2> QED BY <1>2, <2>1, ContentFound
<1> QED BY <1>1, <1>2

(* From a descriptor the iterator goes to a descriptor, or stops. *)
LEMMA NextDescriptorIs ==
  ASSUME NEW table, GoodTable(table), NEW it, it = Start \/ Position(table, it)
  PROVE  NextDescriptor(table, it) = Stop \/ Position(table, NextDescriptor(table, it))
<1>1. CASE it = Start
  BY <1>1, FirstContentIs DEF NextDescriptor
<1>2. CASE it # Start /\ Position(table, it)
  <2> DEFINE q == CHOOSE x \in PortionAt(table, it.portion) : TRUE
             p == table[q]
             items == p.frags[it.fragment + 1].blocks
  <2>1. /\ it \in [portion : Nat, fragment : Nat, item : Nat]
        /\ PortionAt(table, it.portion) # {}
        /\ PortionOf(table, it) = p
        /\ ItemsOf(table, it) = items
        /\ it.fragment < Len(p.frags) /\ p.frags[it.fragment + 1].state = "valid"
        /\ it.item \in 1 .. Len(items)
    BY <1>2 DEF Position, PortionOf, ItemsOf
  <2>2. p \in Portions
    BY <2>1, PortionIs
  <2>3. it.fragment \in Nat
    BY <2>1
  <2>4. Len(items) \in Nat
    <3> HIDE DEF p
    <3> QED BY <2>1, <2>2, <2>3, FragmentIs
  <2>5. CASE it.item < Len(items)
    <3> DEFINE new == [it EXCEPT !.item = @ + 1]
    <3>1. NextDescriptor(table, it) = new
      BY <1>2, <2>1, <2>5 DEF NextDescriptor
    <3>2. /\ new \in [portion : Nat, fragment : Nat, item : Nat]
          /\ new.portion = it.portion /\ new.fragment = it.fragment /\ new.item = it.item + 1
      BY <2>1
    <3>3. PortionOf(table, new) = p
      BY <3>2 DEF PortionOf
    <3>4. Position(table, new)
      <4> HIDE DEF new, p
      <4> QED BY <2>1, <2>4, <2>5, <3>2, <3>3 DEF Position
    <3> QED BY <3>1, <3>4
  <2>6. CASE it.item >= Len(items)
    <3>1. NextDescriptor(table, it) = NextContent(table, it)
      BY <1>2, <2>1, <2>4, <2>6 DEF NextDescriptor
    <3> DEFINE f == it.fragment + 1
    <3>2. f \in Nat /\ p.count \in Nat /\ p.bytes \in Nat
      BY <2>1, <2>2 DEF Portions
    <3>3. CASE f >= p.count
      <4>1. NextContent(table, it) = Stop
        BY <3>2, <3>3 DEF NextContent
      <4> QED BY <4>1, <3>1
    <3>4. CASE f < p.count /\ Candidates(p, f) # {}
      <4>1. NextContent(table, it) = ExtractValidFragment(p, it.portion, f)
        <5>1. ~(f >= p.count)
          <6> HIDE DEF p, f
          <6> QED BY <3>2, <3>4
        <5> QED BY <5>1, <3>4 DEF NextContent
      <4>2. it.portion \in Nat
        BY <2>1
      <4> QED BY <4>1, <4>2, <3>1, <3>2, <3>4, <2>1, ContentFound
    <3>5. CASE f < p.count /\ Candidates(p, f) = {}
      <4>1. NextContent(table, it) = FirstContent(table, HdrBytes + p.bytes)
        <5>1. ~(f >= p.count)
          <6> HIDE DEF p, f
          <6> QED BY <3>2, <3>5
        <5> QED BY <5>1, <3>5 DEF NextContent
      <4>2. HdrBytes + p.bytes \in Nat
        <5> HIDE DEF p
        <5> QED BY <3>2, DumpAssumption
      <4> QED BY <4>1, <4>2, <3>1, FirstContentIs
    <3>6. f >= p.count \/ f < p.count
      <4> HIDE DEF p, f
      <4> QED BY <3>2
    <3> QED BY <3>3, <3>4, <3>5, <3>6
  <2> QED BY <2>1, <2>4, <2>5, <2>6
<1> QED BY <1>1, <1>2

(* The descriptor at a position is one of the table's. *)
LEMMA DescriptorIs ==
  ASSUME NEW table, GoodTable(table), NEW it, Position(table, it)
  PROVE  /\ DescriptorAt(table, it) \in Blocks
         /\ \E q \in DOMAIN table : \E f \in DOMAIN table[q].frags :
              /\ table[q].frags[f].state = "valid"
              /\ \E n \in DOMAIN table[q].frags[f].blocks :
                   DescriptorAt(table, it) = table[q].frags[f].blocks[n]
<1> DEFINE q == CHOOSE x \in PortionAt(table, it.portion) : TRUE
           p == table[q]
           f == it.fragment + 1
<1>1. /\ it \in [portion : Nat, fragment : Nat, item : Nat]
      /\ PortionAt(table, it.portion) # {}
      /\ PortionOf(table, it) = p
      /\ it.fragment < Len(p.frags) /\ p.frags[f].state = "valid"
      /\ it.item \in 1 .. Len(p.frags[f].blocks)
  BY DEF Position, PortionOf
<1>2. DescriptorAt(table, it) = p.frags[f].blocks[it.item]
  BY DEF DescriptorAt, ItemsOf
<1>3. q \in DOMAIN table /\ p \in Portions
  BY <1>1, PortionIs
<1>4. f \in DOMAIN p.frags /\ p.frags[f].blocks \in Seq(Blocks)
  <2>1. it.fragment \in Nat
    BY <1>1
  <2> HIDE DEF p
  <2> QED BY <1>1, <1>3, <2>1, FragmentIs
<1>5. it.item \in DOMAIN p.frags[f].blocks /\ p.frags[f].blocks[it.item] \in Blocks
  <2> DEFINE b == p.frags[f].blocks
  <2>1. b \in Seq(Blocks) /\ it.item \in 1 .. Len(b)
    BY <1>1, <1>4
  <2> HIDE DEF b
  <2>2. it.item \in DOMAIN b /\ b[it.item] \in Blocks
    BY <2>1
  <2> QED BY <2>2 DEF b
<1> QED BY <1>1, <1>2, <1>3, <1>4, <1>5

-----------------------------------------------------------------------------
(* The test of a time keeps the range a range *)

LEMMA TestIs ==
  ASSUME NEW r, r.range \in TimeRanges, NEW f \in Fields, NEW now \in Calendar, NEW time
  PROVE  Test(r, f, now, time).range \in TimeRanges
<1> DEFINE s == IF Given(r.range, f) THEN r.range ELSE [r.range EXCEPT ![f] = now[f]]
<1>1. s \in TimeRanges
  BY DEF TimeRanges, Calendar
<1>2. CASE ~r.in
  BY <1>2 DEF Test
<1>3. CASE r.in
  <2>1. Test(r, f, now, time) = [in |-> time[f] <= s[f], range |-> s]
    BY <1>3 DEF Test
  <2> HIDE DEF s
  <2> QED BY <1>1, <2>1
<1> QED BY <1>2, <1>3

LEMMA InsideRangeIs ==
  ASSUME NEW s \in TimeRanges, NEW now \in Calendar, NEW time
  PROVE  InsideRange(s, now, time).range \in TimeRanges
<1> USE DEF Fields
<1>1. YearInside(s, now, time).range \in TimeRanges
  BY TestIs DEF YearInside
<1>2. MonthInside(s, now, time).range \in TimeRanges
  BY <1>1, TestIs DEF MonthInside
<1>3. DayInside(s, now, time).range \in TimeRanges
  BY <1>2, TestIs DEF DayInside
<1>4. HourInside(s, now, time).range \in TimeRanges
  BY <1>3, TestIs DEF HourInside
<1> QED BY <1>1, <1>2, <1>3, <1>4 DEF InsideRange

-----------------------------------------------------------------------------
(* What a worker knows of the log it is in *)

InLog == {"folder", "areas", "descs", "open", "write", "closeblock", "close"}
InTable == {"descs", "open", "write", "closeblock"}
InBlock == {"open", "write", "closeblock"}

Iterators == [portion : Nat \cup {-1}, fragment : Nat \cup {-1}, item : Nat \cup {-1}]

WorkerType ==
  [pc : {"none", "peb", "log", "folder", "areas", "descs",
         "open", "write", "closeblock", "close", "spin", "exit"},
   n : 0 .. PebsCount, log : Nat, next : Nat, fd : Fds \cup {-1},
   it : Iterators, bfd : Fds \cup {-1}]

(* The PEB and the log of worker t in state w, on the volume named v. *)
PebOf(t, w) == FirstPeb(t, PerThread) + w.n
HeaderAt(v, t, w) == Volumes[v][PebOf(t, w)][w.log + 1]

(* The worker is inside its share; in a log whose header it has found; in  *)
(* the table of that log on one of its descriptors; and it dumps a block   *)
(* only when that could be extracted.                                      *)
WorkerGood(v, t, w) ==
  /\ w \in WorkerType
  /\ w.pc \in {"log"} \cup InLog => w.n < Share(t, PebsCount, PerThread)
  /\ w.pc \in InLog => w.log < LogsCount /\ IsLog(HeaderAt(v, t, w))
  /\ w.pc = "folder" => ~WithoutFolder(HeaderAt(v, t, w))
  /\ w.pc \in InTable =>
       /\ HasTable(HeaderAt(v, t, w))
       /\ w.it = Start \/ Position(HeaderAt(v, t, w).table, w.it)
  /\ w.pc \in InBlock =>
       w.it # Start /\ ExtractBlockState(DescriptorAt(HeaderAt(v, t, w).table, w.it))

Entries == {Free} \cup { Folder(time) : time \in Times } \cup { BlockFile(key) : key \in Keys }

ScanTypes ==
  /\ vol \in DOMAIN Volumes
  /\ fdt \in [Fds -> Entries]
  /\ folders \subseteq Times
  /\ dump \in [Keys -> Vers \cup {None, Empty}]

ScanInv ==
  /\ ScanTypes
  /\ wrk = [t \in Workers |-> wrk[t]]
  /\ \A t \in Workers : WorkerGood(vol, t, wrk[t])

LEMMA HeaderIs == \A t : Header(t) = HeaderAt(vol, t, wrk[t])
  BY DEF Header, Page, Peb, HeaderAt, PebOf

(* The log a worker is in is one of the volume's, of the assumed form. *)
LEMMA LogIs ==
  ASSUME NEW v \in DOMAIN Volumes, NEW t \in Workers, NEW w \in WorkerType,
         w.n < Share(t, PebsCount, PerThread), w.log < LogsCount, IsLog(HeaderAt(v, t, w))
  PROVE  LET page == HeaderAt(v, t, w)
         IN  /\ PebOf(t, w) \in Pebs /\ w.log \in 0 .. LogsCount - 1
             /\ page.time \in Times /\ page.bytes \in Nat /\ page.end \in Nat
             /\ page.footer \in {"valid", "absent", "unreadable"}
             /\ HasTable(page) => GoodTable(page.table)
<1> DEFINE page == HeaderAt(v, t, w)
<1>1. PebOf(t, w) \in 0 .. PebsCount - 1
  <2>1. w.n \in Nat /\ PebsCount \in Nat
    BY ScanAssumption DEF WorkerType
  <2> QED BY <2>1, ShareInVolume DEF PebOf
<1>2. w.log \in 0 .. LogsCount - 1 /\ w.log + 1 \in 1 .. LogsCount
  BY DumpAssumption DEF WorkerType
<1>3. /\ page.time \in Times /\ page.bytes \in Nat /\ page.end \in Nat
      /\ page.footer \in {"valid", "absent", "unreadable"}
      /\ HasTable(page) =>
           /\ page.table \in Seq(Portions)
           /\ \A q \in DOMAIN page.table : \A f \in DOMAIN page.table[q].frags :
                page.table[q].frags[f].state = "valid" => page.table[q].frags[f].blocks # << >>
  BY <1>1, <1>2, VolumeAssumption DEF HeaderAt
<1> QED BY <1>1, <1>2, <1>3 DEF GoodTable, Pebs

LEMMA EntryIs ==
  ASSUME NEW e \in Entries
  PROVE  /\ e.kind = "folder" => e.time \in Times /\ e = Folder(e.time)
         /\ e.kind = "file" => e.key \in Keys /\ e = BlockFile(e.key)
<1>1. CASE e = Free
  BY <1>1 DEF Free
<1>2. ASSUME NEW time \in Times, e = Folder(time)
      PROVE  e.kind = "folder" /\ e.time = time
  BY <1>2 DEF Folder
<1>3. ASSUME NEW key \in Keys, e = BlockFile(key)
      PROVE  e.kind = "file" /\ e.key = key
  BY <1>3 DEF BlockFile
<1> QED BY <1>1, <1>2, <1>3 DEF Entries

LEMMA FdIs ==
  /\ Fds \in SUBSET Nat
  /\ FreeFds # {} => LowestFd \in Fds /\ fdt[LowestFd] = Free
<1>1. Fds \in SUBSET Nat
  BY ScanAssumption DEF Fds
<1>2. FreeFds \in SUBSET Fds
  BY DEF FreeFds
<1>3. ASSUME FreeFds # {} PROVE LowestFd \in FreeFds
  BY <1>1, <1>2, <1>3, MinIs DEF LowestFd
<1> QED BY <1>1, <1>3 DEF FreeFds

(* The next page of interest, and the next log. *)
LEMMA FoundIs ==
  ASSUME NEW t \in Workers, wrk[t].log \in Nat, Interesting(t) # {}
  PROVE  Found(t) \in wrk[t].log .. LogsCount - 1 /\ Found(t) \in Nat
<1>1. Interesting(t) \in SUBSET Nat
  BY DumpAssumption DEF Interesting
<1>2. Found(t) \in Interesting(t)
  BY <1>1, MinIs DEF Found
<1> QED BY <1>2, DumpAssumption DEF Interesting

LEMMA PagesIs ==
  ASSUME NEW bytes \in Nat
  PROVE  Pages(bytes) \in Nat
<1>1. bytes + PageBytes - 1 \in Nat /\ PageBytes \in Nat \ {0}
  BY DumpAssumption
<1> DEFINE a == bytes + PageBytes - 1
<1> HIDE DEF a
<1>2. a \div PageBytes \in Nat
  BY <1>1 DEF a
<1> QED BY <1>2 DEF Pages, a

LEMMA NextLogIs ==
  ASSUME NEW page, NEW index \in Nat, page.bytes \in Nat, page.end \in Nat,
         page.footer \in {"valid", "absent", "unreadable"}
  PROVE  NextLogIndex(page, index) \in Nat
<1>1. Pages(page.bytes) \in Nat
  BY PagesIs
<1>2. DefineNextLogIndex(index, page.end) \in Nat
  <2> DEFINE size == IF page.end > index * PageBytes THEN page.end - index * PageBytes ELSE PageBytes
  <2>1. size \in Nat
    <3>1. PageBytes \in Nat /\ index * PageBytes \in Nat
      BY DumpAssumption
    <3> QED BY <3>1
  <2>2. DefineNextLogIndex(index, page.end) = IF page.end > 0 THEN index + Pages(size) ELSE index + 1
    BY DEF DefineNextLogIndex
  <2>3. Pages(size) \in Nat
    BY <2>1, PagesIs
  <2> HIDE DEF size
  <2> QED BY <2>2, <2>3
<1> QED BY <1>1, <1>2 DEF NextLogIndex, FullLogNext, PartialLogNext

(* A worker's step leaves it inside its share and the other workers alone. *)
LEMMA WorkerMoves ==
  ASSUME ScanInv, NEW t \in Workers, Worker(t)
  PROVE  /\ vol' = vol
         /\ wrk' = [u \in Workers |-> wrk'[u]]
         /\ \A u \in Workers \ {t} : wrk'[u] = wrk[u]
         /\ WorkerGood(vol, t, wrk'[t])
<1> DEFINE w == wrk[t]
           hdr == HeaderAt(vol, t, w)
           share == Share(t, PebsCount, PerThread)
           Moves == /\ wrk' = [u \in Workers |-> wrk'[u]]
                    /\ \A u \in Workers \ {t} : wrk'[u] = wrk[u]
<1>0. /\ WorkerGood(vol, t, w) /\ w \in WorkerType /\ vol \in DOMAIN Volumes
      /\ wrk = [u \in Workers |-> wrk[u]]
      /\ \A j : Page(t, j) = Volumes[vol][PebOf(t, w)][j + 1]
      /\ share \in Nat /\ share <= PebsCount
  <2>1. share \in Nat /\ FirstPeb(t, PerThread) \in Nat /\ FirstPeb(t, PerThread) + share <= PebsCount
    BY ShareInVolume
  <2>2. share <= PebsCount
    <3> HIDE DEF share
    <3> QED BY <2>1, ScanAssumption
  <2> QED BY <2>1, <2>2 DEF ScanInv, ScanTypes, WorkerGood, Page, Peb, PebOf
<1>v. vol' = vol
  BY DEF Worker, NextPeb, LastPeb, PebDone, OrphanedFooter, LogFound, CreateFolder,
         CreateFolderFails, ParseAreas, ParseAreasFails, TableDone, NextBlock, ReadHangs,
         OpenBlock, OpenBlockFails, WriteBlock, CloseBlock, CloseFolder
<1>h. ASSUME w.pc \in InLog
      PROVE  /\ w.n < share /\ w.log < LogsCount /\ IsLog(hdr) /\ w.log \in Nat
             /\ hdr.time \in Times /\ hdr.bytes \in Nat /\ hdr.end \in Nat
             /\ hdr.footer \in {"valid", "absent", "unreadable"}
             /\ HasTable(hdr) => GoodTable(hdr.table)
  <2>1. w.n < share /\ w.log < LogsCount /\ IsLog(hdr) /\ w.log \in Nat
    BY <1>0, <1>h DEF WorkerGood, WorkerType
  <2> QED BY <1>0, <2>1, LogIs
<1>f. LowestFd \in Fds \/ FreeFds = {}
  BY FdIs
<1> USE DEF At, Running
<1>1. CASE NextPeb(t)
  <2>1. /\ wrk' = [wrk EXCEPT ![t].pc = "log", ![t].log = 0] /\ w.n < share
    BY <1>1 DEF NextPeb
  <2>2. Moves /\ wrk'[t] = [w EXCEPT !.pc = "log", !.log = 0]
    BY <1>0, <2>1
  <2>3. wrk'[t] \in WorkerType /\ wrk'[t].pc = "log" /\ wrk'[t].n = w.n
    <3> DEFINE first == 0
    <3>1. first \in Nat /\ wrk'[t] = [w EXCEPT !.pc = "log", !.log = first]
      BY <2>2
    <3> HIDE DEF w, first
    <3> QED BY <1>0, <3>1 DEF WorkerType
  <2>4. WorkerGood(vol, t, wrk'[t])
    <3> HIDE DEF w
    <3> QED BY <2>1, <2>3 DEF WorkerGood, InLog, InTable, InBlock
  <2> QED BY <1>v, <2>2, <2>4
<1>2. CASE LastPeb(t) \/ ReadHangs(t)
  <2>1. wrk' = [wrk EXCEPT ![t].pc = "exit"] \/ wrk' = [wrk EXCEPT ![t].pc = "spin"]
    BY <1>2 DEF LastPeb, ReadHangs
  <2>2. Moves /\ (wrk'[t] = [w EXCEPT !.pc = "exit"] \/ wrk'[t] = [w EXCEPT !.pc = "spin"])
    BY <1>0, <2>1
  <2>3. WorkerGood(vol, t, wrk'[t])
    <3> HIDE DEF w, share
    <3> QED BY <1>0, <2>1, <2>2 DEF WorkerGood, WorkerType, InLog, InTable, InBlock
  <2> QED BY <1>v, <2>2, <2>3
<1>3. CASE PebDone(t)
  <2>1. /\ wrk' = [wrk EXCEPT ![t].pc = "peb", ![t].n = wrk[t].n + 1] /\ w.pc = "log"
    BY <1>3 DEF PebDone
  <2>2. Moves /\ wrk'[t] = [w EXCEPT !.pc = "peb", !.n = w.n + 1]
    BY <1>0, <2>1
  <2>3. w.n + 1 \in 0 .. PebsCount
    <3>1. w.n \in Nat /\ w.n < share
      BY <1>0, <2>1 DEF WorkerGood, WorkerType
    <3> HIDE DEF w, share
    <3> QED BY <1>0, <3>1, ScanAssumption
  <2>4. wrk'[t] \in WorkerType /\ wrk'[t].pc = "peb"
    <3> HIDE DEF w
    <3> QED BY <1>0, <2>2, <2>3 DEF WorkerType
  <2>5. WorkerGood(vol, t, wrk'[t])
    BY <2>4 DEF WorkerGood, InLog, InTable, InBlock
  <2> QED BY <1>v, <2>2, <2>5
<1>4. CASE OrphanedFooter(t)
  <2>1. /\ wrk' = [wrk EXCEPT ![t].log = Found(t) + 1] /\ w.pc = "log"
        /\ Interesting(t) # {} /\ w.log \in Nat
    BY <1>0, <1>4 DEF OrphanedFooter, WorkerType
  <2>2. Moves /\ wrk'[t] = [w EXCEPT !.log = Found(t) + 1]
    BY <1>0, <2>1
  <2>3. Found(t) \in Nat
    BY <2>1, FoundIs
  <2>4. WorkerGood(vol, t, wrk'[t])
    <3> HIDE DEF w, share
    <3> QED BY <1>0, <2>1, <2>2, <2>3 DEF WorkerGood, WorkerType, InLog, InTable, InBlock
  <2> QED BY <1>v, <2>2, <2>4
<1>5. CASE LogFound(t)
  <2> DEFINE f == Found(t)
             label == IF WithoutFolder(Page(t, f)) THEN "areas" ELSE "folder"
  <2>1. /\ wrk' = [wrk EXCEPT ![t].log = f, ![t].next = f + 1, ![t].pc = label]
        /\ w.pc = "log" /\ Interesting(t) # {} /\ w.log \in Nat /\ IsLog(Page(t, f))
    BY <1>0, <1>5 DEF LogFound, WorkerType
  <2> HIDE DEF label
  <2>2. Moves /\ wrk'[t] = [w EXCEPT !.log = f, !.next = f + 1, !.pc = label]
    BY <1>0, <2>1
  <2>3. f \in Nat /\ f < LogsCount
    <3>1. f \in w.log .. LogsCount - 1 /\ f \in Nat
      BY <2>1, FoundIs
    <3> HIDE DEF f, w
    <3> QED BY <3>1, <2>1, DumpAssumption
  <2>4. label \in {"areas", "folder"} /\ (label = "folder" => ~WithoutFolder(Page(t, f)))
    BY DEF label
  <2>5. wrk'[t].n = w.n /\ wrk'[t].log = f /\ wrk'[t].pc = label /\ wrk'[t] \in WorkerType
    <3> DEFINE g == f + 1
    <3>1. g \in Nat
      BY <2>3
    <3>2. wrk'[t] = [w EXCEPT !.log = f, !.next = g, !.pc = label]
      BY <2>2
    <3> HIDE DEF w, f, g
    <3> QED BY <1>0, <2>3, <2>4, <3>1, <3>2 DEF WorkerType
  <2>6. HeaderAt(vol, t, wrk'[t]) = Page(t, f)
    BY <1>0, <2>5 DEF HeaderAt, PebOf
  <2>7. w.n < share
    BY <1>0, <2>1 DEF WorkerGood
  <2>8. WorkerGood(vol, t, wrk'[t])
    <3> HIDE DEF w, f, share
    <3> QED BY <2>1, <2>3, <2>4, <2>5, <2>6, <2>7 DEF WorkerGood, InLog, InTable, InBlock, share
  <2> QED BY <1>v, <2>2, <2>8
<1>6. CASE CreateFolder(t)
  <2>1. /\ wrk' = [wrk EXCEPT ![t].pc = "areas", ![t].fd = LowestFd] /\ w.pc = "folder"
        /\ LowestFd \in Fds
    BY <1>f, <1>6 DEF CreateFolder
  <2>2. Moves /\ wrk'[t] = [w EXCEPT !.pc = "areas", !.fd = LowestFd]
    BY <1>0, <2>1
  <2>3. /\ wrk'[t].n = w.n /\ wrk'[t].log = w.log /\ wrk'[t].pc = "areas"
        /\ wrk'[t] \in WorkerType
    <3> HIDE DEF w
    <3> QED BY <1>0, <2>1, <2>2 DEF WorkerType
  <2>4. HeaderAt(vol, t, wrk'[t]) = hdr
    BY <2>3 DEF HeaderAt, PebOf
  <2>5. w.n < share /\ w.log < LogsCount /\ IsLog(hdr)
    BY <1>h, <2>1 DEF InLog
  <2>6. WorkerGood(vol, t, wrk'[t])
    <3> HIDE DEF w, hdr, share
    <3> QED BY <2>3, <2>4, <2>5 DEF WorkerGood, InLog, InTable, InBlock, share
  <2> QED BY <1>v, <2>2, <2>6
<1>7. CASE CreateFolderFails(t) \/ ParseAreasFails(t) \/ CloseFolder(t)
  <2>1. /\ w.pc \in InLog
        /\ \/ wrk' = [wrk EXCEPT ![t].pc = "log", ![t].log = wrk[t].next]
           \/ wrk' = [wrk EXCEPT ![t].pc = "log", ![t].log = wrk[t].next, ![t].fd = -1]
    BY <1>7 DEF CreateFolderFails, ParseAreasFails, CloseFolder, InLog
  <2>2. /\ Moves
        /\ \/ wrk'[t] = [w EXCEPT !.pc = "log", !.log = w.next]
           \/ wrk'[t] = [w EXCEPT !.pc = "log", !.log = w.next, !.fd = -1]
    BY <1>0, <2>1
  <2>3. wrk'[t].n = w.n /\ wrk'[t].pc = "log" /\ wrk'[t] \in WorkerType
    <3> HIDE DEF w
    <3> QED BY <1>0, <2>1, <2>2 DEF WorkerType
  <2>4. w.n < share
    BY <1>h, <2>1
  <2>5. WorkerGood(vol, t, wrk'[t])
    <3> HIDE DEF w, share
    <3> QED BY <2>3, <2>4 DEF WorkerGood, InLog, InTable, InBlock, share
  <2> QED BY <1>v, <2>2, <2>5
<1>8. CASE ParseAreas(t)
  <2> DEFINE next == NextLogIndex(hdr, w.log)
             label == IF HasTable(hdr) THEN "descs" ELSE "close"
  <2>1. /\ wrk' = [wrk EXCEPT ![t].next = next, ![t].it = Start, ![t].pc = label]
        /\ w.pc = "areas"
    BY <1>8, HeaderIs DEF ParseAreas
  <2> HIDE DEF label
  <2>2. Moves /\ wrk'[t] = [w EXCEPT !.next = next, !.it = Start, !.pc = label]
    BY <1>0, <2>1
  <2>3. w.n < share /\ w.log < LogsCount /\ IsLog(hdr)
    BY <1>h, <2>1 DEF InLog
  <2>4. next \in Nat
    BY <1>h, <2>1, NextLogIs DEF InLog
  <2>5. label \in {"descs", "close"} /\ (label = "descs" => HasTable(hdr))
    BY DEF label
  <2>6. /\ wrk'[t].n = w.n /\ wrk'[t].log = w.log /\ wrk'[t].pc = label /\ wrk'[t].it = Start
        /\ wrk'[t] \in WorkerType
    <3>1. Start \in Iterators
      BY DEF Start, Iterators
    <3> HIDE DEF w, next
    <3> QED BY <1>0, <2>2, <2>4, <2>5, <3>1 DEF WorkerType
  <2>7. HeaderAt(vol, t, wrk'[t]) = hdr
    BY <2>6 DEF HeaderAt, PebOf
  <2>8. WorkerGood(vol, t, wrk'[t])
    <3> HIDE DEF w, hdr, share, next
    <3> QED BY <2>3, <2>5, <2>6, <2>7 DEF WorkerGood, InLog, InTable, InBlock, share
  <2> QED BY <1>v, <2>2, <2>8
<1>9. CASE TableDone(t) \/ OpenBlockFails(t) \/ CloseBlock(t)
  <2>1. /\ w.pc \in InTable
        /\ \/ wrk' = [wrk EXCEPT ![t].pc = "descs"]
           \/ wrk' = [wrk EXCEPT ![t].pc = "close"]
    BY <1>9 DEF TableDone, OpenBlockFails, CloseBlock, InTable
  <2>2. /\ Moves
        /\ \/ wrk'[t] = [w EXCEPT !.pc = "descs"]
           \/ wrk'[t] = [w EXCEPT !.pc = "close"]
    BY <1>0, <2>1
  <2>3. /\ wrk'[t].n = w.n /\ wrk'[t].log = w.log /\ wrk'[t].pc \in {"descs", "close"}
        /\ wrk'[t].it = w.it /\ wrk'[t] \in WorkerType
    <3> HIDE DEF w
    <3> QED BY <1>0, <2>1, <2>2 DEF WorkerType
  <2>4. HeaderAt(vol, t, wrk'[t]) = hdr
    BY <2>3 DEF HeaderAt, PebOf
  <2>5. w.n < share /\ w.log < LogsCount /\ IsLog(hdr)
    BY <1>h, <2>1 DEF InLog, InTable
  <2>6. HasTable(hdr) /\ (w.it = Start \/ Position(hdr.table, w.it))
    BY <1>0, <2>1 DEF WorkerGood
  <2>7. WorkerGood(vol, t, wrk'[t])
    <3> HIDE DEF w, hdr, share
    <3> QED BY <2>3, <2>4, <2>5, <2>6 DEF WorkerGood, InLog, InTable, InBlock, share
  <2> QED BY <1>v, <2>2, <2>7
<1>10. CASE NextBlock(t)
  <2> DEFINE new == NextDescriptor(hdr.table, w.it)
             label == IF ExtractBlockState(DescriptorAt(hdr.table, new)) THEN "open" ELSE "descs"
  <2>1. /\ wrk' = [wrk EXCEPT ![t].it = new, ![t].pc = label]
        /\ w.pc = "descs" /\ new # Stop
    BY <1>10, HeaderIs DEF NextBlock, NextOf
  <2> HIDE DEF label
  <2>2. Moves /\ wrk'[t] = [w EXCEPT !.it = new, !.pc = label]
    BY <1>0, <2>1
  <2>3. w.n < share /\ w.log < LogsCount /\ IsLog(hdr)
    BY <1>h, <2>1 DEF InLog
  <2>4. HasTable(hdr) /\ (w.it = Start \/ Position(hdr.table, w.it)) /\ GoodTable(hdr.table)
    BY <1>0, <1>h, <2>1 DEF WorkerGood, InTable, InLog
  <2>5. Position(hdr.table, new)
    BY <2>1, <2>4, NextDescriptorIs
  <2>6. /\ label \in {"descs", "open"}
        /\ label = "open" => ExtractBlockState(DescriptorAt(hdr.table, new))
    BY DEF label
  <2>7. new \in Iterators /\ new # Start
    <3> HIDE DEF new
    <3> QED BY <2>5 DEF Position, Iterators, Start
  <2>8. /\ wrk'[t].n = w.n /\ wrk'[t].log = w.log /\ wrk'[t].pc = label /\ wrk'[t].it = new
        /\ wrk'[t] \in WorkerType
    <3> HIDE DEF w, new
    <3> QED BY <1>0, <2>2, <2>6, <2>7 DEF WorkerType
  <2>9. HeaderAt(vol, t, wrk'[t]) = hdr
    BY <2>8 DEF HeaderAt, PebOf
  <2>10. WorkerGood(vol, t, wrk'[t])
    <3> HIDE DEF w, hdr, share, new
    <3> QED BY <2>3, <2>4, <2>5, <2>6, <2>7, <2>8, <2>9
            DEF WorkerGood, InLog, InTable, InBlock, share
  <2> QED BY <1>v, <2>2, <2>10
<1>11. CASE OpenBlock(t) \/ WriteBlock(t)
  <2>1. /\ w.pc \in InBlock
        /\ \/ wrk' = [wrk EXCEPT ![t].pc = "write", ![t].bfd = LowestFd] /\ LowestFd \in Fds
           \/ wrk' = [wrk EXCEPT ![t].pc = "closeblock"]
    BY <1>f, <1>11 DEF OpenBlock, WriteBlock, InBlock
  <2>2. /\ Moves
        /\ \/ wrk'[t] = [w EXCEPT !.pc = "write", !.bfd = LowestFd] /\ LowestFd \in Fds
           \/ wrk'[t] = [w EXCEPT !.pc = "closeblock"]
    BY <1>0, <2>1
  <2>3. /\ wrk'[t].n = w.n /\ wrk'[t].log = w.log /\ wrk'[t].pc \in {"write", "closeblock"}
        /\ wrk'[t].it = w.it /\ wrk'[t] \in WorkerType
    <3> HIDE DEF w
    <3> QED BY <1>0, <2>1, <2>2 DEF WorkerType
  <2>4. HeaderAt(vol, t, wrk'[t]) = hdr
    BY <2>3 DEF HeaderAt, PebOf
  <2>5. w.n < share /\ w.log < LogsCount /\ IsLog(hdr)
    BY <1>h, <2>1 DEF InLog, InBlock
  <2>6. /\ HasTable(hdr) /\ (w.it = Start \/ Position(hdr.table, w.it))
        /\ w.it # Start /\ ExtractBlockState(DescriptorAt(hdr.table, w.it))
    BY <1>0, <2>1 DEF WorkerGood, InTable, InBlock
  <2>7. WorkerGood(vol, t, wrk'[t])
    <3> HIDE DEF w, hdr, share
    <3> QED BY <2>3, <2>4, <2>5, <2>6 DEF WorkerGood, InLog, InTable, InBlock, share
  <2> QED BY <1>v, <2>2, <2>7
<1> QED
  BY <1>1, <1>2, <1>3, <1>4, <1>5, <1>6, <1>7, <1>8, <1>9, <1>10, <1>11 DEF Worker

(* What the workers share keeps its types. *)
LEMMA WorkerShares ==
  ASSUME ScanInv, NEW t \in Workers, Worker(t)
  PROVE  ScanTypes'
<1> USE DEF At, Running
<1>0. /\ ScanTypes /\ WorkerGood(vol, t, wrk[t]) /\ wrk[t] \in WorkerType /\ vol \in DOMAIN Volumes
  BY DEF ScanInv, ScanTypes, WorkerGood
<1>t. ASSUME wrk[t].pc \in InLog PROVE Header(t).time \in Times
  BY <1>0, <1>t, LogIs, HeaderIs DEF WorkerGood
<1>d. ASSUME wrk[t].pc \in InBlock PROVE Descriptor(t) \in Blocks
  <2>1. wrk[t].pc \in InLog /\ wrk[t].pc \in InTable
    BY <1>d DEF InLog, InTable, InBlock
  <2>2. HasTable(Header(t)) /\ Position(Header(t).table, wrk[t].it)
    BY <1>0, <1>d, <2>1, HeaderIs DEF WorkerGood
  <2>3. GoodTable(Header(t).table)
    BY <1>0, <2>1, <2>2, LogIs, HeaderIs DEF WorkerGood
  <2> QED BY <2>2, <2>3, DescriptorIs DEF Descriptor
<1>c. \A fd : Closed(fd) \in [Fds -> Entries]
  BY <1>0 DEF Closed, ScanTypes, Entries
<1>e. \A fd : EntryOf(fd) \in Entries
  BY <1>0 DEF EntryOf, ScanTypes, Entries
<1>1. CASE CreateFolder(t)
  <2>1. Header(t).time \in Times
    BY <1>1, <1>t DEF CreateFolder, InLog
  <2> QED BY <1>0, <1>1, <2>1 DEF CreateFolder, ScanTypes, Entries
<1>2. CASE CreateFolderFails(t)
  <2>1. Header(t).time \in Times
    BY <1>2, <1>t DEF CreateFolderFails, InLog
  <2> QED BY <1>0, <1>2, <2>1 DEF CreateFolderFails, ScanTypes
<1>3. CASE OpenBlock(t)
  <2> DEFINE dir == EntryOf(wrk[t].fd)
             key == <<dir.time, Descriptor(t).ino, Descriptor(t).off>>
  <2>1. dir.time \in Times /\ Descriptor(t) \in Blocks
    BY <1>3, <1>d, <1>e, EntryIs DEF OpenBlock, InBlock
  <2>2. key \in Keys
    BY <2>1 DEF Keys, Blocks
  <2>3. /\ fdt' = [fdt EXCEPT ![LowestFd] = BlockFile(key)]
        /\ dump' = [dump EXCEPT ![key] = IF dump[key] = None THEN Empty ELSE dump[key]]
        /\ vol' = vol /\ folders' = folders
    BY <1>3 DEF OpenBlock
  <2> HIDE DEF key
  <2> QED BY <1>0, <2>2, <2>3 DEF ScanTypes, Entries
<1>4. CASE WriteBlock(t)
  <2>1. EntryOf(wrk[t].bfd) \in Entries /\ Descriptor(t) \in Blocks
    BY <1>4, <1>d, <1>e DEF WriteBlock, InBlock
  <2>2. Descriptor(t).ver \in Vers
    BY <2>1 DEF Blocks
  <2>3. /\ \/ dump' = [dump EXCEPT ![EntryOf(wrk[t].bfd).key] = Descriptor(t).ver]
           \/ dump' = dump
        /\ vol' = vol /\ folders' = folders /\ fdt' = fdt
    BY <1>4 DEF WriteBlock
  <2> QED BY <1>0, <2>2, <2>3 DEF ScanTypes
<1>5. CASE CloseBlock(t) \/ CloseFolder(t)
  BY <1>0, <1>5, <1>c DEF CloseBlock, CloseFolder, ScanTypes
<1>6. CASE \/ NextPeb(t) \/ LastPeb(t) \/ PebDone(t) \/ OrphanedFooter(t) \/ LogFound(t)
           \/ ParseAreas(t) \/ ParseAreasFails(t) \/ TableDone(t) \/ NextBlock(t)
           \/ ReadHangs(t) \/ OpenBlockFails(t)
  BY <1>0, <1>6 DEF NextPeb, LastPeb, PebDone, OrphanedFooter, LogFound, ParseAreas,
     ParseAreasFails, TableDone, NextBlock, ReadHangs, OpenBlockFails, ScanTypes
<1> QED BY <1>1, <1>2, <1>3, <1>4, <1>5, <1>6 DEF Worker

-----------------------------------------------------------------------------
(* The session *)

JobType == [pc : {"run", "exit"}, ino : Inos, f : Nat \ {0}, range : TimeRanges]

BuildInv ==
  /\ pc \in {"open", "probe", "spawn", "unwind", "join", "filter", "round", "jobs",
             "delete", "nodes", "free", "exit"}
  /\ pc \in {"filter", "delete"} => i \in Nat \ {0}
  /\ pc \in {"round", "jobs"} => i \in 1 .. Len(list)
  /\ asked \in TimeRanges /\ range \in TimeRanges
  /\ list \in Seq(Times)
  /\ pc = "jobs" => names \in Seq(Inos) /\ k \in Nat \ {0}
  /\ jobs \in Seq(JobType)
  /\ files \in [Places -> Vers \cup {None}]
  /\ out \subseteq Inos
  /\ exit \in {-1, 0, 1}

(* Up to the deletion the exit status is not set and every folder is in    *)
(* the list; of the folders before the one to be deleted next, only those  *)
(* are left whose deletion failed.                                         *)
Rmdirs == { n \in DOMAIN faults : faults[n] = "rmdir" }
Listed == { list[n] : n \in 1 .. Len(list) }
Ahead == { list[n] : n \in i .. Len(list) }

Early == {"open", "probe", "spawn", "unwind", "join", "filter", "round", "jobs", "delete"}

DeleteInv ==
  /\ pc \in Early => exit = -1
  /\ pc \in {"filter", "round", "jobs"} => folders \subseteq Listed
  /\ pc = "delete" => Cardinality(folders \ Ahead) <= Cardinality(Rmdirs)
  /\ pc = "nodes" \/ (pc \in {"free", "exit"} /\ exit = 0) =>
       Cardinality(folders) <= Cardinality(Rmdirs)

SessionInv == JoinedInv /\ ScanInv /\ BuildInv /\ DeleteInv

(* The calls that failed are counted. *)
LEMMA RmdirsCount ==
  ASSUME PoolTypes, vol' = vol, faults' = faults \/ \E call : MayFail(call)
  PROVE  /\ Cardinality(Rmdirs) \in Nat
         /\ Cardinality(Rmdirs) <= Cardinality(Rmdirs')
         /\ MayFail("rmdir") => Cardinality(Rmdirs') = Cardinality(Rmdirs) + 1
<1>1. faults \in Seq(Faults[vol]) /\ Len(faults) \in Nat /\ DOMAIN faults = 1 .. Len(faults)
  BY DEF PoolTypes
<1>2. IsFiniteSet(Rmdirs) /\ Cardinality(Rmdirs) \in Nat
  <2>1. IsFiniteSet(1 .. Len(faults))
    BY <1>1, FS_Interval
  <2>2. Rmdirs \in SUBSET (1 .. Len(faults))
    BY <1>1 DEF Rmdirs
  <2> QED BY <2>1, <2>2, FS_Subset, FS_CardinalityType
<1>3. ASSUME NEW call, MayFail(call)
      PROVE  /\ Cardinality(Rmdirs) <= Cardinality(Rmdirs')
             /\ call = "rmdir" => Cardinality(Rmdirs') = Cardinality(Rmdirs) + 1
  <2>1. faults' = Append(faults, call) /\ call \in Faults[vol]
    BY <1>3 DEF MayFail
  <2>2. /\ DOMAIN faults' = 1 .. Len(faults) + 1
        /\ \A n \in 1 .. Len(faults) : faults'[n] = faults[n]
        /\ faults'[Len(faults) + 1] = call
    <3>1. faults \in Seq(Faults[vol])
      BY <1>1
    <3> QED BY <2>1, <3>1
  <2>3. Rmdirs' = IF call = "rmdir" THEN Rmdirs \cup {Len(faults) + 1} ELSE Rmdirs
    BY <1>1, <2>2 DEF Rmdirs
  <2>4. Len(faults) + 1 \notin Rmdirs
    BY <1>1 DEF Rmdirs
  <2>5. Cardinality(Rmdirs \cup {Len(faults) + 1}) = Cardinality(Rmdirs) + 1
    BY <1>2, <2>4, FS_AddElement
  <2>6. CASE call = "rmdir"
    <3>1. Cardinality(Rmdirs') = Cardinality(Rmdirs) + 1
      BY <2>3, <2>5, <2>6
    <3> QED BY <1>2, <3>1
  <2>7. CASE call # "rmdir"
    <3>1. Cardinality(Rmdirs') = Cardinality(Rmdirs)
      BY <2>3, <2>7
    <3> QED BY <1>2, <2>7, <3>1
  <2> QED BY <2>6, <2>7
<1>4. CASE faults' = faults
  <2>1. Rmdirs' = Rmdirs
    BY <1>4 DEF Rmdirs
  <2> QED BY <1>2, <1>3, <2>1
<1> QED BY <1>2, <1>3, <1>4

LEMMA FoldersCount ==
  ASSUME folders \subseteq Times
  PROVE  IsFiniteSet(folders) /\ Cardinality(folders) \in Nat
  BY ScanAssumption, FS_Subset, FS_CardinalityType

LEMMA InitSession == Init => SessionInv
<1> SUFFICES ASSUME Init PROVE SessionInv
  OBVIOUS
<1>1. JoinedInv
  BY InitJoined
<1>2. ScanInv
  <2>1. NewWorker \in WorkerType
    <3>1. Start \in Iterators
      BY DEF Start, Iterators
    <3> QED BY <3>1, ScanAssumption DEF NewWorker, WorkerType
  <2>2. \A t \in Workers : WorkerGood(vol, t, NewWorker)
    BY <2>1 DEF WorkerGood, NewWorker, InLog, InTable, InBlock
  <2>3. ScanTypes
    BY DEF Init, ScanInit, ScanTypes, Entries
  <2> QED BY <2>2, <2>3 DEF Init, ScanInit, ScanInv
<1>3. BuildInv
  <2>1. asked \in TimeRanges
    BY RecoverAssumption DEF Init, ScanInit
  <2> QED BY <2>1 DEF Init, BuildInv
<1>4. DeleteInv
  BY DEF Init, DeleteInv, Early
<1> QED BY <1>1, <1>2, <1>3, <1>4 DEF SessionInv

(* The workers move only while the main thread starts or awaits them. *)
LEMMA WorkerPhase ==
  ASSUME JoinedInv, BuildInv, NEW t \in Workers, Worker(t)
  PROVE  pc \in {"spawn", "unwind", "join"}
<1>1. wrk[t].pc \notin Idle /\ pc \notin {"free", "exit"}
  BY DEF Worker, NextPeb, LastPeb, PebDone, OrphanedFooter, LogFound, CreateFolder,
         CreateFolderFails, ParseAreas, ParseAreasFails, TableDone, NextBlock, ReadHangs,
         OpenBlock, OpenBlockFails, WriteBlock, CloseBlock, CloseFolder, At, Running, Idle
<1> QED BY <1>1 DEF JoinedInv, PoolInv, BuildInv, Idle

LEMMA WorkerSession ==
  ASSUME SessionInv, NEW t \in Workers, ScanStep(t)
  PROVE  ScanInv' /\ BuildInv' /\ DeleteInv'
<1>1. /\ JoinedInv /\ ScanInv /\ BuildInv /\ DeleteInv /\ PoolTypes
      /\ Worker(t) /\ UNCHANGED sessionVars
  BY DEF SessionInv, JoinedInv, ScanStep
<1>2. UNCHANGED <<vol, pc, i>>
  BY <1>1, WorkerStep
<1>3. pc \in {"spawn", "unwind", "join"}
  BY <1>1, WorkerPhase
<1>4. ScanInv'
  BY <1>1, <1>2, WorkerMoves, WorkerShares DEF ScanInv
<1>5. BuildInv'
  BY <1>1, <1>2, <1>3 DEF BuildInv, sessionVars, buildVars, outVars
<1>6. DeleteInv'
  BY <1>1, <1>2, <1>3 DEF DeleteInv, Early, sessionVars, buildVars, outVars
<1> QED BY <1>4, <1>5, <1>6

LEMMA ScanMainSession ==
  ASSUME SessionInv, ScanMain, UNCHANGED sessionVars
  PROVE  ScanInv' /\ BuildInv' /\ DeleteInv'
<1>0. /\ JoinedInv /\ PoolTypes /\ PoolInv /\ ScanInv /\ BuildInv /\ DeleteInv
  BY DEF SessionInv, JoinedInv
<1> USE DEF sessionVars, buildVars, outVars
<1>1. CASE Spawn
  <2>1. i \in Workers
    BY <1>0, <1>1, ScanAssumption DEF Spawn, PoolInv, Workers
  <2>2. /\ wrk' = [t \in Workers |-> wrk'[t]] /\ vol' = vol /\ ScanTypes'
        /\ \A t \in Workers \ {i} : wrk'[t] = wrk[t]
        /\ wrk'[i] = [wrk[i] EXCEPT !.pc = "peb"]
    BY <1>0, <1>1, <2>1 DEF Spawn, ScanInv, ScanTypes
  <2>3. wrk'[i] \in WorkerType /\ wrk'[i].pc = "peb"
    BY <1>0, <2>1, <2>2 DEF ScanInv, WorkerGood, WorkerType
  <2>4. WorkerGood(vol, i, wrk'[i])
    BY <2>3 DEF WorkerGood, InLog, InTable, InBlock
  <2>5. ScanInv'
    BY <1>0, <2>1, <2>2, <2>4 DEF ScanInv
  <2>6. BuildInv'
    BY <1>0, <1>1 DEF Spawn, BuildInv
  <2>7. DeleteInv'
    BY <1>0, <1>1 DEF Spawn, DeleteInv, Early
  <2> QED BY <2>5, <2>6, <2>7
<1>2. CASE ScanMain /\ ~Spawn
  <2>1. /\ UNCHANGED scanVars
        /\ pc \in {"spawn", "unwind", "join"}
        /\ pc' \in {"spawn", "unwind", "join", "free"}
    BY <1>2 DEF ScanMain, InitStateFails, SpawnFails, UnwindJoin, UnwindDone, AllSpawned, Join
  <2>2. ScanInv'
    BY <1>0, <2>1 DEF ScanInv, ScanTypes, scanVars
  <2>3. BuildInv'
    BY <1>0, <2>1 DEF BuildInv
  <2>4. DeleteInv'
    BY <1>0, <2>1 DEF DeleteInv, Early
  <2> QED BY <2>2, <2>3, <2>4
<1> QED BY <1>1, <1>2

(* The checkpoint folders, listed in the order of their names. *)
LEMMA ListIs ==
  ASSUME folders \subseteq Times
  PROVE  LET sorted == Sorted(folders, TimeOrder)
         IN  /\ sorted \in Seq(Times)
             /\ folders = { sorted[n] : n \in 1 .. Len(sorted) }
<1> DEFINE sorted == Sorted(folders, TimeOrder)
           c == Cardinality(folders)
<1>1. /\ c \in Nat /\ sorted \in [1 .. c -> folders]
      /\ \A x \in folders : \E n \in 1 .. c : sorted[n] = x
  BY TimesInOrder, ScanAssumption, SortedIs
<1> HIDE DEF sorted, c
<1>2. sorted \in Seq(Times) /\ Len(sorted) = c
  <2>1. sorted \in [1 .. c -> Times]
    BY <1>1
  <2> QED BY <1>1, <2>1
<1>3. folders = { sorted[n] : n \in 1 .. Len(sorted) }
  BY <1>1, <1>2
<1> QED BY <1>2, <1>3 DEF sorted

(* The inodes of the files in a folder. *)
LEMMA NamesAre ==
  ASSUME NEW S \in SUBSET Places
  PROVE  [n \in 1 .. Cardinality(S) |-> Sorted(S, NameOrder)[n][1]] \in Seq(Inos)
<1> DEFINE sorted == Sorted(S, NameOrder)
           c == Cardinality(S)
<1>1. IsFiniteSet(Places)
  BY ScanAssumption, FS_Product DEF Places
<1>2. c \in Nat /\ sorted \in [1 .. c -> S]
  BY <1>1, NamesOrdered, SortedIs
<1> HIDE DEF sorted, c
<1>3. \A n \in 1 .. c : sorted[n][1] \in Inos
  BY <1>2 DEF Places
<1>4. [n \in 1 .. c |-> sorted[n][1]] \in [1 .. c -> Inos]
  BY <1>3
<1> DEFINE all == [n \in 1 .. c |-> sorted[n][1]]
<1> HIDE DEF all
<1>5. all \in Seq(Inos)
  BY <1>2, <1>4 DEF all
<1> QED BY <1>5 DEF all, sorted, c

(* The steps of the main thread but those on the pool of workers. *)
LEMMA OpenSession ==
  ASSUME SessionInv, Opened \/ OpenFails \/ ProbeFails \/ CreatePool \/ FreePool
  PROVE  ScanInv' /\ BuildInv' /\ DeleteInv'
<1>0. /\ JoinedInv /\ PoolTypes /\ ScanInv /\ BuildInv /\ DeleteInv
  BY DEF SessionInv, JoinedInv
<1> USE DEF buildVars, outVars
<1>1. UNCHANGED scanVars
  BY DEF Opened, OpenFails, ProbeFails, CreatePool, FreePool
<1>2. ScanInv'
  BY <1>0, <1>1 DEF ScanInv, ScanTypes, scanVars
<1>3. BuildInv'
  BY <1>0 DEF BuildInv, Opened, OpenFails, ProbeFails, CreatePool, FreePool
<1>4. CASE ~FreePool
  <2>1. DeleteInv'
    BY <1>0, <1>4 DEF Opened, OpenFails, ProbeFails, CreatePool, DeleteInv, Early
  <2> QED BY <1>2, <1>3, <2>1
<1>5. CASE FreePool
  <2>1. pc = "free" /\ pc' = "exit" /\ folders' = folders /\ faults' = faults
        /\ (exit' = 0 => exit = 0)
    BY <1>5 DEF FreePool, scanVars
  <2>2. Rmdirs' = Rmdirs
    BY <2>1 DEF Rmdirs
  <2>3. DeleteInv'
    BY <1>0, <2>1, <2>2 DEF DeleteInv, Early
  <2> QED BY <1>2, <1>3, <2>3
<1> QED BY <1>4, <1>5

LEMMA SynthesisSession ==
  ASSUME SessionInv, \/ StartSynthesis \/ ScanOutputFails \/ FilterFolder \/ FolderBuilt
                     \/ ScanFolderFails \/ StartRound \/ AddJob \/ SkipName \/ AddJobFails \/ JoinJobs
  PROVE  ScanInv' /\ BuildInv' /\ DeleteInv'
<1>0. /\ JoinedInv /\ PoolTypes /\ ScanInv /\ BuildInv /\ DeleteInv /\ ScanTypes
  BY DEF SessionInv, JoinedInv, ScanInv
<1> USE DEF buildVars, outVars
<1>1. UNCHANGED scanVars
  BY DEF StartSynthesis, ScanOutputFails, FilterFolder, FolderBuilt, ScanFolderFails,
         StartRound, AddJob, SkipName, AddJobFails, JoinJobs
<1>2. ScanInv'
  BY <1>0, <1>1 DEF ScanInv, ScanTypes, scanVars
<1>s. Len(list) \in Nat /\ Len(jobs) \in Nat
  BY <1>0 DEF BuildInv
<1>3. CASE StartSynthesis
  <2>1. /\ list' \in Seq(Times) /\ folders = { list'[n] : n \in 1 .. Len(list') }
    BY <1>0, <1>3, ListIs DEF StartSynthesis, ScanTypes
  <2>2. BuildInv'
    BY <1>0, <1>3, <2>1 DEF StartSynthesis, BuildInv
  <2>3. pc = "join" /\ pc' = "filter" /\ folders' = folders /\ exit' = exit
    BY <1>3 DEF StartSynthesis, scanVars
  <2>4. DeleteInv'
    BY <1>0, <2>1, <2>3 DEF DeleteInv, Early, Listed
  <2> QED BY <1>2, <2>2, <2>4
<1>4. CASE ScanOutputFails
  <2>1. BuildInv'
    BY <1>0, <1>4 DEF ScanOutputFails, Failed, BuildInv
  <2>2. DeleteInv'
    BY <1>0, <1>4 DEF ScanOutputFails, Failed, DeleteInv, Early
  <2> QED BY <1>2, <2>1, <2>2
<1>d. ASSUME pc \in {"filter", "round", "jobs"}, pc' \in {"filter", "round", "jobs"},
             list' = list, exit' = exit
      PROVE  DeleteInv'
  BY <1>0, <1>1, <1>d DEF DeleteInv, Early, Listed, scanVars
<1>5. CASE FilterFolder
  <2>1. pc = "filter" /\ i \in Nat \ {0} /\ i <= Len(list) /\ i \in 1 .. Len(list)
    BY <1>0, <1>5, <1>s DEF FilterFolder, BuildInv
  <2>2. range' \in TimeRanges
    BY <1>0, <1>5, InsideRangeIs, RecoverAssumption DEF FilterFolder, BuildInv, Verdict
  <2>3. BuildInv'
    <3>1. (pc' = "round" /\ i' = i) \/ (pc' = "filter" /\ i' = i + 1)
      BY <1>5 DEF FilterFolder
    <3>2. UNCHANGED <<asked, list, names, k, jobs, files, out, exit>>
      BY <1>5 DEF FilterFolder
    <3> QED BY <1>0, <2>1, <2>2, <3>1, <3>2 DEF BuildInv
  <2>4. DeleteInv'
    BY <1>5, <1>d DEF FilterFolder
  <2> QED BY <1>2, <2>3, <2>4
<1>6. CASE FolderBuilt \/ ScanFolderFails
  <2>1. BuildInv'
    BY <1>0, <1>6, <1>s DEF FolderBuilt, ScanFolderFails, BuildInv
  <2>2. DeleteInv'
    BY <1>6, <1>d DEF FolderBuilt, ScanFolderFails
  <2> QED BY <1>2, <2>1, <2>2
<1>7. CASE StartRound
  <2>1. BlocksIn(list[i]) \in SUBSET Places
    BY DEF BlocksIn
  <2>2. names' \in Seq(Inos)
    BY <1>7, <2>1, NamesAre DEF StartRound
  <2>3. << >> \in Seq(JobType)
    OBVIOUS
  <2>4. /\ UNCHANGED <<i, asked, list, range, files, out, exit>>
        /\ pc = "round" /\ pc' = "jobs" /\ k' = 1 /\ jobs' = << >>
    BY <1>7 DEF StartRound
  <2>5. BuildInv'
    BY <1>0, <2>2, <2>3, <2>4 DEF BuildInv
  <2>6. DeleteInv'
    BY <1>d, <2>4
  <2> QED BY <1>2, <2>5, <2>6
<1>8. CASE AddJob
  <2>1. /\ UNCHANGED <<i, asked, list, names, range, files, out, exit>>
        /\ pc = "jobs" /\ pc' = "jobs" /\ k' = k + 1 /\ jobs' = Append(jobs, NewJob)
        /\ k <= Len(names)
    BY <1>8 DEF AddJob, WantsJob
  <2>2. names[k] \in Inos
    BY <1>0, <2>1 DEF BuildInv
  <2>3. NewJob \in JobType
    BY <1>0, <2>2 DEF NewJob, JobType, BuildInv
  <2>4. jobs' \in Seq(JobType)
    BY <1>0, <2>1, <2>3 DEF BuildInv
  <2>5. BuildInv'
    BY <1>0, <2>1, <2>4 DEF BuildInv
  <2>6. DeleteInv'
    BY <1>d, <2>1
  <2> QED BY <1>2, <2>5, <2>6
<1>9. CASE SkipName
  <2>1. BuildInv'
    BY <1>0, <1>9 DEF SkipName, BuildInv
  <2>2. DeleteInv'
    BY <1>9, <1>d DEF SkipName
  <2> QED BY <1>2, <2>1, <2>2
<1>10. CASE AddJobFails \/ JoinJobs
  <2>1. /\ UNCHANGED <<i, asked, list, names, range, files, out, exit>>
        /\ pc = "jobs" /\ pc' \in {"jobs", "round"} /\ jobs' = << >>
        /\ k' = k \/ k' = k + 1
    BY <1>10 DEF AddJobFails, JoinJobs
  <2>2. << >> \in Seq(JobType)
    OBVIOUS
  <2>3. BuildInv'
    BY <1>0, <2>1, <2>2 DEF BuildInv
  <2>4. DeleteInv'
    BY <1>d, <2>1
  <2> QED BY <1>2, <2>3, <2>4
<1> QED BY <1>3, <1>4, <1>5, <1>6, <1>7, <1>8, <1>9, <1>10

(* The deletion: a folder that stays behind costs a call that failed. *)
LEMMA DeletionSession ==
  ASSUME SessionInv, AllFiltered \/ DeleteFolder \/ DeleteFolderFails
  PROVE  ScanInv' /\ BuildInv' /\ DeleteInv'
<1>0. /\ JoinedInv /\ PoolTypes /\ ScanInv /\ BuildInv /\ DeleteInv /\ ScanTypes
  BY DEF SessionInv, JoinedInv, ScanInv
<1> USE DEF buildVars, outVars
<1>1. IsFiniteSet(folders) /\ Cardinality(folders) \in Nat
  BY <1>0, FoldersCount DEF ScanTypes
<1>2. BuildInv'
  BY <1>0 DEF AllFiltered, DeleteFolder, DeleteFolderFails, BuildInv
<1>3. list \in Seq(Times) /\ Len(list) \in Nat
  BY <1>0 DEF BuildInv
<1>r. vol' = vol /\ (faults' = faults \/ \E call : MayFail(call))
  BY DEF AllFiltered, DeleteFolder, DeleteFolderFails, scanVars
<1>c. /\ Cardinality(Rmdirs) \in Nat /\ Cardinality(Rmdirs) <= Cardinality(Rmdirs')
      /\ MayFail("rmdir") => Cardinality(Rmdirs') = Cardinality(Rmdirs) + 1
  BY <1>0, <1>r, RmdirsCount
<1>4. CASE AllFiltered
  <2>1. ScanInv'
    BY <1>0, <1>4 DEF AllFiltered, ScanInv, ScanTypes, scanVars
  <2>2. /\ pc = "filter" /\ pc' = "delete" /\ i' = 1 /\ folders' = folders
        /\ list' = list /\ exit' = exit
    BY <1>4 DEF AllFiltered, scanVars
  <2>3. folders' \ Ahead' = {}
    BY <1>0, <2>2 DEF DeleteInv, Listed, Ahead
  <2>4. Cardinality((folders \ Ahead)') <= Cardinality(Rmdirs')
    <3>1. faults' = faults
      BY <1>4 DEF AllFiltered
    <3>2. Rmdirs' = Rmdirs
      BY <3>1 DEF Rmdirs
    <3>3. Cardinality(folders' \ Ahead') = 0
      BY <2>3, FS_EmptySet
    <3>4. 0 <= Cardinality(Rmdirs)
      BY <1>c
    <3> HIDE DEF Rmdirs, Ahead
    <3> QED BY <3>2, <3>3, <3>4
  <2>5. DeleteInv'
    BY <1>0, <2>2, <2>4 DEF DeleteInv, Early
  <2> QED BY <1>2, <2>1, <2>5
<1>i. ASSUME pc = "delete", i <= Len(list), i' = i + 1, list' = list
      PROVE  /\ i \in 1 .. Len(list) /\ Ahead = Ahead' \cup {list[i]}
             /\ IsFiniteSet(folders \ Ahead) /\ Cardinality(folders \ Ahead) \in Nat
  <2>1. i \in 1 .. Len(list)
    BY <1>0, <1>3, <1>i DEF BuildInv
  <2>2. i .. Len(list) = {i} \cup (i + 1 .. Len(list))
    BY <1>3, <2>1
  <2>3. Ahead = Ahead' \cup {list[i]}
    BY <1>i, <2>2 DEF Ahead
  <2> QED BY <1>1, <2>1, <2>3, FS_Difference, FS_CardinalityType
<1>5. CASE DeleteFolder
  <2>1. /\ pc = "delete" /\ pc' = pc /\ i <= Len(list) /\ i' = i + 1 /\ list' = list
        /\ folders' = folders \ {list[i]} /\ faults' = faults /\ exit' = exit
    BY <1>5 DEF DeleteFolder
  <2>2. ScanInv'
    <3>1. dump' = [key \in Keys |-> IF key[1] = list[i] THEN None ELSE dump[key]]
      BY <1>5 DEF DeleteFolder
    <3>2. UNCHANGED <<vol, wrk, fdt>>
      BY <1>5 DEF DeleteFolder
    <3> QED BY <1>0, <2>1, <3>1, <3>2 DEF ScanInv, ScanTypes
  <2>3. folders' \ Ahead' \subseteq folders \ Ahead
    BY <1>i, <2>1
  <2>4. Cardinality(folders' \ Ahead') <= Cardinality(folders \ Ahead)
        /\ Cardinality(folders' \ Ahead') \in Nat
    BY <1>i, <2>1, <2>3, FS_Subset, FS_CardinalityType
  <2>5. Rmdirs' = Rmdirs
    BY <2>1 DEF Rmdirs
  <2>6. Cardinality(folders \ Ahead) <= Cardinality(Rmdirs)
    BY <1>0, <2>1 DEF DeleteInv
  <2>7. Cardinality((folders \ Ahead)') <= Cardinality(Rmdirs')
    BY <1>i, <1>c, <2>1, <2>4, <2>5, <2>6
  <2>8. DeleteInv'
    BY <1>0, <2>1, <2>7 DEF DeleteInv, Early
  <2> QED BY <1>2, <2>2, <2>8
<1>6. CASE DeleteFolderFails
  <2>1. /\ pc = "delete" /\ pc' = pc /\ i <= Len(list) /\ i' = i + 1 /\ list' = list
        /\ folders' = folders /\ exit' = exit /\ MayFail("rmdir")
    BY <1>6 DEF DeleteFolderFails, scanVars
  <2>2. ScanInv'
    BY <1>0, <1>6 DEF DeleteFolderFails, ScanInv, ScanTypes, scanVars
  <2>3. folders' \ Ahead' \subseteq (folders \ Ahead) \cup {list[i]}
    BY <1>i, <2>1
  <2>4. /\ IsFiniteSet((folders \ Ahead) \cup {list[i]})
        /\ Cardinality((folders \ Ahead) \cup {list[i]}) <= Cardinality(folders \ Ahead) + 1
        /\ Cardinality((folders \ Ahead) \cup {list[i]}) \in Nat
    <3> DEFINE S == folders \ Ahead
    <3>1. IsFiniteSet(S) /\ Cardinality(S) \in Nat
      BY <1>i, <2>1
    <3> HIDE DEF S
    <3>2. /\ IsFiniteSet(S \cup {list[i]})
          /\ Cardinality(S \cup {list[i]}) \in {Cardinality(S), Cardinality(S) + 1}
      BY <3>1, FS_AddElement
    <3>3. Cardinality(S \cup {list[i]}) <= Cardinality(S) + 1 /\ Cardinality(S \cup {list[i]}) \in Nat
      BY <3>1, <3>2
    <3> QED BY <3>2, <3>3 DEF S
  <2>5. /\ Cardinality(folders' \ Ahead') <= Cardinality((folders \ Ahead) \cup {list[i]})
        /\ Cardinality(folders' \ Ahead') \in Nat
    BY <2>3, <2>4, FS_Subset, FS_CardinalityType
  <2>6. Cardinality(folders \ Ahead) <= Cardinality(Rmdirs)
    BY <1>0, <2>1 DEF DeleteInv
  <2>7. Cardinality((folders \ Ahead)') <= Cardinality(Rmdirs')
    <3>1. Cardinality(Rmdirs') = Cardinality(Rmdirs) + 1 /\ Cardinality(Rmdirs) \in Nat
      BY <1>c, <2>1
    <3>2. Cardinality(folders \ Ahead) \in Nat
      BY <1>i, <2>1
    <3> QED BY <2>4, <2>5, <2>6, <3>1, <3>2
  <2>8. DeleteInv'
    BY <1>0, <2>1, <2>7 DEF DeleteInv, Early
  <2> QED BY <1>2, <2>2, <2>8
<1> QED BY <1>4, <1>5, <1>6

(* The last of a set of positions. *)
LEMMA MaxIs ==
  ASSUME NEW N \in Nat, NEW S \in SUBSET (1 .. N), S # {}
  PROVE  Max(S) \in S
<1> DEFINE T == { N - x : x \in S }
<1>1. T \in SUBSET Nat /\ T # {}
  <2>1. \A x \in S : N - x \in Nat
    OBVIOUS
  <2>2. T \subseteq Nat
    BY <2>1
  <2> QED BY <2>2
<1>2. Min(T) \in T /\ \A y \in T : Min(T) <= y
  <2> HIDE DEF T
  <2> QED BY <1>1, MinIs
<1>3. PICK x \in S : Min(T) = N - x
  BY <1>2
<1>4. \A y \in S : x >= y
  <2> TAKE y \in S
  <2>1. N - y \in T
    OBVIOUS
  <2>2. N - x <= N - y
    BY <1>2, <1>3, <2>1
  <2> QED BY <2>2
<1> QED BY <1>4 DEF Max

(* The inline files of a node are items of it. *)
LEMMA InlineFilesAre ==
  ASSUME NEW node, node # NoNode =>
           node.items \in Seq([ino : Inos, inline : BOOLEAN, ver : Vers])
  PROVE  InlineFiles(node) # {} =>
           node # NoNode /\ Len(node.items) \in Nat
           /\ InlineFiles(node) \subseteq 1 .. Len(node.items)
<1> SUFFICES ASSUME InlineFiles(node) # {}
             PROVE  node # NoNode /\ Len(node.items) \in Nat
                    /\ InlineFiles(node) \subseteq 1 .. Len(node.items)
  OBVIOUS
<1>1. node # NoNode
  BY DEF InlineFiles
<1>2. Len(node.items) \in Nat
  BY <1>1
<1>3. ItemsVisited(node) \subseteq 1 .. Len(node.items)
  BY <1>2 DEF ItemsVisited
<1> QED BY <1>1, <1>2, <1>3 DEF InlineFiles

LEMMA NodeAtIs ==
  ASSUME files \in [Places -> Vers \cup {None}], NEW off, NodeAt(off) # NoNode
  PROVE  \E v \in Vers : NodeAt(off) = NodeOf[v] /\ NodeOf[v] # NoNode
<1> DEFINE ver == IF off \in Offs THEN files[<<InodesIno, off>>] ELSE None
<1>1. NodeAt(off) = IF ver = None THEN NoNode ELSE NodeOf[ver]
  BY DEF NodeAt
<1>2. ver # None /\ NodeAt(off) = NodeOf[ver]
  BY <1>1
<1>3. off \in Offs /\ <<InodesIno, off>> \in Places
  BY <1>2, RecoverAssumption DEF Places
<1>4. ver \in Vers
  BY <1>2, <1>3
<1> QED BY <1>2, <1>4

LEMMA InlineItemsAre == \A item \in InlineItems : item.ino \in Inos /\ item.ver \in Vers
<1> TAKE item \in InlineItems
<1>1. PICK v \in Vers : NodeOf[v] # NoNode /\ item \in Range(NodeOf[v].items)
  BY DEF InlineItems
<1> DEFINE Items == [ino : Inos, inline : BOOLEAN, ver : Vers]
<1>2. NodeOf[v].items \in Seq(Items)
  BY <1>1, RecoverAssumption
<1> HIDE DEF Items
<1>3. item \in Items
  BY <1>1, <1>2 DEF Range
<1> QED BY <1>3 DEF Items

(* What is written of a node are inline files of inodes. *)
LEMMA ExtractedIs ==
  ASSUME files \in [Places -> Vers \cup {None}], out \subseteq Inos, NEW off, NEW opened,
         NEW written, opened \subseteq InlineFiles(NodeAt(off)), written \subseteq opened,
         Extracted(NodeAt(off), opened, written)
  PROVE  /\ files' \in [Places -> Vers \cup {None}] /\ out' \subseteq Inos
         /\ \A p \in Places : files'[p] = files[p] \/
              \E item \in InlineItems : item.ino = p[1] /\ item.ver = files'[p]
<1> DEFINE node == NodeAt(off)
           of(ino) == { n \in written : node.items[n].ino = ino }
<1>1. /\ files' = [p \in Places |->
                      IF p[2] = 0 /\ of(p[1]) # {}
                      THEN node.items[Max(of(p[1]))].ver ELSE files[p]]
      /\ out' = out \cup { node.items[n].ino : n \in opened }
  BY DEF Extracted
<1>2. ASSUME node # NoNode
      PROVE  /\ node.items \in Seq([ino : Inos, inline : BOOLEAN, ver : Vers])
             /\ Range(node.items) \subseteq InlineItems
  <2>1. PICK v \in Vers : node = NodeOf[v] /\ NodeOf[v] # NoNode
    BY <1>2, NodeAtIs
  <2> HIDE DEF node
  <2>2. node.items \in Seq([ino : Inos, inline : BOOLEAN, ver : Vers])
    BY <2>1, RecoverAssumption
  <2> QED BY <2>1, <2>2 DEF InlineItems
<1>3. ASSUME NEW n \in opened PROVE node.items[n] \in InlineItems
  <2>1. /\ node # NoNode /\ n \in 1 .. Len(node.items)
    BY <1>2, <1>3, InlineFilesAre
  <2>2. n \in DOMAIN node.items
    BY <1>2, <2>1
  <2> HIDE DEF node
  <2> QED BY <1>2, <2>1, <2>2 DEF Range
<1>4. ASSUME NEW ino, of(ino) # {} PROVE Max(of(ino)) \in of(ino)
  <2>1. /\ Len(node.items) \in Nat /\ InlineFiles(node) \subseteq 1 .. Len(node.items)
    <3>1. InlineFiles(node) # {}
      BY <1>4
    <3> QED BY <1>2, <3>1, InlineFilesAre
  <2>2. of(ino) \in SUBSET (1 .. Len(node.items))
    BY <2>1
  <2> HIDE DEF node, of
  <2> QED BY <1>4, <2>1, <2>2, MaxIs
<1>5. ASSUME NEW p \in Places, files'[p] # files[p]
      PROVE  \E item \in InlineItems : item.ino = p[1] /\ item.ver = files'[p]
  <2> DEFINE m == Max(of(p[1]))
  <2>1. of(p[1]) # {} /\ files'[p] = node.items[m].ver
    BY <1>1, <1>5
  <2>2. m \in of(p[1])
    BY <1>4, <2>1
  <2> HIDE DEF m, node
  <2>3. m \in written /\ node.items[m].ino = p[1]
    BY <2>2
  <2> QED BY <1>3, <2>1, <2>3
<1>6. files' \in [Places -> Vers \cup {None}]
  <2>1. \A p \in Places : files'[p] \in Vers \cup {None}
    BY <1>5, InlineItemsAre
  <2>2. files' = [p \in Places |-> files'[p]]
    BY <1>1
  <2> QED BY <2>1, <2>2
<1>7. out' \subseteq Inos
  <2> HIDE DEF node
  <2> QED BY <1>1, <1>3, InlineItemsAre
<1> QED BY <1>5, <1>6, <1>7

LEMMA NodeStep ==
  ASSUME files \in [Places -> Vers \cup {None}], out \subseteq Inos,
         ExtractNode \/ ExtractNodeFails
  PROVE  /\ pc = "nodes" /\ pc' = pc /\ exit' \in {0, 1, exit}
         /\ faults' = faults \/ \E call : MayFail(call)
         /\ UNCHANGED <<scanVars, asked, list, names, jobs, range>>
         /\ files' \in [Places -> Vers \cup {None}] /\ out' \subseteq Inos
         /\ \A p \in Places : files'[p] = files[p] \/
              \E item \in InlineItems : item.ino = p[1] /\ item.ver = files'[p]
<1> DEFINE found == InlineFiles(NodeAt(i))
<1>1. /\ pc = "nodes" /\ (faults' = faults \/ \E call : MayFail(call))
      /\ \E status \in {0, 1} : NextNode(status)
  BY DEF ExtractNode, ExtractNodeFails
<1>2. PICK opened, written : /\ opened \subseteq found /\ written \subseteq opened
                            /\ Extracted(NodeAt(i), opened, written)
  <2>1. CASE ExtractNode
    BY <2>1 DEF ExtractNode
  <2>2. CASE ExtractNodeFails
    <3>1. CASE Extracted(NodeAt(i), {}, {})
      BY <3>1
    <3>2. CASE \E m \in found : LET before == { n \in found : n < m }
                                 IN  Extracted(NodeAt(i), before, before)
      BY <3>2
    <3>3. CASE \E m \in found : Extracted(NodeAt(i), found, found \ {m})
      BY <3>3
    <3> QED BY <2>2, <3>1, <3>2, <3>3 DEF ExtractNodeFails
  <2> QED BY <2>1, <2>2
<1> QED BY <1>1, <1>2, ExtractedIs DEF NextNode

LEMMA NodesSession ==
  ASSUME SessionInv, \/ NoInodesFile \/ NoNodes \/ FindFirstNode \/ FindFirstNodeFails
                     \/ ExtractNode \/ ExtractNodeFails \/ NodesDone
  PROVE  ScanInv' /\ BuildInv' /\ DeleteInv'
<1>0. /\ JoinedInv /\ PoolTypes /\ ScanInv /\ BuildInv /\ DeleteInv /\ ScanTypes
  BY DEF SessionInv, JoinedInv, ScanInv
<1> USE DEF buildVars, outVars
<1>1. UNCHANGED scanVars
  BY DEF NoInodesFile, NoNodes, FindFirstNode, FindFirstNodeFails, ExtractNode,
         ExtractNodeFails, NextNode, NodesDone
<1>2. ScanInv'
  BY <1>0, <1>1 DEF ScanInv, ScanTypes, scanVars
<1>s. list \in Seq(Times) /\ Len(list) \in Nat
  BY <1>0 DEF BuildInv
<1>a. ASSUME AllDeleted PROVE Cardinality(folders) <= Cardinality(Rmdirs)
  <2>1. pc = "delete" /\ i > Len(list) /\ i \in Nat
    BY <1>0, <1>a DEF AllDeleted, BuildInv
  <2>2. i .. Len(list) = {}
    BY <1>s, <2>1
  <2>3. folders \ Ahead = folders
    BY <2>2 DEF Ahead
  <2> QED BY <1>0, <2>1, <2>3 DEF DeleteInv
<1>3. CASE NoInodesFile \/ FindFirstNodeFails
  <2>1. BuildInv'
    BY <1>0, <1>3 DEF NoInodesFile, FindFirstNodeFails, Failed, BuildInv
  <2>2. DeleteInv'
    BY <1>0, <1>3 DEF NoInodesFile, FindFirstNodeFails, Failed, DeleteInv, Early
  <2> QED BY <1>2, <2>1, <2>2
<1>c. ASSUME faults' = faults, pc' \in {"nodes", "free"},
             AllDeleted \/ pc = "nodes"
      PROVE  DeleteInv'
  <2>1. Cardinality(folders) <= Cardinality(Rmdirs)
    BY <1>0, <1>a, <1>c DEF DeleteInv
  <2>2. folders' = folders /\ Rmdirs' = Rmdirs
    BY <1>1, <1>c DEF Rmdirs, scanVars
  <2> QED BY <1>c, <2>1, <2>2 DEF DeleteInv, Early
<1>4. CASE NoNodes \/ FindFirstNode \/ NodesDone
  <2>1. BuildInv'
    BY <1>0, <1>4 DEF NoNodes, FindFirstNode, NodesDone, AllDeleted, BuildInv
  <2>2. DeleteInv'
    BY <1>4, <1>c DEF NoNodes, FindFirstNode, NodesDone
  <2> QED BY <1>2, <2>1, <2>2
<1>5. CASE ExtractNode \/ ExtractNodeFails
  <2>1. /\ pc = "nodes" /\ pc' = pc /\ exit' \in {0, 1, exit}
        /\ faults' = faults \/ \E call : MayFail(call)
        /\ UNCHANGED <<scanVars, asked, list, names, jobs, range>>
        /\ files' \in [Places -> Vers \cup {None}] /\ out' \subseteq Inos
    BY <1>0, <1>5, NodeStep DEF BuildInv
  <2>2. BuildInv'
    BY <1>0, <2>1 DEF BuildInv
  <2>3. Cardinality(folders) <= Cardinality(Rmdirs) /\ folders' = folders
    BY <1>0, <1>1, <2>1 DEF DeleteInv, scanVars
  <2>4. /\ Cardinality(folders) \in Nat /\ Cardinality(Rmdirs) \in Nat
        /\ Cardinality(Rmdirs') \in Nat /\ Cardinality(Rmdirs) <= Cardinality(Rmdirs')
    <3>1. vol' = vol
      BY <1>1 DEF scanVars
    <3>2. PoolTypes'
      BY <1>0, <1>1, <2>1, FaultGrows DEF PoolTypes, scanVars
    <3>3. IsFiniteSet(DOMAIN faults')
      BY <3>2, FS_Interval DEF PoolTypes
    <3>4. Rmdirs' \in SUBSET DOMAIN faults'
      BY DEF Rmdirs
    <3>5. Cardinality(Rmdirs') \in Nat
      BY <3>3, <3>4, FS_Subset, FS_CardinalityType
    <3> QED BY <1>0, <2>1, <3>1, <3>5, RmdirsCount, FoldersCount DEF ScanTypes
  <2>5. DeleteInv'
    <3>1. Cardinality(folders') <= Cardinality(Rmdirs') /\ pc' = "nodes"
      BY <2>1, <2>3, <2>4
    <3> HIDE DEF Rmdirs
    <3> QED BY <3>1 DEF DeleteInv, Early
  <2> QED BY <1>2, <2>2, <2>5
<1> QED BY <1>3, <1>4, <1>5

(* The thread of a file. *)
LEMMA SynthesizedIs ==
  ASSUME dump \in [Keys -> Vers \cup {None, Empty}],
         files \in [Places -> Vers \cup {None}], out \subseteq Inos,
         NEW j, jobs[j].ino \in Inos, JobFolder(j) \in Times,
         NEW unread, NEW kept, Synthesized(j, unread, kept)
  PROVE  /\ dump' \in [Keys -> Vers \cup {None, Empty}]
         /\ files' \in [Places -> Vers \cup {None}] /\ out' \subseteq Inos
<1> DEFINE copied == { p \in OwnBlocks(j) \ unread :
                         dump[<<JobFolder(j), p[1], p[2]>>] # Empty }
<1>1. /\ files' = [p \in Places |-> IF p \in copied
                                    THEN dump[<<JobFolder(j), p[1], p[2]>>]
                                    ELSE files[p]]
      /\ dump' = [key \in Keys |->
                    IF /\ key[1] = JobFolder(j)
                       /\ <<key[2], key[3]>> \in OwnBlocks(j) \ kept
                    THEN None ELSE dump[key]]
      /\ out' = out \cup {jobs[j].ino}
  BY DEF Synthesized
<1>2. \A p \in copied : dump[<<JobFolder(j), p[1], p[2]>>] \in Vers
  <2> TAKE p \in copied
  <2>1. /\ p \in Places /\ dump[<<JobFolder(j), p[1], p[2]>>] \notin {None, Empty}
    BY DEF OwnBlocks, BlocksIn
  <2>2. <<JobFolder(j), p[1], p[2]>> \in Keys
    BY <2>1 DEF Places, Keys
  <2> QED BY <2>1, <2>2
<1> HIDE DEF copied
<1> QED BY <1>1, <1>2

LEMMA JobSession ==
  ASSUME SessionInv, NEW j \in DOMAIN jobs, Job(j)
  PROVE  ScanInv' /\ BuildInv' /\ DeleteInv'
<1>0. /\ JoinedInv /\ PoolTypes /\ ScanInv /\ BuildInv /\ DeleteInv /\ ScanTypes
  BY DEF SessionInv, JoinedInv, ScanInv
<1> USE DEF buildVars, outVars
<1>1. /\ wrk' = wrk /\ vol' = vol /\ pc' = pc /\ i' = i
      /\ faults' = faults \/ \E call : MayFail(call)
  BY JobStep
<1>2. /\ UNCHANGED <<asked, list, names, k, range, exit, fdt, folders>>
      /\ JobRuns(j)
  BY DEF Job, JobDone, JobSkipsFolder, SynthesizeBlocks, DataFileFails, SynthesizeBlocksFails,
         scanVars
<1>3. /\ jobs \in Seq(JobType) /\ jobs[j] \in JobType /\ list \in Seq(Times)
  BY <1>0 DEF BuildInv
<1>4. jobs' \in Seq(JobType)
  <2>1. CASE JobDone(j)
    <3>1. jobs' = [jobs EXCEPT ![j] = [jobs[j] EXCEPT !.pc = "exit"]]
      BY <2>1 DEF JobDone
    <3>2. [jobs[j] EXCEPT !.pc = "exit"] \in JobType
      BY <1>3 DEF JobType
    <3> QED BY <1>3, <3>1, <3>2
  <2>2. CASE ~JobDone(j)
    <3> DEFINE r == JobVerdict(j).range
               g == jobs[j].f + 1
    <3>1. jobs' = [jobs EXCEPT ![j] = [jobs[j] EXCEPT !.f = g, !.range = r]]
      BY <2>2 DEF Job, JobSkipsFolder, SynthesizeBlocks, DataFileFails, SynthesizeBlocksFails,
         NextFolder
    <3>2. r \in TimeRanges /\ g \in Nat \ {0}
      BY <1>3, InsideRangeIs, RecoverAssumption DEF JobVerdict, JobType
    <3> HIDE DEF r, g
    <3>3. [jobs[j] EXCEPT !.f = g, !.range = r] \in JobType
      BY <1>3, <3>2 DEF JobType
    <3> QED BY <1>3, <3>1, <3>3
  <2> QED BY <2>1, <2>2
<1>5. /\ dump' \in [Keys -> Vers \cup {None, Empty}]
      /\ files' \in [Places -> Vers \cup {None}] /\ out' \subseteq Inos
  <2>0. /\ dump \in [Keys -> Vers \cup {None, Empty}]
        /\ files \in [Places -> Vers \cup {None}] /\ out \subseteq Inos
    BY <1>0 DEF ScanTypes, BuildInv
  <2>1. CASE SynthesizeBlocks(j) \/ SynthesizeBlocksFails(j)
    <3>1. PICK unread, kept : Synthesized(j, unread, kept)
      BY <2>1, JobSynthesizes
    <3>2. jobs[j].ino \in Inos /\ jobs[j].f \in DOMAIN list
      BY <1>3, <2>1, JobSynthesizes DEF JobType
    <3>3. JobFolder(j) \in Times
      BY <1>3, <3>2 DEF JobFolder
    <3> QED BY <2>0, <3>1, <3>2, <3>3, SynthesizedIs
  <2>2. CASE ~(SynthesizeBlocks(j) \/ SynthesizeBlocksFails(j))
    <3>1. dump' = dump /\ files' = files /\ out' = out
      BY <2>2 DEF Job, JobDone, JobSkipsFolder, DataFileFails, scanVars
    <3> QED BY <2>0, <3>1
  <2> QED BY <2>1, <2>2
<1>6. ScanInv'
  BY <1>0, <1>1, <1>2, <1>5 DEF ScanInv, ScanTypes
<1>7. BuildInv'
  BY <1>0, <1>1, <1>2, <1>4, <1>5 DEF BuildInv
<1>8. DeleteInv'
  <2>1. Cardinality(Rmdirs) \in Nat /\ Cardinality(Rmdirs) <= Cardinality(Rmdirs')
    BY <1>0, <1>1, RmdirsCount
  <2>2. /\ IsFiniteSet(folders) /\ Cardinality(folders) \in Nat
    BY <1>0, FoldersCount DEF ScanTypes
  <2>3. Cardinality(folders \ Ahead) \in Nat
    BY <2>2, FS_Difference, FS_CardinalityType
  <2>4. folders' = folders /\ Ahead' = Ahead /\ Listed' = Listed
    BY <1>1, <1>2 DEF Ahead, Listed
  <2>5. Cardinality(Rmdirs') \in Nat
    <3>1. PoolTypes'
      BY <1>0, <1>1, FaultGrows DEF PoolTypes
    <3>2. IsFiniteSet(DOMAIN faults')
      BY <3>1, FS_Interval DEF PoolTypes
    <3>3. Rmdirs' \in SUBSET DOMAIN faults'
      BY DEF Rmdirs
    <3> QED BY <3>2, <3>3, FS_Subset, FS_CardinalityType
  <2> HIDE DEF Ahead, Listed, Rmdirs
  <2> QED BY <1>0, <1>1, <1>2, <2>1, <2>2, <2>3, <2>4, <2>5 DEF DeleteInv, Early
<1> QED BY <1>6, <1>7, <1>8

LEMMA NextSession == SessionInv /\ [Next]_vars => SessionInv'
<1> SUFFICES ASSUME SessionInv, [Next]_vars PROVE SessionInv'
  OBVIOUS
<1>1. JoinedInv'
  BY NextJoined DEF SessionInv
<1>2. ASSUME NEW t \in Workers, ScanStep(t) PROVE ScanInv' /\ BuildInv' /\ DeleteInv'
  BY <1>2, WorkerSession
<1>3. ASSUME NEW j \in DOMAIN jobs, Job(j) PROVE ScanInv' /\ BuildInv' /\ DeleteInv'
  BY <1>3, JobSession
<1>4. ASSUME Main PROVE ScanInv' /\ BuildInv' /\ DeleteInv'
  <2>1. CASE ScanMain /\ UNCHANGED sessionVars
    BY <2>1, ScanMainSession
  <2>2. CASE Opened \/ OpenFails \/ ProbeFails \/ CreatePool \/ FreePool
    BY <2>2, OpenSession
  <2>3. CASE \/ StartSynthesis \/ ScanOutputFails \/ FilterFolder \/ FolderBuilt
             \/ ScanFolderFails \/ StartRound \/ AddJob \/ SkipName \/ AddJobFails \/ JoinJobs
    BY <2>3, SynthesisSession
  <2>4. CASE AllFiltered \/ DeleteFolder \/ DeleteFolderFails
    BY <2>4, DeletionSession
  <2>5. CASE \/ NoInodesFile \/ NoNodes \/ FindFirstNode \/ FindFirstNodeFails
             \/ ExtractNode \/ ExtractNodeFails \/ NodesDone
    BY <2>5, NodesSession
  <2> QED BY <1>4, <2>1, <2>2, <2>3, <2>4, <2>5 DEF Main
<1>5. ASSUME UNCHANGED vars PROVE ScanInv' /\ BuildInv' /\ DeleteInv'
  <2>1. UNCHANGED <<vol, wrk, fdt, folders, dump, pc, i, faults, asked, list, names, k, jobs,
                    range, files, out, exit>>
    BY <1>5 DEF vars, scanVars, buildVars, outVars
  <2>2. ScanInv'
    BY <2>1 DEF SessionInv, ScanInv, ScanTypes
  <2>3. BuildInv'
    BY <2>1 DEF SessionInv, BuildInv
  <2>4. Rmdirs' = Rmdirs /\ Ahead' = Ahead /\ Listed' = Listed
    BY <2>1 DEF Rmdirs, Ahead, Listed
  <2>5. DeleteInv'
    <3>1. DeleteInv /\ pc' = pc /\ exit' = exit /\ folders' = folders
      BY <2>1 DEF SessionInv
    <3> HIDE DEF Rmdirs, Ahead, Listed
    <3> QED BY <2>4, <3>1 DEF DeleteInv
  <2> QED BY <2>2, <2>3, <2>5
<1> QED
  BY <1>1, <1>2, <1>3, <1>4, <1>5 DEF SessionInv, Next, Step, Spin, Done

(* For any volumes whose logs have the assumed form, any number of workers *)
(* and any calls that fail, every variable of a session of recoverfs.ssdfs *)
(* keeps its type: no worker leaves the volume, no iterator leaves the     *)
(* table of its log, and no file is written outside of its place.          *)
THEOREM RecoverTypeOK == Spec => []TypeOK
<1>1. SessionInv => TypeOK
  <2> SUFFICES ASSUME SessionInv PROVE TypeOK
    OBVIOUS
  <2>1. ScanInv /\ BuildInv /\ ScanTypes
    BY DEF SessionInv, ScanInv
  <2>2. wrk \in [Workers -> WorkerType]
    <3>1. \A t \in Workers : wrk[t] \in WorkerType
      BY <2>1 DEF ScanInv, WorkerGood
    <3>2. wrk = [t \in Workers |-> wrk[t]]
      BY <2>1 DEF ScanInv
    <3> QED BY <3>1, <3>2
  <2> QED BY <2>1, <2>2 DEF TypeOK, WorkerType, Iterators, ScanTypes, BuildInv
<1> QED BY <1>1, InitSession, NextSession, PTL DEF Spec

(* A session that ends well leaves no more checkpoint folders than rmdir   *)
(* failed to delete, on any volume and whatever else failed on the way.    *)
THEOREM RecoverFoldersDeleted == Spec => []FoldersDeleted
<1>1. SessionInv => FoldersDeleted
  BY DEF SessionInv, DeleteInv, FoldersDeleted, Rmdirs
<1> QED BY <1>1, InitSession, NextSession, PTL DEF Spec

-----------------------------------------------------------------------------
(* The test of a time, once the range is complete *)

Filled(s, f) == IF Given(s, f) THEN s ELSE [s EXCEPT ![f] = Now[f]]

LEMMA FilledIs ==
  ASSUME NEW s \in TimeRanges, NEW f \in Fields
  PROVE  /\ Filled(s, f) \in TimeRanges /\ Given(Filled(s, f), f)
         /\ \A g \in Fields : g # f \/ Given(s, g) => Filled(s, f)[g] = s[g]
         /\ Given(s, f) => Filled(s, f) = s
  BY RecoverAssumption DEF Filled, Given, TimeRanges, Calendar

LEMMA TestFills ==
  ASSUME NEW r, NEW f, NEW time, r.in
  PROVE  /\ Test(r, f, Now, time).range = Filled(r.range, f)
         /\ Test(r, f, Now, time).in <=> (time[f] <= Filled(r.range, f)[f])
  BY DEF Test, Filled

LEMMA TestEnds ==
  ASSUME NEW r, NEW f, NEW time, ~r.in
  PROVE  Test(r, f, Now, time) = r
  BY DEF Test

(* The ranges the tests of the year, the month, the day and the hour leave *)
(* behind when each of them is made.                                       *)
Fill1(s) == Filled(s, "year")
Fill2(s) == Filled(Fill1(s), "month")
Fill3(s) == Filled(Fill2(s), "day")
Fill4(s) == Filled(Fill3(s), "hour")

LEMMA FillsAre ==
  ASSUME NEW s \in TimeRanges
  PROVE  /\ Fill1(s) \in TimeRanges /\ Fill2(s) \in TimeRanges
         /\ Fill3(s) \in TimeRanges /\ Fill4(s) \in TimeRanges
         /\ Given(Fill1(s), "year")
         /\ \A f \in Fields \ {"year"} : Fill1(s)[f] = s[f]
         /\ Given(Fill2(s), "year") /\ Given(Fill2(s), "month")
         /\ \A f \in Fields \ {"month"} : Fill2(s)[f] = Fill1(s)[f]
         /\ Given(Fill3(s), "year") /\ Given(Fill3(s), "month") /\ Given(Fill3(s), "day")
         /\ \A f \in Fields \ {"day"} : Fill3(s)[f] = Fill2(s)[f]
         /\ Given(Fill4(s), "year") /\ Given(Fill4(s), "month") /\ Given(Fill4(s), "day")
         /\ Given(Fill4(s), "hour")
         /\ \A f \in Fields \ {"hour"} : Fill4(s)[f] = Fill3(s)[f]
         /\ Given(Fill1(s), "month") => Fill2(s) = Fill1(s)
         /\ Given(Fill2(s), "day") => Fill3(s) = Fill2(s)
         /\ Given(Fill3(s), "hour") => Fill4(s) = Fill3(s)
<1> USE DEF Fields, Given
<1>1. /\ Fill1(s) \in TimeRanges /\ Given(Fill1(s), "year")
      /\ \A f \in Fields \ {"year"} : Fill1(s)[f] = s[f]
  BY FilledIs DEF Fill1
<1>2. /\ Fill2(s) \in TimeRanges /\ Given(Fill2(s), "month")
      /\ \A f \in Fields \ {"month"} : Fill2(s)[f] = Fill1(s)[f]
      /\ Given(Fill1(s), "month") => Fill2(s) = Fill1(s)
  BY <1>1, FilledIs DEF Fill2
<1>3. /\ Fill3(s) \in TimeRanges /\ Given(Fill3(s), "day")
      /\ \A f \in Fields \ {"day"} : Fill3(s)[f] = Fill2(s)[f]
      /\ Given(Fill2(s), "day") => Fill3(s) = Fill2(s)
  BY <1>2, FilledIs DEF Fill3
<1>4. /\ Fill4(s) \in TimeRanges /\ Given(Fill4(s), "hour")
      /\ \A f \in Fields \ {"hour"} : Fill4(s)[f] = Fill3(s)[f]
      /\ Given(Fill3(s), "hour") => Fill4(s) = Fill3(s)
  BY <1>3, FilledIs DEF Fill4
<1> QED BY <1>1, <1>2, <1>3, <1>4

(* A range in which every test up to the finest one finds its field stays  *)
(* as it is.                                                               *)
LEMMA FillsStay ==
  ASSUME NEW s \in TimeRanges
  PROVE  /\ Given(s, "year") => Fill1(s) = s
         /\ Given(s, "year") /\ Given(s, "month") => Fill2(s) = s
         /\ Given(s, "year") /\ Given(s, "month") /\ Given(s, "day") => Fill3(s) = s
         /\ Given(s, "year") /\ Given(s, "month") /\ Given(s, "day") /\ Given(s, "hour") =>
              Fill4(s) = s
  BY DEF Fill1, Fill2, Fill3, Fill4, Filled

(* The tests, one by one. *)
LEMMA TestsAre ==
  ASSUME NEW s, NEW time
  PROVE  LET y == time["year"] <= Fill1(s)["year"]
             m == time["month"] <= Fill2(s)["month"]
             d == time["day"] <= Fill3(s)["day"]
             h == time["hour"] <= Fill4(s)["hour"]
         IN  /\ YearInside(s, Now, time).range = Fill1(s)
             /\ YearInside(s, Now, time).in <=> y
             /\ MonthInside(s, Now, time).range = IF y THEN Fill2(s) ELSE Fill1(s)
             /\ MonthInside(s, Now, time).in <=> y /\ m
             /\ DayInside(s, Now, time).range =
                  IF y /\ m THEN Fill3(s) ELSE IF y THEN Fill2(s) ELSE Fill1(s)
             /\ DayInside(s, Now, time).in <=> y /\ m /\ d
             /\ HourInside(s, Now, time).range =
                  IF y /\ m /\ d THEN Fill4(s)
                  ELSE IF y /\ m THEN Fill3(s) ELSE IF y THEN Fill2(s) ELSE Fill1(s)
             /\ HourInside(s, Now, time).in <=> y /\ m /\ d /\ h
<1> DEFINE y == time["year"] <= Fill1(s)["year"]
           m == time["month"] <= Fill2(s)["month"]
           d == time["day"] <= Fill3(s)["day"]
           h == time["hour"] <= Fill4(s)["hour"]
           Y == YearInside(s, Now, time)
           M == MonthInside(s, Now, time)
           D == DayInside(s, Now, time)
           H == HourInside(s, Now, time)
<1>1. Y.range = Fill1(s) /\ (Y.in <=> y)
  BY TestFills DEF YearInside, Fill1
<1>2. (M.range = IF y THEN Fill2(s) ELSE Fill1(s)) /\ (M.in <=> y /\ m)
  <2>1. CASE Y.in
    <3>1. M.range = Filled(Y.range, "month") /\ (M.in <=> (time["month"] <= Filled(Y.range, "month")["month"]))
      BY <2>1, TestFills DEF MonthInside
    <3> HIDE DEF Y, M
    <3> QED BY <1>1, <2>1, <3>1 DEF Fill2
  <2>2. CASE ~Y.in
    <3>1. M = Y
      BY <2>2, TestEnds DEF MonthInside
    <3> HIDE DEF Y, M
    <3> QED BY <1>1, <2>2, <3>1
  <2> QED BY <2>1, <2>2
<1>3. /\ D.range = IF y /\ m THEN Fill3(s) ELSE IF y THEN Fill2(s) ELSE Fill1(s)
      /\ D.in <=> y /\ m /\ d
  <2>1. CASE M.in
    <3>1. D.range = Filled(M.range, "day") /\ (D.in <=> (time["day"] <= Filled(M.range, "day")["day"]))
      BY <2>1, TestFills DEF DayInside
    <3> HIDE DEF M, D
    <3> QED BY <1>2, <2>1, <3>1 DEF Fill3
  <2>2. CASE ~M.in
    <3>1. D = M
      BY <2>2, TestEnds DEF DayInside
    <3> HIDE DEF M, D
    <3> QED BY <1>2, <2>2, <3>1
  <2> QED BY <2>1, <2>2
<1>4. /\ H.range = IF y /\ m /\ d THEN Fill4(s)
                   ELSE IF y /\ m THEN Fill3(s) ELSE IF y THEN Fill2(s) ELSE Fill1(s)
      /\ H.in <=> y /\ m /\ d /\ h
  <2>1. CASE D.in
    <3>1. H.range = Filled(D.range, "hour") /\ (H.in <=> (time["hour"] <= Filled(D.range, "hour")["hour"]))
      BY <2>1, TestFills DEF HourInside
    <3> HIDE DEF D, H
    <3> QED BY <1>3, <2>1, <3>1 DEF Fill4
  <2>2. CASE ~D.in
    <3>1. H = D
      BY <2>2, TestEnds DEF HourInside
    <3> HIDE DEF D, H
    <3> QED BY <1>3, <2>2, <3>1
  <2> QED BY <2>1, <2>2
<1> QED BY <1>1, <1>2, <1>3, <1>4

LEMMA GranularityIs ==
  ASSUME NEW s
  PROVE  /\ Granularity(s) \in {"year", "month", "day", "hour", "minute", "current"}
         /\ Granularity(s) = "year" => Given(s, "year")
         /\ Granularity(s) = "month" => Given(s, "month")
         /\ Granularity(s) = "day" => Given(s, "day")
         /\ Granularity(s) = "hour" => Given(s, "hour")
         /\ Given(s, "year") /\ ~Given(s, "month") => Granularity(s) = "year"
         /\ Given(s, "year") /\ Given(s, "month") /\ ~Given(s, "day") => Granularity(s) = "month"
  BY DEF Granularity, MonthGranularity, DayGranularity, HourGranularity

(* When the first test leaves the granularity as it was, the range it has  *)
(* filled in is complete: no later test changes it, and every verdict is   *)
(* the one that the range asked for would give.                            *)
LEMMA RangeSteady ==
  ASSUME NEW a \in TimeRanges, NEW first, NEW time,
         Granularity(InsideRange(a, Now, first).range) = Granularity(a)
  PROVE  LET r == InsideRange(a, Now, first).range
         IN  /\ InsideRange(r, Now, time).range = r
             /\ InsideRange(r, Now, time).in <=> InsideRange(a, Now, time).in
<1> DEFINE r == InsideRange(a, Now, first).range
<1>0. /\ Granularity(r) = Granularity(a) /\ r \in TimeRanges
      /\ {"year", "month", "day", "hour"} \subseteq Fields
  BY InsideRangeIs, RecoverAssumption DEF Fields
<1>g. /\ Granularity(a) \in {"year", "month", "day", "hour", "minute", "current"}
  BY GranularityIs
<1>1. CASE Granularity(a) = "year"
  <2>1. /\ \A x : InsideRange(a, Now, x) = YearInside(a, Now, x)
        /\ InsideRange(r, Now, time) = YearInside(r, Now, time)
    BY <1>0, <1>1 DEF InsideRange
  <2>2. r = Fill1(a) /\ Fill1(a) = a
    BY <1>1, <2>1, TestsAre, FillsStay, GranularityIs
  <2> HIDE DEF r
  <2> QED BY <2>1, <2>2, TestsAre
<1>2. CASE Granularity(a) = "month"
  <2>1. /\ \A x : InsideRange(a, Now, x) = MonthInside(a, Now, x)
        /\ InsideRange(r, Now, time) = MonthInside(r, Now, time)
    BY <1>0, <1>2 DEF InsideRange
  <2>2. r \in {Fill1(a), Fill2(a)}
    BY <2>1, TestsAre
  <2>3. Given(Fill1(a), "month")
    BY <1>0, <1>2, GranularityIs, FillsAre DEF Given
  <2>4. r = Fill2(a) /\ Given(r, "year") /\ Given(r, "month")
        /\ r["year"] = Fill1(a)["year"]
    BY <1>0, <2>2, <2>3, FillsAre
  <2>5. Fill1(r) = r /\ Fill2(r) = r
    BY <1>0, <2>4, FillsStay
  <2>6. /\ InsideRange(r, Now, time).range = r
        /\ InsideRange(r, Now, time).in <=> time["year"] <= r["year"] /\ time["month"] <= r["month"]
    <3> HIDE DEF r
    <3> QED BY <2>1, <2>5, TestsAre
  <2>7. InsideRange(a, Now, time).in <=> time["year"] <= r["year"] /\ time["month"] <= r["month"]
    <3> HIDE DEF r
    <3> QED BY <2>1, <2>4, <2>5, TestsAre
  <2> QED BY <2>6, <2>7
<1>3. CASE Granularity(a) = "day"
  <2>1. /\ \A x : InsideRange(a, Now, x) = DayInside(a, Now, x)
        /\ InsideRange(r, Now, time) = DayInside(r, Now, time)
    BY <1>0, <1>3 DEF InsideRange
  <2>2. r \in {Fill1(a), Fill2(a), Fill3(a)}
    BY <2>1, TestsAre
  <2>3. Given(Fill2(a), "day")
    BY <1>0, <1>3, GranularityIs, FillsAre DEF Given
  <2>4. Fill3(a) = Fill2(a)
    BY <2>3, FillsAre
  <2>5. r = Fill3(a)
    <3>1. CASE Given(Fill1(a), "month")
      BY <2>2, <2>4, <3>1, FillsAre
    <3>2. CASE ~Given(Fill1(a), "month")
      <4>1. Granularity(Fill1(a)) = "year"
        BY <3>2, FillsAre, GranularityIs
      <4> QED BY <1>0, <1>3, <2>2, <2>4, <4>1
    <3> QED BY <3>1, <3>2
  <2>6. /\ Given(r, "year") /\ Given(r, "month") /\ Given(r, "day")
        /\ r["year"] = Fill1(a)["year"] /\ r["month"] = Fill2(a)["month"]
    BY <1>0, <2>5, FillsAre
  <2>7. Fill1(r) = r /\ Fill2(r) = r /\ Fill3(r) = r
    BY <1>0, <2>6, FillsStay
  <2>8. /\ InsideRange(r, Now, time).range = r
        /\ InsideRange(r, Now, time).in <=> time["year"] <= r["year"] /\ time["month"] <= r["month"] /\ time["day"] <= r["day"]
    <3> HIDE DEF r
    <3> QED BY <2>1, <2>7, TestsAre
  <2>9. InsideRange(a, Now, time).in <=> time["year"] <= r["year"] /\ time["month"] <= r["month"] /\ time["day"] <= r["day"]
    <3> HIDE DEF r
    <3> QED BY <2>1, <2>5, <2>6, <2>7, TestsAre
  <2> QED BY <2>8, <2>9
<1>4. CASE Granularity(a) = "hour"
  <2>1. /\ \A x : InsideRange(a, Now, x) = HourInside(a, Now, x)
        /\ InsideRange(r, Now, time) = HourInside(r, Now, time)
    BY <1>0, <1>4 DEF InsideRange
  <2>2. r \in {Fill1(a), Fill2(a), Fill3(a), Fill4(a)}
    BY <2>1, TestsAre
  <2>3. Given(Fill3(a), "hour")
    BY <1>0, <1>4, GranularityIs, FillsAre DEF Given
  <2>4. Fill4(a) = Fill3(a)
    BY <2>3, FillsAre
  <2>5. r \in {Fill2(a), Fill3(a), Fill4(a)}
    <3>1. CASE Given(Fill1(a), "month")
      BY <2>2, <3>1, FillsAre
    <3>2. CASE ~Given(Fill1(a), "month")
      <4>1. Granularity(Fill1(a)) = "year"
        BY <3>2, FillsAre, GranularityIs
      <4> QED BY <1>0, <1>4, <2>2, <4>1
    <3> QED BY <3>1, <3>2
  <2>6. r = Fill4(a)
    <3>1. CASE Given(Fill2(a), "day")
      BY <2>4, <2>5, <3>1, FillsAre
    <3>2. CASE ~Given(Fill2(a), "day")
      <4>1. Granularity(Fill2(a)) = "month"
        BY <3>2, FillsAre, GranularityIs
      <4> QED BY <1>0, <1>4, <2>4, <2>5, <4>1
    <3> QED BY <3>1, <3>2
  <2>7. /\ Given(r, "year") /\ Given(r, "month") /\ Given(r, "day") /\ Given(r, "hour")
        /\ r["year"] = Fill1(a)["year"] /\ r["month"] = Fill2(a)["month"]
        /\ r["day"] = Fill3(a)["day"]
    BY <1>0, <2>6, FillsAre
  <2>8. Fill1(r) = r /\ Fill2(r) = r /\ Fill3(r) = r /\ Fill4(r) = r
    BY <1>0, <2>7, FillsStay
  <2>9. /\ InsideRange(r, Now, time).range = r
        /\ InsideRange(r, Now, time).in <=> time["year"] <= r["year"] /\ time["month"] <= r["month"]
             /\ time["day"] <= r["day"] /\ time["hour"] <= r["hour"]
    <3> HIDE DEF r
    <3> QED BY <2>1, <2>8, TestsAre
  <2>10. InsideRange(a, Now, time).in <=> time["year"] <= r["year"] /\ time["month"] <= r["month"]
             /\ time["day"] <= r["day"] /\ time["hour"] <= r["hour"]
    <3> HIDE DEF r
    <3> QED BY <2>1, <2>6, <2>7, <2>8, TestsAre
  <2> QED BY <2>9, <2>10
<1>5. CASE Granularity(a) \in {"minute", "current"}
  <2>1. r = a
    BY <1>5 DEF InsideRange
  <2>2. InsideRange(a, Now, time).range = a
    BY <1>5 DEF InsideRange
  <2> QED BY <2>1, <2>2
<1> QED BY <1>g, <1>1, <1>2, <1>3, <1>4, <1>5

-----------------------------------------------------------------------------
(* Where the content of a file comes from *)

(* The logs of the volume named v, and their descriptors. *)
LogsOf(v) == { l \in Pebs \X (0 .. LogsCount - 1) : IsLog(Volumes[v][l[1]][l[2] + 1]) }
HeaderIn(v, l) == Volumes[v][l[1]][l[2] + 1]
DescriptorsIn(v, l) ==
  IF ~HasTable(HeaderIn(v, l)) THEN {}
  ELSE UNION { UNION { Range(frag.blocks) :
                         frag \in { g \in Range(portion.frags) : g.state = "valid" } } :
               portion \in Range(HeaderIn(v, l).table) }

(* A log in a folder of its own, named after the time, has the block whole. *)
Source(v, time, p, ver) ==
  \E l \in LogsOf(v) :
    /\ ~WithoutFolder(HeaderIn(v, l)) /\ HeaderIn(v, l).time = time
    /\ \E d \in DescriptorsIn(v, l) : Intact(d) /\ d.ino = p[1] /\ d.off = p[2] /\ d.ver = ver

(* What the file of a place may hold when the range a was asked for. *)
Right(v, a, p, ver) ==
  \/ \E time \in Times : InsideRange(a, Now, Cal[time]).in /\ Source(v, time, p, ver)
  \/ \E item \in InlineItems : item.ino = p[1] /\ item.ver = ver

(* Only logs that have a folder describe blocks. *)
TablesInFoldersOf(v) ==
  \A l \in LogsOf(v) : WithoutFolder(HeaderIn(v, l)) => DescriptorsIn(v, l) = {}

FirstChecksumsOf(v) ==
  \A l \in LogsOf(v) : \A desc \in DescriptorsIn(v, l) : \A n \in 1 .. Len(desc.states) :
    LET frags == desc.states[n].frags
    IN  /\ Len(frags) <= FragsPerBlock
        /\ \A frag \in Range(frags) :
             frag.has_csum => frags[1].has_csum /\ frag.checksum = frags[1].checksum

Separate(v) ==
  /\ \A l \in LogsOf(v) : WithoutFolder(HeaderIn(v, l)) => Capacity = 1
  /\ TablesInFoldersOf(v) /\ FirstChecksumsOf(v)

(* A block that can be extracted is whole: under FirstChecksums the first  *)
(* checksum is that of every fragment.                                     *)
LEMMA ExtractedIsIntact ==
  ASSUME NEW desc \in Blocks, ExtractBlockState(desc),
         \A n \in 1 .. Len(desc.states) :
           LET frags == desc.states[n].frags
           IN  /\ Len(frags) <= FragsPerBlock
               /\ \A frag \in Range(frags) :
                    frag.has_csum => frags[1].has_csum /\ frag.checksum = frags[1].checksum
  PROVE  Intact(desc)
<1> DEFINE states == desc.states
<1>1. states \in Seq(States) /\ Len(states) \in Nat /\ DOMAIN states = 1 .. Len(states)
  BY DEF Blocks
<1>2. Len(states) > 0 /\ \A q \in 1 .. Len(states) : ReadBlockState(q, states[q])
  BY DEF ExtractBlockState
<1>3. Len(states) = 1
  <2>1. \A q \in 1 .. Len(states) : q = 1
    BY <1>2 DEF ReadBlockState, ReadDelta
  <2> HIDE DEF states
  <2> QED BY <1>1, <1>2, <2>1
<1> DEFINE state == states[1]
           frags == state.frags
<1>4. state \in States /\ ReadRawBlockState(state) /\ ParseBlockState(state)
  <2> HIDE DEF states
  <2> QED BY <1>1, <1>2, <1>3 DEF ReadBlockState
<1>5. frags \in Seq(Fragments)
  <2> HIDE DEF state
  <2> QED BY <1>4 DEF States
<1>6. /\ Len(frags) <= FragsPerBlock
      /\ \A frag \in Range(frags) :
           frag.has_csum => frags[1].has_csum /\ frag.checksum = frags[1].checksum
  BY <1>3
<1>7. ASSUME state.area # "main", NEW frag \in Range(frags)
      PROVE  frag.state = "valid" /\ (frag.has_csum => Crc32(frag.data) = frag.checksum)
  <2>1. \A q \in 0 .. FragsPerBlock - 1 : FragmentReadable(frags, q)
    <3> HIDE DEF state
    <3> QED BY <1>4, <1>7 DEF ParseBlockState
  <2> HIDE DEF frags
  <2>2. PICK n \in DOMAIN frags : frag = frags[n]
    BY <1>7 DEF Range
  <2>3. n \in 1 .. Len(frags) /\ Len(frags) \in Nat
    BY <1>5
  <2>4. n - 1 \in 0 .. FragsPerBlock - 1 /\ ~(n - 1 >= Len(frags)) /\ (n - 1) + 1 = n
    BY <1>6, <2>3, DumpAssumption
  <2>5. FragmentReadable(frags, n - 1)
    BY <2>1, <2>4
  <2>6. /\ frags[n].state = "valid"
        /\ frags[1].has_csum => Crc32(frags[n].data) = frags[1].checksum
    BY <2>4, <2>5 DEF FragmentReadable
  <2> QED BY <1>6, <2>2, <2>6
<1> QED BY <1>3, <1>4, <1>7 DEF Intact, ReadRawBlockState

(* The block that a worker dumps, with the log it is in. *)
LEMMA BlockOfWorker ==
  ASSUME NEW v \in DOMAIN Volumes, NEW t \in Workers, NEW w, WorkerGood(v, t, w), w.pc \in InBlock
  PROVE  LET l == <<PebOf(t, w), w.log>>
             d == DescriptorAt(HeaderAt(v, t, w).table, w.it)
         IN  /\ l \in LogsOf(v) /\ HeaderIn(v, l) = HeaderAt(v, t, w)
             /\ d \in DescriptorsIn(v, l) /\ d \in Blocks /\ ExtractBlockState(d)
             /\ HeaderAt(v, t, w).time \in Times
<1> DEFINE l == <<PebOf(t, w), w.log>>
           hdr == HeaderAt(v, t, w)
           d == DescriptorAt(hdr.table, w.it)
<1>1. /\ w \in WorkerType /\ w.n < Share(t, PebsCount, PerThread) /\ w.log < LogsCount
      /\ IsLog(hdr) /\ HasTable(hdr) /\ Position(hdr.table, w.it) /\ ExtractBlockState(d)
  BY DEF WorkerGood, InLog, InTable, InBlock
<1>2. /\ PebOf(t, w) \in Pebs /\ w.log \in 0 .. LogsCount - 1 /\ GoodTable(hdr.table)
      /\ hdr.time \in Times
  BY <1>1, LogIs
<1>3. HeaderIn(v, l) = hdr
  BY DEF HeaderIn, HeaderAt
<1>4. l \in LogsOf(v)
  BY <1>1, <1>2 DEF LogsOf, HeaderAt
<1>5. PICK q \in DOMAIN hdr.table : \E f \in DOMAIN hdr.table[q].frags :
        /\ hdr.table[q].frags[f].state = "valid"
        /\ \E n \in DOMAIN hdr.table[q].frags[f].blocks : d = hdr.table[q].frags[f].blocks[n]
  BY <1>1, <1>2, DescriptorIs
<1>6. PICK f \in DOMAIN hdr.table[q].frags :
        /\ hdr.table[q].frags[f].state = "valid"
        /\ \E n \in DOMAIN hdr.table[q].frags[f].blocks : d = hdr.table[q].frags[f].blocks[n]
  BY <1>5
<1> DEFINE frag == hdr.table[q].frags[f]
<1>7. d \in Range(frag.blocks) /\ frag \in Range(hdr.table[q].frags) /\ frag.state = "valid"
      /\ hdr.table[q] \in Range(hdr.table)
  BY <1>5, <1>6 DEF Range
<1>8. d \in DescriptorsIn(v, l)
  <2> HIDE DEF d, hdr, l
  <2> QED BY <1>1, <1>3, <1>7 DEF DescriptorsIn
<1>9. d \in Blocks
  BY <1>1, <1>2, DescriptorIs
<1> QED BY <1>1, <1>2, <1>3, <1>4, <1>8, <1>9

(* Hence what it writes has its source in that log. *)
LEMMA DumpedHasSource ==
  ASSUME NEW v \in DOMAIN Volumes, Separate(v), NEW t \in Workers, NEW w,
         WorkerGood(v, t, w), w.pc \in InBlock
  PROVE  LET d == DescriptorAt(HeaderAt(v, t, w).table, w.it)
         IN  /\ ~WithoutFolder(HeaderAt(v, t, w)) /\ HeaderAt(v, t, w).time \in Times
             /\ d.ino \in Inos /\ d.off \in Offs /\ d.ver \in Vers
             /\ Source(v, HeaderAt(v, t, w).time, <<d.ino, d.off>>, d.ver)
<1> DEFINE l == <<PebOf(t, w), w.log>>
           hdr == HeaderAt(v, t, w)
           d == DescriptorAt(hdr.table, w.it)
<1>1. /\ l \in LogsOf(v) /\ HeaderIn(v, l) = hdr
      /\ d \in DescriptorsIn(v, l) /\ d \in Blocks /\ ExtractBlockState(d) /\ hdr.time \in Times
  BY BlockOfWorker
<1> HIDE DEF l, hdr, d
<1>2. ~WithoutFolder(hdr)
  BY <1>1 DEF Separate, TablesInFoldersOf
<1>3. Intact(d)
  BY <1>1, ExtractedIsIntact DEF Separate, FirstChecksumsOf
<1>4. d.ino \in Inos /\ d.off \in Offs /\ d.ver \in Vers
  BY <1>1 DEF Blocks
<1>5. Source(v, hdr.time, <<d.ino, d.off>>, d.ver)
  <2> DEFINE p == <<d.ino, d.off>>
  <2>1. p[1] = d.ino /\ p[2] = d.off
    OBVIOUS
  <2> HIDE DEF p
  <2>2. Source(v, hdr.time, p, d.ver)
    BY <1>1, <1>2, <1>3, <2>1 DEF Source
  <2> QED BY <2>2 DEF p
<1> QED BY <1>1, <1>2, <1>4, <1>5 DEF hdr, d

-----------------------------------------------------------------------------
(* The descriptors that a worker in a log holds: its folder, and the file  *)
(* it is about to write.                                                   *)

HoldsFolder(v, t, w) == w.pc \in InLog \ {"folder"} /\ ~WithoutFolder(HeaderAt(v, t, w))
HoldsBlock(w) == w.pc \in {"write", "closeblock"}

HeldBy(v, t, w) ==
  { fd \in Fds : \/ HoldsFolder(v, t, w) /\ fd = w.fd
                 \/ HoldsBlock(w) /\ fd = w.bfd }

KeyOf(v, t, w) ==
  LET d == DescriptorAt(HeaderAt(v, t, w).table, w.it)
  IN  <<HeaderAt(v, t, w).time, d.ino, d.off>>

HoldGood(v, t, w, table) ==
  /\ HoldsFolder(v, t, w) =>
       w.fd \in Fds /\ table[w.fd] = Folder(HeaderAt(v, t, w).time)
  /\ HoldsBlock(w) => w.bfd \in Fds /\ table[w.bfd] = BlockFile(KeyOf(v, t, w))

HoldInv ==
  /\ \A t \in Workers : HoldGood(vol, t, wrk[t], fdt)
  /\ \A t, u \in Workers : t # u => HeldBy(vol, t, wrk[t]) \cap HeldBy(vol, u, wrk[u]) = {}

LEMMA KindsDiffer ==
  ASSUME NEW time, NEW key
  PROVE  Folder(time) # Free /\ BlockFile(key) # Free /\ Folder(time) # BlockFile(key)
<1>1. Folder(time).kind = "folder" /\ BlockFile(key).kind = "file" /\ Free.kind = "free"
  BY DEF Folder, BlockFile, Free
<1> QED BY <1>1

(* What is held is not free. *)
LEMMA HeldNotFree ==
  ASSUME HoldInv, NEW t \in Workers, NEW fd \in HeldBy(vol, t, wrk[t])
  PROVE  fd \in Fds /\ fdt[fd] # Free
  BY KindsDiffer DEF HoldInv, HoldGood, HeldBy

(* A worker that changes only descriptors the others do not hold leaves    *)
(* them what they have.                                                    *)
LEMMA HoldFrame ==
  ASSUME HoldInv, NEW t \in Workers, vol' = vol,
         \A u \in Workers \ {t} : wrk'[u] = wrk[u],
         NEW X, \A u \in Workers \ {t} : X \cap HeldBy(vol, u, wrk[u]) = {},
         \A fd \in Fds \ X : fdt'[fd] = fdt[fd],
         HeldBy(vol, t, wrk'[t]) \subseteq HeldBy(vol, t, wrk[t]) \cup X,
         HoldGood(vol, t, wrk'[t], fdt')
  PROVE  HoldInv'
<1>1. \A u \in Workers \ {t} : HoldGood(vol, u, wrk[u], fdt')
  <2> TAKE u \in Workers \ {t}
  <2>1. HoldGood(vol, u, wrk[u], fdt)
    BY DEF HoldInv
  <2>2. \A fd \in HeldBy(vol, u, wrk[u]) : fdt'[fd] = fdt[fd]
    BY DEF HeldBy
  <2> QED BY <2>1, <2>2 DEF HoldGood, HeldBy
<1>2. \A u \in Workers : HoldGood(vol', u, wrk'[u], fdt')
  BY <1>1
<1>3. ASSUME NEW a \in Workers, NEW b \in Workers, a # b
      PROVE  HeldBy(vol, a, wrk'[a]) \cap HeldBy(vol, b, wrk'[b]) = {}
  <2>1. HeldBy(vol, a, wrk[a]) \cap HeldBy(vol, b, wrk[b]) = {}
    BY <1>3 DEF HoldInv
  <2>2. CASE a = t
    <3>1. wrk'[b] = wrk[b] /\ X \cap HeldBy(vol, b, wrk[b]) = {}
      BY <1>3, <2>2
    <3> QED BY <2>1, <2>2, <3>1
  <2>3. CASE b = t
    <3>1. wrk'[a] = wrk[a] /\ X \cap HeldBy(vol, a, wrk[a]) = {}
      BY <1>3, <2>3
    <3> QED BY <2>1, <2>3, <3>1
  <2>4. CASE a # t /\ b # t
    BY <2>1, <2>4
  <2> QED BY <2>2, <2>3, <2>4
<1> QED BY <1>2, <1>3 DEF HoldInv

LEMMA HoldStay ==
  ASSUME HoldInv, NEW t \in Workers, vol' = vol, fdt' = fdt,
         \A u \in Workers \ {t} : wrk'[u] = wrk[u],
         HeldBy(vol, t, wrk'[t]) \subseteq HeldBy(vol, t, wrk[t]),
         HoldGood(vol, t, wrk'[t], fdt')
  PROVE  HoldInv'
<1> DEFINE X == {}
<1>1. /\ \A u \in Workers \ {t} : X \cap HeldBy(vol, u, wrk[u]) = {}
      /\ \A fd \in Fds \ X : fdt'[fd] = fdt[fd]
      /\ HeldBy(vol, t, wrk'[t]) \subseteq HeldBy(vol, t, wrk[t]) \cup X
  OBVIOUS
<1> HIDE DEF X
<1> QED BY <1>1, HoldFrame

(* The step of a worker, as far as descriptors are concerned. *)
LEMMA WorkerHolds ==
  ASSUME ScanInv, Separate(vol), HoldInv, NEW t \in Workers, Worker(t)
  PROVE  HoldInv'
<1> DEFINE w == wrk[t]
           new == wrk'[t]
           hdr == HeaderAt(vol, t, w)
<1>0. /\ vol' = vol /\ \A u \in Workers \ {t} : wrk'[u] = wrk[u]
      /\ WorkerGood(vol, t, w) /\ w \in WorkerType /\ vol \in DOMAIN Volumes
      /\ wrk = [u \in Workers |-> wrk[u]] /\ fdt \in [Fds -> Entries]
      /\ HoldGood(vol, t, w, fdt)
  BY WorkerMoves DEF ScanInv, ScanTypes, WorkerGood, HoldInv
<1>l. ASSUME FreeFds # {}
      PROVE  /\ LowestFd \in Fds /\ fdt[LowestFd] = Free
             /\ \A u \in Workers : LowestFd \notin HeldBy(vol, u, wrk[u])
  BY <1>l, FdIs, HeldNotFree
<1>n. ASSUME new.pc \notin InLog \ {"folder"}
      PROVE  HeldBy(vol, t, new) = {} /\ HoldGood(vol, t, new, fdt')
  BY <1>n DEF HeldBy, HoldGood, HoldsFolder, HoldsBlock, InLog
<1> USE DEF At, Running
<1>1. CASE \/ NextPeb(t) \/ LastPeb(t) \/ PebDone(t) \/ OrphanedFooter(t)
           \/ CreateFolderFails(t) \/ ParseAreasFails(t) \/ ReadHangs(t)
  <2>1. fdt' = fdt
    BY <1>1 DEF NextPeb, LastPeb, PebDone, OrphanedFooter, CreateFolderFails, ParseAreasFails,
       ReadHangs
  <2>2. new.pc \in {"log", "exit", "peb", "spin"}
    BY <1>0, <1>1 DEF NextPeb, LastPeb, PebDone, OrphanedFooter, CreateFolderFails,
       ParseAreasFails, ReadHangs, WorkerType
  <2>3. HeldBy(vol, t, new) = {} /\ HoldGood(vol, t, new, fdt')
    BY <1>n, <2>2 DEF InLog
  <2> QED BY <1>0, <2>1, <2>3, HoldStay
<1>2. CASE LogFound(t)
  <2> DEFINE f == Found(t)
             label == IF WithoutFolder(Page(t, f)) THEN "areas" ELSE "folder"
  <2>1. wrk' = [wrk EXCEPT ![t].log = f, ![t].next = f + 1, ![t].pc = label] /\ fdt' = fdt
    BY <1>2 DEF LogFound
  <2> HIDE DEF f, label
  <2>2. new = [w EXCEPT !.log = f, !.next = f + 1, !.pc = label]
    BY <1>0, <2>1
  <2>3. new.pc = label /\ new.log = f /\ new.n = w.n
    <3> HIDE DEF w, new
    <3> QED BY <1>0, <2>2 DEF WorkerType
  <2>4. HeaderAt(vol, t, new) = Page(t, f)
    BY <2>3 DEF HeaderAt, PebOf, Page, Peb
  <2>5. HeldBy(vol, t, new) = {} /\ HoldGood(vol, t, new, fdt')
    <3> HIDE DEF w, new
    <3> QED BY <2>3, <2>4 DEF HeldBy, HoldGood, HoldsFolder, HoldsBlock, label
  <2> QED BY <1>0, <2>1, <2>5, HoldStay
<1>3. CASE CreateFolder(t)
  <2>1. /\ wrk' = [wrk EXCEPT ![t].pc = "areas", ![t].fd = LowestFd]
        /\ FreeFds # {} /\ fdt' = [fdt EXCEPT ![LowestFd] = Folder(hdr.time)]
    BY <1>3, HeaderIs DEF CreateFolder
  <2>2. new = [w EXCEPT !.pc = "areas", !.fd = LowestFd]
    BY <1>0, <2>1
  <2>3. new.pc = "areas" /\ new.fd = LowestFd /\ new.log = w.log /\ new.n = w.n
    <3> HIDE DEF w, new
    <3> QED BY <1>0, <2>2 DEF WorkerType
  <2>4. HeaderAt(vol, t, new) = hdr
    BY <2>3 DEF HeaderAt, PebOf
  <2>5. fdt'[LowestFd] = Folder(hdr.time) /\ \A fd \in Fds \ {LowestFd} : fdt'[fd] = fdt[fd]
    BY <1>0, <1>l, <2>1
  <2>6. HeldBy(vol, t, new) \subseteq {LowestFd} /\ HoldGood(vol, t, new, fdt')
    <3> HIDE DEF w, new, hdr
    <3> QED BY <1>l, <2>1, <2>3, <2>4, <2>5 DEF HeldBy, HoldGood, HoldsFolder, HoldsBlock
  <2>7. \A u \in Workers \ {t} : {LowestFd} \cap HeldBy(vol, u, wrk[u]) = {}
    BY <1>l, <2>1
  <2> QED BY <1>0, <2>5, <2>6, <2>7, HoldFrame
<1>4. CASE CloseFolder(t)
  <2>1. wrk' = [wrk EXCEPT ![t].pc = "log", ![t].log = wrk[t].next] /\ fdt' = Closed(w.fd)
        /\ w.pc = "close"
    BY <1>4 DEF CloseFolder
  <2>2. new.pc = "log"
    BY <1>0, <2>1 DEF WorkerType
  <2>3. HeldBy(vol, t, new) = {} /\ HoldGood(vol, t, new, fdt')
    BY <1>n, <2>2 DEF InLog
  <2>4. \A fd \in Fds \ {w.fd} : fdt'[fd] = fdt[fd]
    BY <1>0, <2>1 DEF Closed
  <2>5. \A u \in Workers \ {t} : {w.fd} \cap HeldBy(vol, u, wrk[u]) = {}
    <3>1. CASE WithoutFolder(hdr)
      <4>1. /\ w.n < Share(t, PebsCount, PerThread) /\ w.log < LogsCount /\ IsLog(hdr)
        BY <1>0, <2>1 DEF WorkerGood, InLog
      <4>2. PebOf(t, w) \in Pebs /\ w.log \in 0 .. LogsCount - 1
        BY <1>0, <4>1, LogIs
      <4>3. <<PebOf(t, w), w.log>> \in LogsOf(vol) /\ HeaderIn(vol, <<PebOf(t, w), w.log>>) = hdr
        BY <4>1, <4>2 DEF LogsOf, HeaderIn, HeaderAt
      <4>4. Capacity = 1
        BY <3>1, <4>3 DEF Separate
      <4>5. Workers \ {t} = {}
        BY <4>4 DEF Workers
      <4> QED BY <4>5
    <3>2. CASE ~WithoutFolder(hdr)
      <4>1. HoldsFolder(vol, t, w)
        BY <2>1, <3>2 DEF HoldsFolder, InLog
      <4>2. w.fd \in HeldBy(vol, t, w)
        BY <1>0, <4>1 DEF HoldGood, HeldBy
      <4> QED BY <4>2 DEF HoldInv
    <3> QED BY <3>1, <3>2
  <2> QED BY <1>0, <2>3, <2>4, <2>5, HoldFrame
<1>5. CASE ParseAreas(t) \/ TableDone(t) \/ NextBlock(t) \/ OpenBlockFails(t) \/ WriteBlock(t)
  <2>1. fdt' = fdt
    BY <1>5 DEF ParseAreas, TableDone, NextBlock, OpenBlockFails, WriteBlock
  <2>2. /\ w.pc \in InLog \ {"folder"} /\ new.pc \in InLog \ {"folder"}
        /\ new.fd = w.fd /\ new.log = w.log /\ new.n = w.n
        /\ HoldsBlock(new) => HoldsBlock(w) /\ new.bfd = w.bfd /\ new.it = w.it
    <3>1. CASE ParseAreas(t)
      <4> DEFINE next == NextLogIndex(Header(t), wrk[t].log)
                 label == IF HasTable(Header(t)) THEN "descs" ELSE "close"
      <4>1. wrk' = [wrk EXCEPT ![t].next = next, ![t].it = Start, ![t].pc = label] /\ w.pc = "areas"
        BY <3>1 DEF ParseAreas
      <4>2. label \in {"descs", "close"}
        OBVIOUS
      <4> HIDE DEF next, label
      <4>3. new = [w EXCEPT !.next = next, !.it = Start, !.pc = label]
        BY <1>0, <4>1
      <4> HIDE DEF w, new
      <4> QED BY <1>0, <4>1, <4>2, <4>3 DEF WorkerType, InLog, HoldsBlock
    <3>2. CASE TableDone(t) \/ OpenBlockFails(t) \/ WriteBlock(t)
      <4>1. PICK label \in {"close", "descs", "closeblock"} :
              wrk' = [wrk EXCEPT ![t].pc = label] /\ (label = "closeblock" => w.pc = "write")
        BY <3>2 DEF TableDone, OpenBlockFails, WriteBlock
      <4>2. w.pc \in {"descs", "open", "write"}
        BY <3>2 DEF TableDone, OpenBlockFails, WriteBlock
      <4>3. new = [w EXCEPT !.pc = label]
        BY <1>0, <4>1
      <4> HIDE DEF w, new
      <4> QED BY <1>0, <4>1, <4>2, <4>3 DEF WorkerType, InLog, HoldsBlock
    <3>3. CASE NextBlock(t)
      <4> DEFINE it == NextOf(t)
                 label == IF ExtractBlockState(DescriptorAt(Header(t).table, NextOf(t)))
                          THEN "open" ELSE "descs"
      <4>1. wrk' = [wrk EXCEPT ![t].it = it, ![t].pc = label] /\ w.pc = "descs"
        BY <3>3 DEF NextBlock
      <4>2. label \in {"descs", "open"}
        OBVIOUS
      <4> HIDE DEF it, label
      <4>3. new = [w EXCEPT !.it = it, !.pc = label]
        BY <1>0, <4>1
      <4> HIDE DEF w, new
      <4> QED BY <1>0, <4>1, <4>2, <4>3 DEF WorkerType, InLog, HoldsBlock
    <3> QED BY <1>5, <3>1, <3>2, <3>3
  <2>3. HeaderAt(vol, t, new) = hdr
    BY <2>2 DEF HeaderAt, PebOf
  <2>4. HoldsBlock(new) => KeyOf(vol, t, new) = KeyOf(vol, t, w)
    BY <2>2, <2>3 DEF KeyOf
  <2>5. HoldGood(vol, t, new, fdt') /\ HeldBy(vol, t, new) \subseteq HeldBy(vol, t, w)
    <3> HIDE DEF w, new, hdr
    <3>1. HoldsFolder(vol, t, new) <=> HoldsFolder(vol, t, w)
      BY <2>2, <2>3 DEF HoldsFolder, hdr
    <3> QED BY <1>0, <2>1, <2>2, <2>3, <2>4, <3>1 DEF HoldGood, HeldBy, hdr
  <2> QED BY <1>0, <2>1, <2>5, HoldStay
<1>6. CASE OpenBlock(t)
  <2> DEFINE dir == EntryOf(w.fd)
             key == <<dir.time, Descriptor(t).ino, Descriptor(t).off>>
  <2>1. /\ wrk' = [wrk EXCEPT ![t].pc = "write", ![t].bfd = LowestFd] /\ w.pc = "open"
        /\ FreeFds # {} /\ fdt' = [fdt EXCEPT ![LowestFd] = BlockFile(key)]
    BY <1>6 DEF OpenBlock
  <2>2. new = [w EXCEPT !.pc = "write", !.bfd = LowestFd]
    BY <1>0, <2>1
  <2>3. /\ new.pc = "write" /\ new.bfd = LowestFd /\ new.log = w.log /\ new.n = w.n
        /\ new.fd = w.fd /\ new.it = w.it
    <3> HIDE DEF w, new
    <3> QED BY <1>0, <2>2 DEF WorkerType
  <2>4. HeaderAt(vol, t, new) = hdr
    BY <2>3 DEF HeaderAt, PebOf
  <2>5. ~WithoutFolder(hdr)
    BY <1>0, <2>1, DumpedHasSource DEF InBlock
  <2>6. w.fd \in Fds /\ fdt[w.fd] = Folder(hdr.time) /\ HoldsFolder(vol, t, w)
    BY <1>0, <2>1, <2>5 DEF HoldGood, HoldsFolder, InLog
  <2>7. dir.time = hdr.time
    BY <2>6 DEF EntryOf, Folder
  <2>8. key = KeyOf(vol, t, new)
    BY <2>3, <2>4, <2>7, HeaderIs DEF KeyOf, Descriptor
  <2>9. LowestFd \in Fds /\ w.fd # LowestFd
    BY <1>l, <2>1, <2>6, KindsDiffer
  <2>10. fdt'[LowestFd] = BlockFile(key) /\ \A fd \in Fds \ {LowestFd} : fdt'[fd] = fdt[fd]
    <3> HIDE DEF key
    <3> QED BY <1>0, <2>1, <2>9
  <2>11. HeldBy(vol, t, new) \subseteq HeldBy(vol, t, w) \cup {LowestFd}
    <3> HIDE DEF w, new
    <3> QED BY <2>3, <2>6 DEF HeldBy
  <2>12. HoldGood(vol, t, new, fdt')
    <3> HIDE DEF w, new, hdr, key
    <3> QED BY <2>3, <2>4, <2>6, <2>8, <2>9, <2>10 DEF HoldGood
  <2>13. \A u \in Workers \ {t} : {LowestFd} \cap HeldBy(vol, u, wrk[u]) = {}
    BY <1>l, <2>1
  <2> QED BY <1>0, <2>10, <2>11, <2>12, <2>13, HoldFrame
<1>7. CASE CloseBlock(t)
  <2>1. wrk' = [wrk EXCEPT ![t].pc = "descs"] /\ w.pc = "closeblock" /\ fdt' = Closed(w.bfd)
    BY <1>7 DEF CloseBlock
  <2>2. new = [w EXCEPT !.pc = "descs"]
    BY <1>0, <2>1
  <2>3. new.pc = "descs" /\ new.log = w.log /\ new.n = w.n /\ new.fd = w.fd
    <3> HIDE DEF w, new
    <3> QED BY <1>0, <2>2 DEF WorkerType
  <2>4. HeaderAt(vol, t, new) = hdr
    BY <2>3 DEF HeaderAt, PebOf
  <2>5. w.bfd \in Fds /\ fdt[w.bfd] = BlockFile(KeyOf(vol, t, w)) /\ w.bfd \in HeldBy(vol, t, w)
    BY <1>0, <2>1 DEF HoldGood, HoldsBlock, HeldBy
  <2>6. \A fd \in Fds \ {w.bfd} : fdt'[fd] = fdt[fd]
    BY <1>0, <2>1 DEF Closed
  <2>7. \A u \in Workers \ {t} : {w.bfd} \cap HeldBy(vol, u, wrk[u]) = {}
    BY <2>5 DEF HoldInv
  <2>8. HoldsFolder(vol, t, new) => HoldsFolder(vol, t, w) /\ ~HoldsBlock(new)
    BY <2>1, <2>3, <2>4 DEF HoldsFolder, HoldsBlock, InLog
  <2>9. ~HoldsBlock(new)
    BY <2>3 DEF HoldsBlock
  <2>10. HeldBy(vol, t, new) \subseteq HeldBy(vol, t, w)
    <3> HIDE DEF w, new
    <3> QED BY <2>3, <2>8, <2>9 DEF HeldBy
  <2>11. HoldGood(vol, t, new, fdt')
    <3>1. ASSUME HoldsFolder(vol, t, new)
          PROVE  w.fd \in Fds /\ fdt'[w.fd] = Folder(hdr.time)
      <4>1. w.fd \in Fds /\ fdt[w.fd] = Folder(hdr.time)
        BY <1>0, <2>8, <3>1 DEF HoldGood
      <4>2. w.fd # w.bfd
        BY <2>5, <4>1, KindsDiffer
      <4> QED BY <2>6, <4>1, <4>2
    <3> HIDE DEF w, new, hdr
    <3> QED BY <2>3, <2>4, <2>9, <3>1 DEF HoldGood
  <2> QED BY <1>0, <2>6, <2>7, <2>10, <2>11, HoldFrame
<1> QED BY <1>1, <1>2, <1>3, <1>4, <1>5, <1>6, <1>7 DEF Worker

-----------------------------------------------------------------------------
(* What the dump and the files hold, and the range the filter uses *)

DumpInv ==
  \A key \in Keys : dump[key] \in Vers => Source(vol, key[1], <<key[2], key[3]>>, dump[key])

Scanning == {"open", "probe", "spawn", "unwind", "join"}
FirstRange == InsideRange(asked, Now, Cal[list[1]]).range
AtFirst == pc = "filter" /\ i = 1

RangeInv ==
  /\ list = << >> \/ AtFirst => range = asked /\ jobs = << >>
  /\ list # << >> /\ ~AtFirst => range = FirstRange
  /\ \A j \in DOMAIN jobs : jobs[j].range = FirstRange

FilesInv == \A p \in Places : files[p] # None => Right(vol, asked, p, files[p])

OriginInv ==
  /\ Separate(vol) => HoldInv /\ DumpInv
  /\ pc \in Scanning => list = << >>
  /\ FilterSteady => RangeInv
  /\ Separate(vol) /\ FilterSteady => FilesInv

LEMMA InitOrigin == Init => OriginInv
<1> SUFFICES ASSUME Init PROVE OriginInv
  OBVIOUS
<1>1. HoldInv
  <2>1. \A t \in Workers : wrk[t].pc = "none"
    BY DEF Init, ScanInit, NewWorker
  <2> QED BY <2>1 DEF HoldInv, HoldGood, HeldBy, HoldsFolder, HoldsBlock, InLog
<1>2. DumpInv
  BY ScanAssumption DEF Init, ScanInit, DumpInv
<1>3. list = << >> /\ jobs = << >> /\ range = asked
  BY DEF Init
<1>4. RangeInv
  BY <1>3 DEF RangeInv
<1>5. FilesInv
  BY DEF Init, FilesInv
<1> QED BY <1>1, <1>2, <1>3, <1>4, <1>5 DEF OriginInv

(* The block a worker writes goes into the folder of its own log. *)
LEMMA WorkerDumps ==
  ASSUME ScanInv, Separate(vol), HoldInv, DumpInv, NEW t \in Workers, Worker(t)
  PROVE  DumpInv'
<1> DEFINE w == wrk[t]
           hdr == HeaderAt(vol, t, w)
           d == DescriptorAt(hdr.table, w.it)
<1>0. /\ vol' = vol /\ WorkerGood(vol, t, w) /\ vol \in DOMAIN Volumes
      /\ dump \in [Keys -> Vers \cup {None, Empty}] /\ Descriptor(t) = d
      /\ HoldGood(vol, t, w, fdt)
  BY WorkerMoves, HeaderIs DEF ScanInv, ScanTypes, HoldInv, Descriptor
<1> USE DEF At, Running
<1>1. CASE OpenBlock(t)
  <2> DEFINE key == <<EntryOf(wrk[t].fd).time, Descriptor(t).ino, Descriptor(t).off>>
  <2>1. dump' = [dump EXCEPT ![key] = IF dump[key] = None THEN Empty ELSE dump[key]]
    BY <1>1 DEF OpenBlock
  <2> HIDE DEF key
  <2>2. \A x \in Keys : dump'[x] \in Vers => dump'[x] = dump[x]
    BY <1>0, <2>1, ScanAssumption
  <2> QED BY <1>0, <2>2 DEF DumpInv
<1>2. CASE WriteBlock(t)
  <2>1. /\ w.pc = "write"
        /\ \/ dump' = [dump EXCEPT ![EntryOf(w.bfd).key] = d.ver]
           \/ dump' = dump
    BY <1>0, <1>2 DEF WriteBlock
  <2>2. /\ hdr.time \in Times /\ d.ino \in Inos /\ d.off \in Offs
        /\ Source(vol, hdr.time, <<d.ino, d.off>>, d.ver)
    BY <1>0, <2>1, DumpedHasSource DEF InBlock
  <2> DEFINE key == <<hdr.time, d.ino, d.off>>
  <2>3. EntryOf(w.bfd).key = key /\ key \in Keys
    <3>1. w.bfd \in Fds /\ fdt[w.bfd] = BlockFile(KeyOf(vol, t, w))
      BY <1>0, <2>1 DEF HoldGood, HoldsBlock
    <3>2. EntryOf(w.bfd).key = KeyOf(vol, t, w)
      BY <3>1 DEF EntryOf, BlockFile
    <3> QED BY <2>2, <3>2 DEF KeyOf, Keys
  <2>4. key[1] = hdr.time /\ <<key[2], key[3]>> = <<d.ino, d.off>>
    OBVIOUS
  <2> HIDE DEF key, d, hdr, w
  <2>5. \A x \in Keys : dump'[x] = dump[x] \/ (x = key /\ dump'[x] = d.ver)
    BY <1>0, <2>1, <2>3
  <2> QED BY <1>0, <2>2, <2>4, <2>5 DEF DumpInv
<1>3. CASE \/ NextPeb(t) \/ LastPeb(t) \/ PebDone(t) \/ OrphanedFooter(t) \/ LogFound(t)
           \/ CreateFolder(t) \/ CreateFolderFails(t) \/ ParseAreas(t) \/ ParseAreasFails(t)
           \/ TableDone(t) \/ NextBlock(t) \/ ReadHangs(t) \/ OpenBlockFails(t)
           \/ CloseBlock(t) \/ CloseFolder(t)
  <2>1. dump' = dump
    BY <1>3 DEF NextPeb, LastPeb, PebDone, OrphanedFooter, LogFound, CreateFolder,
       CreateFolderFails, ParseAreas, ParseAreasFails, TableDone, NextBlock, ReadHangs,
       OpenBlockFails, CloseBlock, CloseFolder
  <2> QED BY <1>0, <2>1 DEF DumpInv
<1> QED BY <1>1, <1>2, <1>3 DEF Worker

LEMMA WorkerOrigin ==
  ASSUME SessionInv, OriginInv, NEW t \in Workers, ScanStep(t)
  PROVE  OriginInv'
<1>1. /\ ScanInv /\ PoolTypes /\ JoinedInv /\ BuildInv /\ Worker(t) /\ UNCHANGED sessionVars
  BY DEF SessionInv, JoinedInv, ScanStep
<1>2. UNCHANGED <<vol, pc, i>>
  BY <1>1, WorkerStep
<1>3. UNCHANGED <<asked, list, jobs, range, files>>
  BY <1>1 DEF sessionVars, buildVars, outVars
<1>4. Separate(vol) => HoldInv' /\ DumpInv'
  BY <1>1, WorkerHolds, WorkerDumps DEF OriginInv
<1>5. (FilterSteady' <=> FilterSteady) /\ (RangeInv' <=> RangeInv) /\ (FilesInv' <=> FilesInv)
  BY <1>2, <1>3 DEF FilterSteady, RangeInv, AtFirst, FirstRange, FilesInv
<1> QED BY <1>2, <1>3, <1>4, <1>5 DEF OriginInv

(* The dump loses blocks, and nothing else touches it after the scan. *)
LEMMA DumpShrinks ==
  ASSUME DumpInv, vol' = vol, \A key \in Keys : dump'[key] \in {dump[key], None}
  PROVE  DumpInv'
  BY ScanAssumption DEF DumpInv

LEMMA JobOrigin ==
  ASSUME SessionInv, OriginInv, NEW j \in DOMAIN jobs, Job(j)
  PROVE  OriginInv'
<1>0. /\ BuildInv /\ ScanTypes
      /\ jobs \in Seq(JobType) /\ jobs[j] \in JobType /\ list \in Seq(Times)
      /\ asked \in TimeRanges /\ dump \in [Keys -> Vers \cup {None, Empty}]
  BY DEF SessionInv, ScanInv, ScanTypes, BuildInv
<1>1. /\ wrk' = wrk /\ vol' = vol /\ pc' = pc /\ i' = i
  BY JobStep
<1>2. /\ UNCHANGED <<asked, list, range, fdt>> /\ JobRuns(j)
  BY DEF Job, JobDone, JobSkipsFolder, SynthesizeBlocks, DataFileFails, SynthesizeBlocksFails,
         scanVars, buildVars, outVars
<1>3. HoldInv' <=> HoldInv
  BY <1>1, <1>2 DEF HoldInv
<1>4. DumpInv => DumpInv'
  <2>1. \A key \in Keys : dump'[key] \in {dump[key], None}
    <3>1. CASE SynthesizeBlocks(j) \/ SynthesizeBlocksFails(j)
      <4>1. PICK unread, kept : Synthesized(j, unread, kept)
        BY <3>1, JobSynthesizes
      <4> QED BY <4>1 DEF Synthesized
    <3>2. CASE ~(SynthesizeBlocks(j) \/ SynthesizeBlocksFails(j))
      BY <3>2 DEF Job, JobDone, JobSkipsFolder, DataFileFails, scanVars
    <3> QED BY <3>1, <3>2
  <2> QED BY <1>1, <2>1, DumpShrinks
<1>5. FilterSteady' <=> FilterSteady
  BY <1>2 DEF FilterSteady
<1>f. FirstRange' = FirstRange
  BY <1>2 DEF FirstRange
<1>6. ASSUME FilterSteady PROVE RangeInv' /\ jobs[j].range = FirstRange /\ list # << >>
  <2>1. RangeInv /\ jobs # << >> /\ jobs[j].range = FirstRange
    BY <1>6 DEF OriginInv, RangeInv
  <2>2. list # << >> /\ ~AtFirst
    BY <2>1 DEF RangeInv
  <2>3. JobVerdict(j).range = FirstRange
    BY <1>0, <1>6, <2>1, <2>2, RangeSteady DEF JobVerdict, FilterSteady, FirstRange
  <2>4. /\ DOMAIN jobs' = DOMAIN jobs
        /\ \A n \in DOMAIN jobs : jobs'[n].range = FirstRange
    <3>1. CASE JobDone(j)
      <4>1. jobs' = [jobs EXCEPT ![j] = [jobs[j] EXCEPT !.pc = "exit"]]
        BY <3>1 DEF JobDone
      <4>2. [jobs[j] EXCEPT !.pc = "exit"].range = jobs[j].range
        BY <1>0 DEF JobType
      <4> QED BY <1>0, <2>1, <4>1, <4>2 DEF RangeInv
    <3>2. CASE ~JobDone(j)
      <4> DEFINE r == JobVerdict(j).range
                 g == jobs[j].f + 1
      <4>1. jobs' = [jobs EXCEPT ![j] = [jobs[j] EXCEPT !.f = g, !.range = r]]
        BY <3>2 DEF Job, JobSkipsFolder, SynthesizeBlocks, DataFileFails, SynthesizeBlocksFails,
         NextFolder
      <4>2. r = FirstRange
        BY <2>3
      <4> HIDE DEF r, g
      <4>3. [jobs[j] EXCEPT !.f = g, !.range = r].range = r
        BY <1>0 DEF JobType
      <4> QED BY <1>0, <2>1, <4>1, <4>2, <4>3 DEF RangeInv
    <3> QED BY <3>1, <3>2
  <2>5. list' = list /\ range' = range /\ (AtFirst' <=> AtFirst)
    BY <1>1, <1>2 DEF AtFirst
  <2> QED BY <1>f, <2>1, <2>2, <2>4, <2>5 DEF RangeInv
<1>7. ASSUME Separate(vol), FilterSteady PROVE FilesInv'
  <2>0. DumpInv /\ FilesInv /\ vol' = vol /\ asked' = asked
    BY <1>1, <1>2, <1>7 DEF OriginInv
  <2>1. CASE SynthesizeBlocks(j) \/ SynthesizeBlocksFails(j)
    <3>1. PICK unread, kept : Synthesized(j, unread, kept)
      BY <2>1, JobSynthesizes
    <3>2. JobVerdict(j).in /\ jobs[j].f \in DOMAIN list
      BY <1>0, <2>1, JobSynthesizes DEF JobType
    <3> DEFINE time == JobFolder(j)
    <3>3. time \in Times
      BY <1>0, <3>2 DEF JobFolder
    <3>4. InsideRange(asked, Now, Cal[time]).in
      BY <1>0, <1>6, <1>7, <3>2, RangeSteady DEF JobVerdict, FilterSteady, FirstRange
    <3> HIDE DEF time
    <3>5. \A p \in Places : files'[p] = files[p] \/
            (dump[<<time, p[1], p[2]>>] \in Vers /\ files'[p] = dump[<<time, p[1], p[2]>>])
      <4> TAKE p \in Places
      <4>1. <<time, p[1], p[2]>> \in Keys
        BY <3>3 DEF Places, Keys
      <4>2. \/ files'[p] = files[p]
            \/ /\ p \in OwnBlocks(j) /\ dump[<<time, p[1], p[2]>>] # Empty
               /\ files'[p] = dump[<<time, p[1], p[2]>>]
        BY <3>1 DEF Synthesized, time
      <4>3. p \in OwnBlocks(j) => dump[<<time, p[1], p[2]>>] # None
        BY DEF OwnBlocks, BlocksIn, time
      <4> QED BY <1>0, <4>1, <4>2, <4>3
    <3>6. ASSUME NEW p \in Places, dump[<<time, p[1], p[2]>>] \in Vers
          PROVE  Source(vol, time, p, dump[<<time, p[1], p[2]>>])
      <4> DEFINE key == <<time, p[1], p[2]>>
      <4>1. key \in Keys /\ key[1] = time /\ <<key[2], key[3]>> = p
        BY <3>3 DEF Places, Keys
      <4> HIDE DEF key
      <4>2. dump[key] \in Vers => Source(vol, time, p, dump[key])
        BY <2>0, <4>1 DEF DumpInv
      <4> QED BY <3>6, <4>2 DEF key
    <3>7. ASSUME NEW p \in Places, files'[p] # None
          PROVE  Right(vol, asked, p, files'[p])
      <4>1. CASE files'[p] = files[p]
        BY <2>0, <3>7, <4>1 DEF FilesInv
      <4>2. CASE files'[p] # files[p]
        <5>1. Source(vol, time, p, files'[p])
          BY <3>5, <3>6, <4>2
        <5> QED BY <3>3, <3>4, <5>1 DEF Right
      <4> QED BY <4>1, <4>2
    <3> QED BY <2>0, <3>7 DEF FilesInv
  <2>2. CASE ~(SynthesizeBlocks(j) \/ SynthesizeBlocksFails(j))
    <3>1. files' = files
      BY <2>2 DEF Job, JobDone, JobSkipsFolder, DataFileFails, outVars
    <3> QED BY <2>0, <3>1 DEF FilesInv
  <2> QED BY <2>1, <2>2
<1> QED BY <1>1, <1>2, <1>3, <1>4, <1>5, <1>6, <1>7 DEF OriginInv

(* The main thread fills in the range at the first folder, and writes the  *)
(* files kept inside of inodes.                                            *)
LEMMA MainOrigin ==
  ASSUME SessionInv, OriginInv, Main
  PROVE  OriginInv'
<1>0. /\ JoinedInv /\ PoolTypes /\ ScanInv /\ BuildInv /\ ScanTypes
      /\ list \in Seq(Times) /\ asked \in TimeRanges /\ Len(list) \in Nat
      /\ files \in [Places -> Vers \cup {None}]
  BY DEF SessionInv, JoinedInv, ScanInv, BuildInv
<1> USE DEF scanVars, buildVars, outVars, sessionVars
<1>d. ASSUME Separate(vol), vol' = vol, wrk' = wrk, fdt' = fdt, dump' = dump
      PROVE  HoldInv' /\ DumpInv'
  BY <1>d DEF OriginInv, HoldInv, DumpInv
<1>f. ASSUME Separate(vol), FilterSteady, vol' = vol, asked' = asked, files' = files
      PROVE  FilesInv'
  BY <1>f DEF OriginInv, FilesInv
<1>1. CASE Spawn /\ UNCHANGED sessionVars
  <2>1. i \in Workers /\ wrk[i].pc = "none" /\ vol' = vol /\ fdt' = fdt /\ dump' = dump
    BY <1>0, <1>1, ScanAssumption DEF Spawn, JoinedInv, PoolInv, Workers
  <2>2. /\ wrk'[i].pc = "peb" /\ \A t \in Workers \ {i} : wrk'[t] = wrk[t]
    BY <1>0, <1>1, <2>1 DEF Spawn, PoolTypes
  <2>3. HeldBy(vol, i, wrk'[i]) = {} /\ HoldGood(vol, i, wrk'[i], fdt')
    BY <2>2 DEF HeldBy, HoldGood, HoldsFolder, HoldsBlock, InLog
  <2>4. Separate(vol) => HoldInv' /\ DumpInv'
    BY <2>1, <2>2, <2>3, HoldStay DEF OriginInv, DumpInv
  <2>5. pc = "spawn" /\ UNCHANGED <<vol, pc, asked, list, jobs, range, files>>
    BY <1>1 DEF Spawn
  <2>6. (FilterSteady' <=> FilterSteady) /\ (RangeInv' <=> RangeInv) /\ (FilesInv' <=> FilesInv)
    BY <2>5 DEF FilterSteady, RangeInv, AtFirst, FirstRange, FilesInv
  <2> QED BY <2>4, <2>5, <2>6 DEF OriginInv
(* Steps before the synthesis and after the deletion. *)
<1>2. CASE \/ ScanMain /\ ~Spawn /\ UNCHANGED sessionVars
           \/ Opened \/ OpenFails \/ ProbeFails \/ CreatePool \/ FreePool \/ ScanOutputFails
           \/ NoInodesFile \/ NoNodes \/ FindFirstNode \/ FindFirstNodeFails \/ NodesDone
           \/ DeleteFolderFails
  <2>1. /\ UNCHANGED <<vol, wrk, fdt, dump, asked, list, jobs, range, files>>
        /\ pc # "filter" /\ pc' # "filter"
        /\ pc' \in Scanning => pc \in Scanning
    <3>1. CASE ScanMain /\ ~Spawn /\ UNCHANGED sessionVars
      BY <3>1 DEF ScanMain, InitStateFails, SpawnFails, UnwindJoin, UnwindDone, AllSpawned,
         Join, Scanning
    <3>2. CASE Opened \/ OpenFails \/ ProbeFails \/ CreatePool \/ FreePool \/ ScanOutputFails
      BY <3>2 DEF Opened, OpenFails, ProbeFails, CreatePool, FreePool, ScanOutputFails, Failed,
         Scanning
    <3>3. CASE \/ NoInodesFile \/ NoNodes \/ FindFirstNode \/ FindFirstNodeFails \/ NodesDone
               \/ DeleteFolderFails
      BY <3>3 DEF NoInodesFile, NoNodes, FindFirstNode, FindFirstNodeFails, NodesDone,
         DeleteFolderFails, AllDeleted, Failed, Scanning
    <3> QED BY <1>2, <3>1, <3>2, <3>3
  <2>2. (FilterSteady' <=> FilterSteady) /\ (RangeInv' <=> RangeInv)
    BY <2>1 DEF FilterSteady, RangeInv, AtFirst, FirstRange
  <2> QED BY <1>d, <1>f, <2>1, <2>2 DEF OriginInv
<1>3. CASE StartSynthesis
  <2>1. /\ UNCHANGED <<vol, wrk, fdt, dump, asked, jobs, range, files>>
        /\ pc = "join" /\ pc' = "filter" /\ i' = 1
    BY <1>3 DEF StartSynthesis
  <2>2. list = << >>
    BY <2>1 DEF OriginInv, Scanning
  <2>3. FilterSteady /\ RangeInv
    BY <2>2 DEF FilterSteady, OriginInv
  <2>4. range = asked /\ jobs = << >>
    BY <2>2, <2>3 DEF RangeInv
  <2>5. RangeInv'
    BY <2>1, <2>4 DEF RangeInv, AtFirst
  <2>6. pc' \notin Scanning
    BY <2>1 DEF Scanning
  <2> QED BY <1>d, <1>f, <2>1, <2>3, <2>5, <2>6 DEF OriginInv
<1>4. CASE FilterFolder
  <2>1. /\ UNCHANGED <<vol, wrk, fdt, dump, asked, list, jobs, files>>
        /\ pc = "filter" /\ i <= Len(list) /\ range' = Verdict.range
        /\ (pc' = "round" /\ i' = i) \/ (pc' = "filter" /\ i' = i + 1)
    BY <1>4 DEF FilterFolder
  <2>2. i \in Nat \ {0} /\ list # << >> /\ ~AtFirst' /\ pc' \notin Scanning
    BY <1>0, <2>1 DEF BuildInv, AtFirst, Scanning
  <2>3. FilterSteady' <=> FilterSteady
    BY <2>1 DEF FilterSteady
  <2>4. ASSUME FilterSteady PROVE range' = FirstRange
    <3>1. CASE AtFirst
      BY <2>1, <2>4, <3>1 DEF OriginInv, RangeInv, AtFirst, Verdict, FirstRange
    <3>2. CASE ~AtFirst
      <4>1. range = FirstRange
        BY <2>2, <2>4, <3>2 DEF OriginInv, RangeInv
      <4> QED BY <1>0, <2>1, <2>2, <2>4, <4>1, RangeSteady DEF Verdict, FirstRange, FilterSteady
    <3> QED BY <3>1, <3>2
  <2>5. FirstRange' = FirstRange
    BY <2>1 DEF FirstRange
  <2>6. ASSUME FilterSteady PROVE RangeInv'
    BY <2>1, <2>2, <2>4, <2>5, <2>6 DEF RangeInv, OriginInv
  <2> QED BY <1>d, <1>f, <2>1, <2>2, <2>3, <2>6 DEF OriginInv
(* The rounds: new jobs get the range as it is. *)
<1>5. CASE FolderBuilt \/ ScanFolderFails \/ StartRound \/ AddJob \/ SkipName \/ AddJobFails \/ JoinJobs
  <2>1. /\ UNCHANGED <<vol, wrk, fdt, dump, asked, list, range, files>>
        /\ pc \in {"round", "jobs"} /\ pc' \in {"filter", "round", "jobs"}
        /\ pc' = "filter" => i' = i + 1
    BY <1>5 DEF FolderBuilt, ScanFolderFails, StartRound, AddJob, SkipName, AddJobFails, JoinJobs
  <2>2. i \in 1 .. Len(list)
    BY <1>0, <2>1 DEF BuildInv
  <2>3. list # << >> /\ ~AtFirst /\ ~AtFirst' /\ pc' \notin Scanning
    BY <1>0, <2>1, <2>2 DEF AtFirst, Scanning
  <2>4. (FilterSteady' <=> FilterSteady) /\ FirstRange' = FirstRange
    BY <2>1 DEF FilterSteady, FirstRange
  <2>5. ASSUME FilterSteady PROVE RangeInv'
    <3>1. range = FirstRange /\ \A n \in DOMAIN jobs : jobs[n].range = FirstRange
      BY <2>3, <2>5 DEF OriginInv, RangeInv
    <3>2. \A n \in DOMAIN jobs' : jobs'[n].range = FirstRange
      <4>1. CASE AddJob
        <5>1. jobs' = Append(jobs, NewJob) /\ jobs \in Seq(JobType)
          BY <1>0, <4>1 DEF AddJob, BuildInv
        <5>2. NewJob.range = FirstRange
          BY <3>1 DEF NewJob
        <5>3. \A n \in DOMAIN jobs' : (n \in DOMAIN jobs /\ jobs'[n] = jobs[n]) \/ jobs'[n] = NewJob
          <6> HIDE DEF NewJob
          <6> QED BY <5>1
        <5> QED BY <3>1, <5>2, <5>3
      <4>2. CASE ~AddJob
        <5>1. jobs' = jobs \/ jobs' = << >>
          BY <1>5, <4>2 DEF FolderBuilt, ScanFolderFails, StartRound, SkipName, AddJobFails, JoinJobs
        <5>2. CASE jobs' = << >>
          BY <5>2
        <5> QED BY <3>1, <5>1, <5>2
      <4> QED BY <4>1, <4>2
    <3> QED BY <2>1, <2>3, <2>4, <3>1, <3>2 DEF RangeInv
  <2> QED BY <1>d, <1>f, <2>1, <2>3, <2>4, <2>5 DEF OriginInv
<1>6. CASE AllFiltered \/ DeleteFolder
  <2>1. /\ UNCHANGED <<vol, wrk, fdt, asked, list, jobs, range, files>>
        /\ pc \in {"filter", "delete"} /\ pc' = "delete"
        /\ pc = "filter" => i > Len(list)
    BY <1>6 DEF AllFiltered, DeleteFolder
  <2>2. \A key \in Keys : dump'[key] \in {dump[key], None}
    BY <1>6 DEF AllFiltered, DeleteFolder
  <2>3. Separate(vol) => HoldInv' /\ DumpInv'
    BY <2>1, <2>2, DumpShrinks DEF OriginInv, HoldInv
  <2>4. (FilterSteady' <=> FilterSteady) /\ FirstRange' = FirstRange
    BY <2>1 DEF FilterSteady, FirstRange
  <2>5. AtFirst => list = << >>
    BY <1>0, <2>1 DEF AtFirst
  <2>6. ASSUME FilterSteady PROVE RangeInv'
    BY <2>1, <2>4, <2>5, <2>6 DEF OriginInv, RangeInv, AtFirst
  <2>7. pc' \notin Scanning
    BY <2>1 DEF Scanning
  <2> QED BY <1>f, <2>1, <2>3, <2>4, <2>6, <2>7 DEF OriginInv
<1>7. CASE ExtractNode \/ ExtractNodeFails
  <2>1. /\ UNCHANGED <<vol, wrk, fdt, dump, asked, list, jobs, range>>
        /\ pc = "nodes" /\ pc' = "nodes"
        /\ \A p \in Places : files'[p] = files[p] \/
             \E item \in InlineItems : item.ino = p[1] /\ item.ver = files'[p]
    BY <1>0, <1>7, NodeStep DEF BuildInv
  <2>3. ASSUME FilesInv PROVE FilesInv'
    BY <2>1, <2>3 DEF FilesInv, Right
  <2>4. (FilterSteady' <=> FilterSteady) /\ (RangeInv' <=> RangeInv)
    BY <2>1 DEF FilterSteady, RangeInv, AtFirst, FirstRange
  <2>5. pc' \notin Scanning
    BY <2>1 DEF Scanning
  <2> QED BY <1>d, <2>1, <2>3, <2>4, <2>5 DEF OriginInv
<1> QED BY <1>1, <1>2, <1>3, <1>4, <1>5, <1>6, <1>7 DEF Main

LEMMA NextOrigin == SessionInv /\ OriginInv /\ [Next]_vars => OriginInv'
<1> SUFFICES ASSUME SessionInv, OriginInv, [Next]_vars PROVE OriginInv'
  OBVIOUS
<1>1. ASSUME NEW t \in Workers, ScanStep(t) PROVE OriginInv'
  BY <1>1, WorkerOrigin
<1>2. ASSUME NEW j \in DOMAIN jobs, Job(j) PROVE OriginInv'
  BY <1>2, JobOrigin
<1>3. CASE UNCHANGED vars
  <2>1. UNCHANGED <<vol, wrk, fdt, dump, pc, i, asked, list, jobs, range, files>>
    BY <1>3 DEF vars, scanVars, buildVars, outVars
  <2>2. /\ (FilterSteady' <=> FilterSteady) /\ (RangeInv' <=> RangeInv)
        /\ (FilesInv' <=> FilesInv) /\ (HoldInv' <=> HoldInv) /\ (DumpInv' <=> DumpInv)
    BY <2>1 DEF FilterSteady, RangeInv, AtFirst, FirstRange, FilesInv, HoldInv, DumpInv
  <2> QED BY <2>1, <2>2 DEF OriginInv
<1> QED BY <1>1, <1>2, <1>3, MainOrigin DEF Next, Step, Spin, Done

-----------------------------------------------------------------------------
(* On the volumes and for the time ranges that NothingInvented names,      *)
(* recoverfs.ssdfs never puts anything into a file but a whole block that  *)
(* a log in the time range has for that place, or an inline file: for any  *)
(* number of workers that share the table of descriptors, of fragments and *)
(* of portions, in any interleaving, whatever fails on the way.            *)
THEOREM RecoverNothingInvented == Spec => []NothingInvented
<1>1. OriginInv => NothingInvented
  <2>1. Logs = LogsOf(vol) /\ (\A l : HeaderOf(l) = HeaderIn(vol, l))
    BY DEF Logs, LogsOf, HeaderOf, HeaderIn
  <2>2. \A l : Descriptors(l) = DescriptorsIn(vol, l)
    BY DEF Descriptors, DescriptorsIn, HeaderOf, HeaderIn
  <2> SUFFICES ASSUME OriginInv, TablesInFolders, FirstChecksums, NoStaleDescriptor,
                      FilterSteady, NEW p \in Places, files[p] # None
               PROVE  \/ \E v \in Versions(p) : v[2] = files[p]
                      \/ \E item \in InlineItems : item.ino = p[1] /\ item.ver = files[p]
    BY DEF NothingInvented
  <2>3. Separate(vol)
    BY <2>1, <2>2 DEF Separate, NoStaleDescriptor, TablesInFolders, TablesInFoldersOf,
       FirstChecksums, FirstChecksumsOf
  <2>4. Right(vol, asked, p, files[p])
    BY <2>3 DEF OriginInv, FilesInv
  <2>5. ASSUME NEW time \in Times, InsideRange(asked, Now, Cal[time]).in,
               Source(vol, time, p, files[p])
        PROVE  \E v \in Versions(p) : v[2] = files[p]
    <3>1. PICK l \in LogsOf(vol) :
            /\ ~WithoutFolder(HeaderIn(vol, l)) /\ HeaderIn(vol, l).time = time
            /\ \E d \in DescriptorsIn(vol, l) :
                 Intact(d) /\ d.ino = p[1] /\ d.off = p[2] /\ d.ver = files[p]
      BY <2>5 DEF Source
    <3>2. PICK d \in Descriptors(l) : Intact(d) /\ d.ino = p[1] /\ d.off = p[2] /\ d.ver = files[p]
      BY <2>2, <3>1
    <3>3. /\ l \in Logs /\ ~WithoutFolder(HeaderOf(l)) /\ HeaderOf(l).time = time
          /\ Accepted(HeaderOf(l).time)
      BY <2>1, <2>5, <3>1 DEF Accepted
    <3>4. <<time, files[p]>> \in Versions(p)
      BY <3>2, <3>3 DEF Versions
    <3> QED BY <3>4
  <2> QED BY <2>4, <2>5 DEF Right
<1> QED BY <1>1, InitSession, NextSession, InitOrigin, NextOrigin, PTL DEF Spec

=============================================================================
