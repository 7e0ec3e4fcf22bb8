---------------------------- MODULE SbChainProof ----------------------------
(***************************************************************************)
(* Proofs about the search of the superblock segment, for every number of  *)
(* PEBs and whatever pointers the headers hold.                            *)
(***************************************************************************)
EXTENDS SbChain, TLAPS, FiniteSetTheorems

Sbs == { p \in Pebs : IsSb(p) }

ChainTypes ==
  /\ base \in [type : {"snapshot", "other", "unreadable"}, cur : Pointers,
               next : Pointers, reserved : Pointers]
  /\ image \in [Pebs \ {0} -> [type : {"sb", "other", "unreadable"}, next : Pointers]]
  /\ cand \in Slots
  /\ tries \in Nat

(* The candidates before the one being tried hold no superblock segment. *)
CandInv ==
  /\ pc = "base" => cand = "cur"
  /\ pc = "start" =>
       /\ cand # "cur" => ~IsSb(base.cur)
       /\ cand = "reserved" => ~IsSb(base.next)

(***************************************************************************)
(* V is what the loop has visited in n hops: superblock segments that the  *)
(* pointers lead to, the last of them "at".  Either it has met a segment   *)
(* twice, and then no pointer of V leads out of V, or every hop has found  *)
(* one more.                                                               *)
(***************************************************************************)
Visited(V, at, n) ==
  /\ V \subseteq Sbs
  /\ base[StartSlot] \in V
  /\ at \in V
  /\ \A S \in SUBSET Pointers : base[StartSlot] \in S /\ Closed(S) => V \subseteq S
  /\ \A p \in V \ {at} : image[p].next \in V
  /\ image[at].next \in V \/ Cardinality(V) = n + 1

ChainInv ==
  /\ ChainTypes
  /\ CandInv
  /\ pc \in {"base", "start"} => log = NoPeb /\ tries = 0
  /\ pc = "chain" => (tries = 0 => log = base[StartSlot] /\ cand = StartSlot)
  /\ pc = "chain" => \E V \in SUBSET Sbs : Visited(V, log, tries)
  /\ ChainEndFound

-----------------------------------------------------------------------------
LEMMA SbsBound ==
  /\ IsFiniteSet(Sbs)
  /\ \A V \in SUBSET Sbs : /\ IsFiniteSet(V)
                           /\ Cardinality(V) \in Nat
                           /\ Cardinality(V) < PebsCount
<1>1. 1 .. PebsCount - 1 \in SUBSET Nat /\ PebsCount - 1 \in Nat
  BY SbChainAssumption
<1>2. IsFiniteSet(1 .. PebsCount - 1) /\ Cardinality(1 .. PebsCount - 1) = PebsCount - 1
  BY <1>1, SbChainAssumption, FS_Interval
<1>3. Sbs \subseteq 1 .. PebsCount - 1
  BY SbChainAssumption DEF Sbs, IsSb, Pebs
<1>4. IsFiniteSet(Sbs)
  BY <1>2, <1>3, FS_Subset
<1>5. ASSUME NEW V \in SUBSET Sbs
      PROVE  IsFiniteSet(V) /\ Cardinality(V) \in Nat /\ Cardinality(V) < PebsCount
  <2>1. V \subseteq 1 .. PebsCount - 1
    BY <1>3
  <2>2. IsFiniteSet(V) /\ Cardinality(V) <= PebsCount - 1
    BY <1>2, <2>1, FS_Subset
  <2>3. Cardinality(V) \in Nat
    BY <2>2, FS_CardinalityType
  <2> QED
    BY <2>2, <2>3, SbChainAssumption
<1> QED
  BY <1>4, <1>5

LEMMA ImageFields ==
  ASSUME ChainTypes
  PROVE  /\ \A p \in Sbs : image[p].next \in Pointers
         /\ Sbs \subseteq Pointers
         /\ \A p \in Pointers : p \notin Sbs => ~IsSb(p)
         /\ base.cur \in Pointers /\ base.next \in Pointers /\ base.reserved \in Pointers
<1>1. Pebs \subseteq Pointers
  BY SbChainAssumption DEF Pebs, Pointers, NoPeb
<1>2. ASSUME NEW p \in Sbs
      PROVE  image[p].next \in Pointers
  <2>1. p \in Pebs \ {0}
    BY DEF Sbs, IsSb
  <2> QED
    BY <2>1 DEF ChainTypes
<1>3. base.cur \in Pointers /\ base.next \in Pointers /\ base.reserved \in Pointers
  BY DEF ChainTypes
<1> QED
  BY <1>1, <1>2, <1>3 DEF Sbs, IsSb

(* FindSegment succeeds exactly on the superblock segments. *)
LEMMA FindSucceeds ==
  ASSUME ChainTypes, NEW p \in Pointers
  PROVE  (FindSegment(p) = "success") = IsSb(p)
<1>1. /\ Pebs = 0 .. PebsCount - 1
      /\ Beyond \notin Pebs /\ NoPeb \notin Pebs
      /\ p \in Pebs \/ p = Beyond \/ p = NoPeb
      /\ Beyond # NoPeb
  BY SbChainAssumption DEF Pebs, Beyond, NoPeb, Pointers
<1>2. CASE p \in {NoPeb, Beyond, 0}
  BY <1>1, <1>2 DEF FindSegment, IsSb
<1>3. CASE p \in Pebs \ {0}
  <2>1. p # NoPeb /\ p # Beyond /\ p # 0
    BY <1>1, <1>3
  <2> QED
    BY <1>3, <2>1 DEF FindSegment, IsSb
<1> QED
  BY <1>1, <1>2, <1>3

(* What the loop has visited is the chain, when no pointer leads on to a   *)
(* superblock segment outside of it.                                       *)
LEMMA VisitedIsChain ==
  ASSUME ChainTypes, NEW V \in SUBSET Sbs, NEW at, NEW n, Visited(V, at, n),
         image[at].next \in V \/ ~IsSb(image[at].next)
  PROVE  Chain(base[StartSlot]) = V
<1> DEFINE T == V \cup {image[at].next}
<1>1. at \in Sbs /\ V \subseteq Pointers /\ image[at].next \in Pointers
  BY ImageFields DEF Visited
<1>2. Closed(T)
  <2> SUFFICES ASSUME NEW p \in T, IsSb(p)
               PROVE  image[p].next \in T
    BY DEF Closed
  <2> QED
    BY DEF Visited
<1>3. T \in SUBSET Pointers /\ base[StartSlot] \in T
  BY <1>1 DEF Visited
<1>4. ASSUME NEW p \in Chain(base[StartSlot])
      PROVE  p \in V
  <2>1. IsSb(p) /\ p \in T
    BY <1>2, <1>3 DEF Chain
  <2> QED
    BY <2>1
<1>5. ASSUME NEW p \in V
      PROVE  p \in Chain(base[StartSlot])
  <2>1. p \in Pebs /\ IsSb(p)
    BY DEF Sbs
  <2> QED
    BY <2>1 DEF Chain, Visited
<1> QED
  BY <1>4, <1>5

LEMMA InitChain == Init => ChainInv
<1> SUFFICES ASSUME Init PROVE ChainInv
  OBVIOUS
<1>1. NoPeb \in Pointers
  BY SbChainAssumption DEF NoPeb, Pointers
<1>2. ChainTypes
  <2>1. base \in [type : {"snapshot", "other", "unreadable"}, cur : Pointers,
                  next : Pointers, reserved : Pointers]
    BY <1>1 DEF Init
  <2>2. image \in [Pebs \ {0} -> [type : {"sb", "other", "unreadable"}, next : Pointers]]
    BY <1>1 DEF Init, Images
  <2> QED
    BY <2>1, <2>2 DEF Init, ChainTypes, Slots
<1> QED
  BY <1>2 DEF Init, ChainInv, CandInv, ChainEndFound

-----------------------------------------------------------------------------
(* The steps *)

(* No step changes what is on the device. *)
LEMMA SameDevice ==
  ASSUME base' = base, image' = image
  PROVE  /\ Sbs' = Sbs
         /\ \A p : IsSb(p)' = IsSb(p)
         /\ StartSlot' = StartSlot
         /\ \A S : Closed(S)' = Closed(S)
         /\ \A p : Chain(p)' = Chain(p)
         /\ \A c : Ends(c)' = Ends(c)
         /\ \A V, at, n : Visited(V, at, n)' = Visited(V, at, n)
<1>1. Sbs' = Sbs /\ \A p : IsSb(p)' = IsSb(p)
  BY DEF Sbs, IsSb
<1>2. StartSlot' = StartSlot /\ \A S : Closed(S)' = Closed(S)
  BY DEF StartSlot, Closed, IsSb
<1>3. \A c : Ends(c)' = Ends(c)
  BY DEF Ends
<1>4. \A p : Chain(p)' = Chain(p)
  BY DEF Chain, Closed, IsSb
<1>5. \A V, at, n : Visited(V, at, n)' = Visited(V, at, n)
  BY <1>1, <1>2 DEF Visited
<1> QED
  BY <1>1, <1>2, <1>3, <1>4, <1>5

(* The slot being tried is where the chain starts, when it holds a         *)
(* superblock segment.                                                     *)
LEMMA CandIsStart ==
  ASSUME ChainTypes, CandInv, pc = "start", IsSb(base[cand])
  PROVE  cand = StartSlot
<1>1. CASE cand = "cur"
  BY <1>1 DEF StartSlot
<1>2. CASE cand = "next"
  BY <1>2 DEF StartSlot, CandInv
<1>3. CASE cand = "reserved"
  BY <1>3 DEF StartSlot, CandInv
<1> QED
  BY <1>1, <1>2, <1>3 DEF ChainTypes, Slots

LEMMA TryStep ==
  ASSUME ChainInv, TryCandidate
  PROVE  ChainInv'
<1> DEFINE peb == base[cand]
<1>1. pc = "start" /\ log = NoPeb /\ tries = 0 /\ ChainTypes /\ CandInv
  BY DEF TryCandidate, ChainInv
<1>2. base' = base /\ image' = image /\ tries' = tries
  BY DEF TryCandidate
<1>3. peb \in Pointers
  <2>1. cand \in {"cur", "next", "reserved"}
    BY <1>1 DEF ChainTypes, Slots
  <2>2. peb = base.cur \/ peb = base.next \/ peb = base.reserved
    BY <2>1
  <2> QED
    BY <1>1, <2>2, ImageFields
<1>4. CASE FindSegment(peb) = "success"
  <2>1. log' = peb /\ pc' = "chain" /\ cand' = cand
    BY <1>4 DEF TryCandidate
  <2>2. IsSb(peb)
    BY <1>1, <1>3, <1>4, FindSucceeds
  <2>3. cand = StartSlot
    BY <1>1, <2>2, CandIsStart
  <2>4. {peb} \in SUBSET Sbs
    BY <2>2 DEF Sbs, IsSb
  <2>5. Cardinality({peb}) = tries + 1
    <3>1. Cardinality({peb}) = 1
      BY FS_Singleton
    <3> QED
      BY <1>1, <3>1
  <2>6. Visited({peb}, log', tries')
    BY <1>2, <2>1, <2>3, <2>4, <2>5 DEF Visited
  <2>7. ChainTypes' /\ CandInv'
    BY <1>1, <1>2, <2>1, SameDevice DEF ChainTypes, CandInv
  <2>8. log' = base[StartSlot]' /\ cand' = StartSlot'
    BY <1>2, <2>1, <2>3, SameDevice
  <2>9. (\E V \in SUBSET Sbs : Visited(V, log, tries))'
    BY <1>2, <2>4, <2>6, SameDevice
  <2> QED
    BY <2>1, <2>7, <2>8, <2>9 DEF ChainInv, ChainEndFound
<1>5. CASE FindSegment(peb) = "not_found" /\ cand # "reserved"
  <2>1. cand' = NextSlot(cand) /\ pc' = pc /\ log' = log
    BY <1>5 DEF TryCandidate
  <2>2. ~IsSb(peb)
    BY <1>1, <1>3, <1>5, FindSucceeds
  <2>3. cand \in {"cur", "next"}
    BY <1>1, <1>5 DEF ChainTypes, Slots
  <2>4. ChainTypes'
    BY <1>1, <1>2, <2>1 DEF ChainTypes, NextSlot, Slots
  <2>5. CandInv'
    BY <1>1, <1>2, <2>1, <2>2, <2>3, SameDevice DEF CandInv, NextSlot
  <2> QED
    BY <1>1, <1>2, <2>1, <2>4, <2>5 DEF ChainInv, ChainEndFound, NoPeb
<1>6. CASE pc' \in {"done", "spin"} /\ log' = log /\ cand' = cand
  <2>1. ChainTypes'
    BY <1>1, <1>2, <1>6 DEF ChainTypes
  <2> QED
    BY <1>1, <1>6, <2>1 DEF ChainInv, CandInv, ChainEndFound, NoPeb
<1> QED
  BY <1>4, <1>5, <1>6 DEF TryCandidate, Finish

LEMMA FollowStep ==
  ASSUME ChainInv, FollowChain
  PROVE  ChainInv'
<1>1. pc = "chain" /\ ChainTypes /\ CandInv
  BY DEF FollowChain, ChainInv
<1>2. PICK V \in SUBSET Sbs : Visited(V, log, tries)
  BY <1>1 DEF ChainInv
<1>3. /\ base' = base /\ image' = image /\ cand' = cand /\ tries' = tries + 1
      /\ log' = image[log].next
      /\ FindSegment(log') = "success"
  BY DEF FollowChain
<1>4. log \in Sbs /\ log' \in Pointers /\ log' \in Sbs
  <2>1. log \in Sbs
    BY <1>2 DEF Visited
  <2>2. log' \in Pointers
    BY <1>1, <1>3, <2>1, ImageFields
  <2> QED
    BY <1>1, <1>3, <2>1, <2>2, FindSucceeds DEF Sbs, IsSb
<1>5. tries \in Nat
  BY <1>1 DEF ChainTypes
<1> DEFINE W == V \cup {log'}
<1>6. W \in SUBSET Sbs
  BY <1>4
<1>7. \A S \in SUBSET Pointers : base[StartSlot] \in S /\ Closed(S) => W \subseteq S
  <2> SUFFICES ASSUME NEW S \in SUBSET Pointers, base[StartSlot] \in S, Closed(S)
               PROVE  log' \in S
    BY <1>2 DEF Visited
  <2>1. log \in S
    BY <1>2 DEF Visited
  <2> QED
    BY <1>3, <1>4, <2>1 DEF Closed, Sbs
<1>8. \A p \in V : image[p].next \in W
  BY <1>2, <1>3 DEF Visited
<1>9. \/ image[log'].next \in W
      \/ Cardinality(W) = tries + 2
  <2>1. CASE log' \in V
    BY <1>8, <2>1
  <2>2. CASE log' \notin V
    <3>1. Cardinality(V) = tries + 1
      BY <1>2, <1>3, <2>2 DEF Visited
    <3>2. IsFiniteSet(V) /\ Cardinality(V) \in Nat
      BY SbsBound
    <3>3. Cardinality(W) = Cardinality(V) + 1
      BY <2>2, <3>2, FS_AddElement
    <3> QED
      BY <1>5, <3>1, <3>3
  <2> QED
    BY <2>1, <2>2
<1> HIDE DEF W
<1>10. Visited(W, log', tries')
  <2>1. base[StartSlot] \in W /\ log' \in W /\ \A p \in W \ {log'} : image[p].next \in W
    BY <1>2, <1>8 DEF Visited, W
  <2>2. tries' + 1 = tries + 2
    BY <1>3, <1>5
  <2> QED
    BY <1>6, <1>7, <1>9, <2>1, <2>2 DEF Visited
<1>11. ChainTypes' /\ CandInv' /\ tries' # 0
  <2>1. pc' \in {"chain", "done"}
    BY <1>1 DEF FollowChain, Finish
  <2> QED
    BY <1>1, <1>3, <1>5, <2>1 DEF ChainTypes, CandInv
<1>12. CASE ~TooManyTries(tries + 1)
  <2>1. pc' = "chain"
    BY <1>1, <1>12 DEF FollowChain
  <2>2. (\E X \in SUBSET Sbs : Visited(X, log, tries))'
    BY <1>3, <1>6, <1>10, SameDevice
  <2> QED
    BY <1>11, <2>1, <2>2 DEF ChainInv, ChainEndFound
<1>13. CASE TooManyTries(tries + 1)
  <2>1. pc' = "done" /\ res' = "failure"
    BY <1>13 DEF FollowChain, Finish
  <2>2. image[log'].next \in W
    <3>1. tries + 1 >= PebsCount
      BY <1>13 DEF TooManyTries
    <3>2. Cardinality(W) \in Nat /\ Cardinality(W) < PebsCount
      BY <1>6, SbsBound
    <3> QED
      BY <1>5, <1>9, <3>1, <3>2, SbChainAssumption
  <2>3. Chain(base[StartSlot]) = W
    BY <1>1, <1>6, <1>10, <2>2, VisitedIsChain
  <2>4. Ends(W) = {}
    BY <1>10, <2>2 DEF Visited, Ends
  <2>5. Chain(base[StartSlot])' = W /\ Ends(Chain(base[StartSlot]))' = {}
    BY <1>3, <2>3, <2>4, SameDevice
  <2> QED
    BY <1>11, <2>1, <2>5 DEF ChainInv, ChainEndFound
<1> QED
  BY <1>12, <1>13

LEMMA EndStep ==
  ASSUME ChainInv, EndOfChain
  PROVE  ChainInv'
<1>1. pc = "chain" /\ ChainTypes
  BY DEF EndOfChain, ChainInv
<1>2. PICK V \in SUBSET Sbs : Visited(V, log, tries)
  BY <1>1 DEF ChainInv
<1>3. /\ base' = base /\ image' = image /\ cand' = cand /\ tries' = tries + 1
      /\ log' = log /\ pc' = "done"
      /\ res' = (IF TooManyTries(tries + 1) THEN "failure" ELSE "success")
      /\ FindSegment(image[log].next) # "success"
  BY DEF EndOfChain, Finish
<1>4. log \in V /\ log \in Sbs
  BY <1>2 DEF Visited
<1>5. ~IsSb(image[log].next)
  <2>1. image[log].next \in Pointers
    BY <1>1, <1>4, ImageFields
  <2> QED
    BY <1>1, <1>3, <2>1, FindSucceeds
<1>6. image[log].next \notin V
  BY <1>5 DEF Sbs
<1>7. Chain(base[StartSlot]) = V
  BY <1>1, <1>2, <1>5, VisitedIsChain
<1>8. log \in Ends(V)
  BY <1>4, <1>6 DEF Ends
<1>9. res' = "success"
  <2>1. Cardinality(V) = tries + 1
    BY <1>2, <1>6 DEF Visited
  <2>2. Cardinality(V) \in Nat /\ Cardinality(V) < PebsCount
    BY SbsBound
  <2>3. ~TooManyTries(tries + 1)
    BY <2>1, <2>2, SbChainAssumption DEF TooManyTries
  <2> QED
    BY <1>3, <2>3
<1>10. ChainTypes'
  BY <1>1, <1>3 DEF ChainTypes
<1>11. ChainEndFound'
  <2>1. Chain(base[StartSlot])' = V /\ Ends(V)' = Ends(V)
    BY <1>3, <1>7, SameDevice
  <2> QED
    BY <1>3, <1>8, <1>9, <2>1 DEF ChainEndFound
<1> QED
  BY <1>3, <1>10, <1>11 DEF ChainInv, CandInv

LEMMA NextChain == ChainInv /\ [Next]_vars => ChainInv'
<1> SUFFICES ASSUME ChainInv, [Next]_vars PROVE ChainInv'
  OBVIOUS
<1>1. CASE ReadBase
  <2>1. ChainTypes'
    BY <1>1 DEF ReadBase, ChainInv, ChainTypes
  <2>2. log' = log /\ log = NoPeb /\ tries' = tries /\ tries = 0 /\ cand' = cand
    BY <1>1 DEF ReadBase, ChainInv
  <2>3. pc' \in {"start", "done"} /\ cand = "cur"
    BY <1>1 DEF ReadBase, Finish, ChainInv, ChainTypes, CandInv
  <2>4. ChainEndFound'
    BY <2>2 DEF ChainEndFound
  <2>5. CandInv'
    BY <2>2, <2>3 DEF CandInv
  <2> QED
    BY <2>1, <2>2, <2>3, <2>4, <2>5 DEF ChainInv
<1>2. CASE ChainBeyondEnd
  BY <1>2 DEF ChainBeyondEnd, ChainInv, ChainTypes, CandInv, ChainEndFound
<1>3. CASE UNCHANGED vars
  <2>1. /\ base' = base /\ image' = image /\ pc' = pc /\ cand' = cand
        /\ log' = log /\ tries' = tries /\ res' = res
    BY <1>3 DEF vars
  <2>2. ChainTypes' /\ CandInv' /\ ChainEndFound'
    BY <2>1, SameDevice DEF ChainInv, ChainTypes, CandInv, ChainEndFound
  <2> QED
    BY <2>1, <2>2, SameDevice DEF ChainInv
<1> QED
  BY <1>1, <1>2, <1>3, TryStep, FollowStep, EndStep DEF Next, Idle

LEMMA ChainInvariant == Spec => []ChainInv
  BY InitChain, NextChain, PTL DEF Spec

(* Whatever the headers name, the search of __is_superblock_segment_found  *)
(* ends on the last superblock segment of the chain, and with a failure    *)
(* when the chain has none: pebs_per_volume tries are neither too few for  *)
(* a chain without a cycle nor can one with a cycle pass them.             *)
THEOREM SbChainEndFound == Spec => []ChainEndFound
<1>1. ChainInv => ChainEndFound
  BY DEF ChainInv
<1> QED
  BY <1>1, ChainInvariant, PTL

(* The chain starts at the first of the three PEBs the base snapshot names *)
(* that holds a superblock segment.                                        *)
THEOREM SbChainStart == Spec => []OldestCandidateLast
<1>1. ChainInv => OldestCandidateLast
  BY DEF ChainInv, OldestCandidateLast
<1> QED
  BY <1>1, ChainInvariant, PTL
=============================================================================
