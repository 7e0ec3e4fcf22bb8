-------------------------- MODULE MkfsCreateProof --------------------------
(***************************************************************************)
(* Proofs about a session of mkfs.ssdfs: whatever the options, the device  *)
(* and the user's answers are, nothing is written before the checks that   *)
(* protect what the device holds, and status 0 means that the volume was   *)
(* written or was not to be; the extents of every log keep clear of each   *)
(* other, its tables lead to each block, and the segment bitmap covers the *)
(* volume and is where the volume header says.                             *)
(***************************************************************************)
EXTENDS MkfsCreate, WellFoundedInduction, FiniteSetTheorems, TLAPS

(* The checks that the control has behind it at step pc.  "written" says   *)
(* something else than "none" only when mkfs has ended in the last step.   *)
ConsentInv ==
  /\ pc \in 1 .. Len(Steps)
  /\ DOMAIN host = {"mounted", "found", "answer"}
  /\ pc > 4 => ~host.mounted
  /\ pc > 5 => layout.force \/ host.found # "signature" \/ host.answer = "yes"
  /\ written # "none" => pc > 5
  /\ status = "running" => written = "none"
  /\ status = "exit0" =>
       written = "all" \/ host.mounted \/ host.answer = "no" \/ Given(opt, "help")

(* Where the steps of a session are that are not passes over the           *)
(* structures.                                                             *)
LEMMA StepPlaces ==
  /\ Len(Steps) = 24
  /\ Steps[1] = "parse" /\ Steps[2] = "open" /\ Steps[3] = "validate"
  /\ Steps[4] = "mounted" /\ Steps[5] = "overwrite" /\ Steps[24] = "write"
  /\ \A n \in 1 .. 24 :
       /\ Steps[n] = "parse" => n = 1
       /\ Steps[n] = "open" => n = 2
       /\ Steps[n] = "validate" => n = 3
       /\ Steps[n] = "mounted" => n = 4
       /\ Steps[n] = "overwrite" => n = 5
       /\ Steps[n] = "write" => n = 24
  BY DEF Steps

(* A step of the four passes over the structures: it ends mkfs in an error *)
(* or goes on to the next step, and nothing is written.                    *)
Passes ==
  /\ status = "running"
  /\ Steps[pc] \notin {"parse", "open", "validate", "mounted", "overwrite", "write"}
  /\ \/ Ends("exit1")
     \/ Ends("died")
     \/ Done /\ UNCHANGED <<host, written>>

LEMMA PrepareOrValidate ==
  ASSUME AllocSegsArray \/ NoMemory \/ Prepare \/ Validate
  PROVE  Passes
<1> USE DEF Passes, At
<1>1. CASE AllocSegsArray
  BY <1>1 DEF AllocSegsArray
<1>2. CASE NoMemory
  BY <1>2 DEF NoMemory
<1>3. CASE Prepare
  BY <1>3 DEF Prepare, PrepareSnapshot, PrepareSuperblock, PrepareSegbmap, PrepareMaptbl
<1>4. CASE Validate
  BY <1>4 DEF Validate, ValidateSuperblock, ValidateSegbmap, ValidateMaptbl, ValidateUserData
<1> QED BY <1>1, <1>2, <1>3, <1>4

LEMMA DefineOrCommit ==
  ASSUME Define \/ CommitAll
  PROVE  Passes
<1> USE DEF Passes, At
<1>1. CASE DefineSnapshot \/ DefineSuperblock \/ DefineUserData
  BY <1>1 DEF DefineSnapshot, DefineSuperblock, DefineUserData
<1>2. CASE DefineSegbmap \/ DefineMaptbl
  <2>1. \A s, l, given, missing : DefineTable(s, l, given, missing) =>
          Ends("exit1") \/ Ends("died") \/ (Done /\ UNCHANGED <<host, written>>)
    BY DEF DefineTable
  <2> QED BY <1>2, <2>1 DEF DefineSegbmap, DefineMaptbl
<1>3. CASE CommitAll
  <2>1. \A s, l : Commit(s, l) => Ends("died") \/ (Done /\ UNCHANGED <<host, written>>)
    BY DEF Commit
  <2> QED
    BY <1>3, <2>1 DEF CommitAll, CommitSnapshot, CommitSuperblock, CommitSegbmap, CommitMaptbl
<1> QED BY <1>1, <1>2, <1>3 DEF Define

LEMMA InitConsent == Init => ConsentInv
  BY StepPlaces DEF Init, ConsentInv

LEMMA NextConsent == ConsentInv /\ [Next]_vars => ConsentInv'
<1> SUFFICES ASSUME ConsentInv, [Next]_vars PROVE ConsentInv'
  OBVIOUS
<1> USE StepPlaces DEF ConsentInv, layout
<1>1. CASE Passes
  <2>1. pc \in 6 .. 23
    BY <1>1 DEF Passes
  <2> QED BY <1>1, <2>1 DEF Passes, Ends, Done, inputs
<1>2. CASE ParseOptions
  BY <1>2 DEF ParseOptions, At, Ends, Done, inputs
<1>3. CASE OpenDevice
  BY <1>3 DEF OpenDevice, At, Ends, Done, inputs
<1>4. CASE ValidateOptions
  BY <1>4 DEF ValidateOptions, At, Ends, Done, inputs
<1>5. CASE IsDeviceMounted
  BY <1>5 DEF IsDeviceMounted, At, Done, inputs
<1>6. CASE ProbeDevice
  BY <1>6 DEF ProbeDevice, At, Done, inputs
<1>7. CASE AnswerQuestion
  BY <1>7 DEF AnswerQuestion, At, Done, inputs, vars
<1>8. CASE WriteDevice
  BY <1>8 DEF WriteDevice, At, inputs
<1>9. CASE UNCHANGED vars
  BY <1>9 DEF vars
<1> QED
  BY <1>1, <1>2, <1>3, <1>4, <1>5, <1>6, <1>7, <1>8, <1>9, PrepareOrValidate, DefineOrCommit
     DEF Next, Session

(* mkfs.ssdfs writes to a device only when it was not mounted and the user *)
(* agreed or asked to overwrite what was seen on it, and ends with success *)
(* only when the whole volume was written or it was not to be written:     *)
(* for every command line, device and order of answers.                    *)
THEOREM MkfsWrittenByConsent == Spec => []WrittenByConsent
<1>1. ConsentInv => WrittenByConsent
  BY DEF ConsentInv, WrittenByConsent
<1> QED
  BY <1>1, InitConsent, NextConsent, PTL DEF Spec

-----------------------------------------------------------------------------
(* Arithmetic. *)

LEMMA DivisionInt ==
  ASSUME NEW a \in Int, NEW b \in Int, b > 0
  PROVE  a = b * (a \div b) + (a % b)
  BY SMT

LEMMA DivMod ==
  ASSUME NEW a \in Nat, NEW b \in Nat \ {0}
  PROVE  /\ a \div b \in Nat
         /\ a % b \in 0 .. b - 1
         /\ a = b * (a \div b) + (a % b)
         /\ a = (a \div b) * b + (a % b)
<1>1. a % b \in 0 .. b - 1
  BY SMT
<1>2. a = b * (a \div b) + (a % b)
  BY DivisionInt
<1>3. a \div b \in Int
  BY SMT
<1>4. a \div b >= 0
  BY <1>1, <1>2, <1>3, SMT
<1>5. \A q \in Nat : b * q = q * b
  BY SMT
<1> QED BY <1>1, <1>2, <1>3, <1>4, <1>5

(* A quotient is determined by the multiple it stands below. *)
LEMMA Quotient ==
  ASSUME NEW a \in Nat, NEW b \in Nat \ {0}, NEW q \in Nat, NEW r \in 0 .. b - 1, a = q * b + r
  PROVE  a \div b = q /\ a % b = r
<1> DEFINE p == a \div b
           s == a % b
<1>1. p \in Nat /\ s \in 0 .. b - 1 /\ a = p * b + s
  BY DivMod
<1> HIDE DEF p, s
<1>2. ~(p < q)
  <2>1. p < q => p * b + b <= q * b
    BY <1>1, SMT
  <2> QED BY <1>1, <2>1, SMT
<1>3. ~(q < p)
  <2>1. q < p => q * b + b <= p * b
    BY <1>1, SMT
  <2> QED BY <1>1, <2>1, SMT
<1>4. p = q
  BY <1>1, <1>2, <1>3
<1>5. s = r
  BY <1>1, <1>4, SMT
<1> QED BY <1>4, <1>5 DEF p, s

LEMMA CeilDivIs ==
  ASSUME NEW a \in Nat, NEW b \in Nat \ {0}
  PROVE  /\ CeilDiv(a, b) \in Nat
         /\ a <= CeilDiv(a, b) * b
         /\ CeilDiv(a, b) * b < a + b
         /\ CeilDiv(a, b) * b \in Nat
         /\ a > 0 => CeilDiv(a, b) > 0
<1> DEFINE q == (a + b - 1) \div b
           r == (a + b - 1) % b
<1>1. a + b - 1 \in Nat
  OBVIOUS
<1>2. q \in Nat /\ r \in 0 .. b - 1 /\ a + b - 1 = b * q + r
  BY <1>1, DivMod
<1> HIDE DEF q, r
<1>3. q * b \in Nat /\ b * q = q * b
  BY <1>2, SMT
<1>4. a <= q * b /\ q * b < a + b
  BY <1>2, <1>3
<1>5. a > 0 => q > 0
  <2>1. q = 0 => q * b = 0
    BY <1>2, SMT
  <2> QED BY <1>2, <1>4, <2>1
<1> QED BY <1>2, <1>3, <1>4, <1>5 DEF CeilDiv, q

(* CeilDiv is the least number of parts. *)
LEMMA CeilDivLeast ==
  ASSUME NEW a \in Nat, NEW b \in Nat \ {0}, NEW n \in Nat, a <= n * b
  PROVE  CeilDiv(a, b) <= n
<1> DEFINE c == CeilDiv(a, b)
<1>1. c \in Nat /\ c * b < a + b
  BY CeilDivIs
<1> HIDE DEF c
<1>2. c > n => c * b >= n * b + b
  BY <1>1, SMT
<1>3. n * b \in Nat /\ c * b \in Nat
  BY <1>1, SMT
<1>4. ~(c > n)
  BY <1>1, <1>2, <1>3
<1> QED BY <1>1, <1>4 DEF c

LEMMA RoundUpIs ==
  ASSUME NEW a \in Nat, NEW p \in Nat \ {0}
  PROVE  /\ RoundUp(a, p) \in Nat
         /\ a <= RoundUp(a, p)
         /\ RoundUp(a, p) < a + p
         /\ \E n \in Nat : RoundUp(a, p) = n * p
  BY CeilDivIs DEF RoundUp

LEMMA RoundUpMonotone ==
  ASSUME NEW a \in Nat, NEW b \in Nat, NEW p \in Nat \ {0}, a <= b
  PROVE  RoundUp(a, p) <= RoundUp(b, p)
<1>1. CeilDiv(a, p) \in Nat /\ CeilDiv(b, p) \in Nat /\ b <= CeilDiv(b, p) * p
      /\ CeilDiv(b, p) * p \in Nat
  BY CeilDivIs
<1>2. a <= CeilDiv(b, p) * p
  BY <1>1
<1>3. CeilDiv(a, p) <= CeilDiv(b, p)
  BY <1>1, <1>2, CeilDivLeast
<1>4. \A m, n \in Nat : m <= n => m * p <= n * p
  BY SMT
<1> QED BY <1>1, <1>3, <1>4 DEF RoundUp

(* A multiple is not rounded, and its quotient gives it back. *)
LEMMA RoundUpMultiple ==
  ASSUME NEW n \in Nat, NEW p \in Nat \ {0}
  PROVE  RoundUp(n * p, p) = n * p /\ (n * p) \div p = n
<1>1. n * p \in Nat
  BY SMT
<1>2. n * p + p - 1 = n * p + (p - 1) /\ n * p + p - 1 \in Nat /\ p - 1 \in 0 .. p - 1
  BY <1>1
<1>3. (n * p + p - 1) \div p = n
  BY <1>2, Quotient
<1>4. (n * p) \div p = n
  <2>1. 0 \in 0 .. p - 1 /\ n * p = n * p + 0
    BY <1>1
  <2> QED BY <1>1, <2>1, Quotient
<1> QED BY <1>3, <1>4 DEF RoundUp, CeilDiv

LEMMA RoundUpTwice ==
  ASSUME NEW a \in Nat, NEW p \in Nat \ {0}
  PROVE  /\ RoundUp(RoundUp(a, p), p) = RoundUp(a, p)
         /\ (RoundUp(a, p) \div p) * p = RoundUp(a, p)
<1>1. PICK n \in Nat : RoundUp(a, p) = n * p
  BY RoundUpIs
<1> QED BY <1>1, RoundUpMultiple

-----------------------------------------------------------------------------
(* The extents of a log. *)

(* The part of LogsInBounds that is about the extents: where they are and  *)
(* that they lie within "length".                                          *)
Tidy(bytes, off, length) ==
  LET present == { x \in Extents : bytes[x] > 0 }
      copies == {"bitmapCopy", "offsetsCopy"}
  IN  /\ \A x, y \in present :
           x = y \/ {x, y} = copies
           \/ off[x] + bytes[x] <= off[y] \/ off[y] + bytes[y] <= off[x]
      /\ \A x \in present \ copies : off[x] + bytes[x] <= length
      /\ \A x \in present \cap copies : off[x] <= length

(* Extents in the order of the format. *)
LEMMA InOrder ==
  ASSUME NEW bytes \in [Extents -> Nat], NEW off \in [Extents -> Nat], NEW length \in Nat,
         bytes["cache"] = 0,
         off["header"] + bytes["header"] <= off["bitmap"],
         off["bitmap"] + bytes["bitmap"] <= off["offsets"],
         off["offsets"] + bytes["offsets"] <= off["descs"],
         off["descs"] + bytes["descs"] <= off["payload"],
         off["payload"] + bytes["payload"] <= off["footer"],
         off["footer"] + bytes["footer"] <= off["bitmapCopy"],
         off["footer"] + bytes["footer"] <= off["offsetsCopy"],
         off["footer"] + bytes["footer"] <= length,
         off["bitmapCopy"] <= length, off["offsetsCopy"] <= length
  PROVE  Tidy(bytes, off, length)
<1> DEFINE end(x) == off[x] + bytes[x]
           front == <<"header", "bitmap", "offsets", "descs", "payload", "footer">>
           copies == {"bitmapCopy", "offsetsCopy"}
<1>1. \A x \in Extents : off[x] \in Nat /\ bytes[x] \in Nat
  OBVIOUS
<1>2. \A x \in Extents \ {"cache"} : x \in copies \/ \E m \in 1 .. 6 : x = front[m]
  BY DEF Extents
<1>3. \A m, n \in 1 .. 6 : m < n => end(front[m]) <= off[front[n]]
  BY <1>1 DEF Extents
<1>4. \A m \in 1 .. 6 : front[m] \notin copies
       /\ end(front[m]) <= length
       /\ \A y \in copies : end(front[m]) <= off[y]
  BY <1>1 DEF Extents
<1>5. \A x, y \in Extents \ {"cache"} :
        x = y \/ {x, y} = copies \/ end(x) <= off[y] \/ end(y) <= off[x]
  <2> SUFFICES ASSUME NEW x \in Extents \ {"cache"}, NEW y \in Extents \ {"cache"}, x # y
               PROVE  {x, y} = copies \/ end(x) <= off[y] \/ end(y) <= off[x]
    OBVIOUS
  <2>1. CASE x \in copies /\ y \in copies
    BY <2>1
  <2>2. CASE x \notin copies /\ y \in copies
    BY <1>2, <1>4, <2>2
  <2>3. CASE x \in copies /\ y \notin copies
    BY <1>2, <1>4, <2>3
  <2>4. CASE x \notin copies /\ y \notin copies
    <3> HIDE DEF end
    <3>1. PICK m \in 1 .. 6 : x = front[m]
      BY <1>2, <2>4
    <3>2. PICK n \in 1 .. 6 : y = front[n]
      BY <1>2, <2>4
    <3> HIDE DEF front
    <3>3. m < n \/ n < m
      BY <3>1, <3>2
    <3> QED BY <1>3, <3>1, <3>2, <3>3
  <2> QED BY <2>1, <2>2, <2>3, <2>4
<1>6. \A x \in Extents \ {"cache"} :
        /\ x \notin copies => end(x) <= length
        /\ x \in copies => off[x] <= length
  BY <1>2, <1>4
<1>7. \A x \in Extents : bytes[x] > 0 => x \in Extents \ {"cache"}
  OBVIOUS
<1> QED BY <1>5, <1>6, <1>7 DEF Tidy

(* The logs of the segment bitmap and the mapping table, which hold        *)
(* everything but the mapping table's cache.                               *)
LEMMA TablesPlaced ==
  ASSUME NEW bytes \in [Extents -> Nat], NEW page \in Nat, page >= 4096,
         bytes["header"] = HdrSize, bytes["footer"] = FooterSize, bytes["cache"] = 0
  PROVE  /\ StartOffsets(bytes, 0, page) \in [Extents -> Nat]
         /\ LogBytes(bytes, page) \in Nat \ {0}
         /\ (LogBytes(bytes, page) \div page) * page = LogBytes(bytes, page)
         /\ Tidy(bytes, StartOffsets(bytes, 0, page), LogBytes(bytes, page))
<1> DEFINE bm == bytes["bitmap"]
           ot == bytes["offsets"]
           ds == bytes["descs"]
           pl == bytes["payload"]
           bc == bytes["bitmapCopy"]
           oc == bytes["offsetsCopy"]
           t == 2048 + bm + ot + ds
           body == RoundUp(t, page)
           foot == RoundUp(body + pl, page)
           len == RoundUp(foot + (2048 + bc + oc), page)
           atB == RoundUp(foot + 2048, page)
           atO == RoundUp(foot + 2048 + bc, page)
           off == [header |-> 0, bitmap |-> 2048, offsets |-> 2048 + bm, descs |-> 2048 + bm + ot,
                   cache |-> body, payload |-> body, footer |-> foot,
                   bitmapCopy |-> atB, offsetsCopy |-> atO]
<1>1. bm \in Nat /\ ot \in Nat /\ ds \in Nat /\ pl \in Nat /\ bc \in Nat /\ oc \in Nat
      /\ page \in Nat \ {0}
  BY DEF Extents
<1> HIDE DEF bm, ot, ds, pl, bc, oc
<1>2. t \in Nat /\ 2048 + bm + ot + ds = t
  BY <1>1
<1>3. body \in Nat /\ t <= body /\ RoundUp(body, page) = body
  BY <1>1, <1>2, RoundUpIs, RoundUpTwice
<1> HIDE DEF body
<1>4. foot \in Nat /\ body + pl <= foot /\ RoundUp(foot, page) = foot
  <2>1. body + pl \in Nat
    BY <1>1, <1>3
  <2> QED BY <1>1, <2>1, RoundUpIs, RoundUpTwice
<1> HIDE DEF foot
<1>5. /\ atB \in Nat /\ foot + 2048 <= atB
      /\ atO \in Nat /\ foot + 2048 + bc <= atO
      /\ len \in Nat /\ foot + (2048 + bc + oc) <= len
      /\ (len \div page) * page = len
  <2>1. foot + 2048 \in Nat /\ foot + 2048 + bc \in Nat /\ foot + (2048 + bc + oc) \in Nat
    BY <1>1, <1>4
  <2>2. \A n \in Nat : /\ RoundUp(n, page) \in Nat /\ n <= RoundUp(n, page)
                       /\ (RoundUp(n, page) \div page) * page = RoundUp(n, page)
    BY <1>1, RoundUpIs, RoundUpTwice
  <2> QED BY <2>1, <2>2
<1>6. atB <= len /\ atO <= len
  <2>1. /\ foot + 2048 \in Nat /\ foot + 2048 + bc \in Nat /\ foot + (2048 + bc + oc) \in Nat
        /\ foot + 2048 <= foot + (2048 + bc + oc)
        /\ foot + 2048 + bc <= foot + (2048 + bc + oc)
    BY <1>1, <1>4
  <2> QED BY <1>1, <2>1, RoundUpMonotone
<1> HIDE DEF atB, atO, len
<1>7. Outside(bytes, page) = 0
  BY DEF Outside, HdrSize
<1>8. StartOffsets(bytes, 0, page) = off
  <2>1. RoundUp(0 + 2048 + bm + ot + ds, page) = body /\ 0 + 2048 = 2048
    BY <1>1 DEF body
  <2>2. RoundUp(body + 0, page) = body /\ RoundUp(RoundUp(body + pl, page) + 0, page) = foot
    <3>1. body + 0 = body /\ foot + 0 = foot
      BY <1>3, <1>4
    <3>2. RoundUp(body + pl, page) = foot
      BY DEF foot
    <3> QED BY <1>3, <1>4, <3>1, <3>2
  <2> QED
    BY <1>7, <2>1, <2>2 DEF StartOffsets, HdrSize, FooterSize, bm, ot, ds, pl, bc, atB, atO
<1>9. LogBytes(bytes, page) = len
  <2>1. (2048 + bm + ot + ds) + 0 = t
    BY <1>1
  <2>2. RoundUp(t, page) = body /\ RoundUp(body + pl, page) = foot
    BY DEF body, foot
  <2>3. Copies(bytes) = 2048 + bc + oc
    BY DEF Copies, FooterSize, bc, oc
  <2>4. LogBytes(bytes, page)
          = RoundUp(RoundUp(RoundUp((2048 + bm + ot + ds) + 0, page) + pl, page) + Copies(bytes), page)
    BY <1>7 DEF LogBytes, HdrSize, bm, ot, ds, pl
  <2> QED BY <2>1, <2>2, <2>3, <2>4 DEF len
<1> HIDE DEF t
<1>10. off \in [Extents -> Nat]
  <2>1. 0 \in Nat /\ 2048 \in Nat /\ 2048 + bm \in Nat /\ 2048 + bm + ot \in Nat
    BY <1>1
  <2> QED BY <1>3, <1>4, <1>5, <2>1 DEF Extents
<1>11. len \in Nat \ {0}
  BY <1>1, <1>4, <1>5
<1>12. Tidy(bytes, off, len)
  <2>1. /\ off["header"] = 0 /\ off["bitmap"] = 2048 /\ off["offsets"] = 2048 + bm
        /\ off["descs"] = 2048 + bm + ot /\ off["payload"] = body /\ off["footer"] = foot
        /\ off["bitmapCopy"] = atB /\ off["offsetsCopy"] = atO
    OBVIOUS
  <2> HIDE DEF off
  <2>2. /\ 0 + 2048 <= 2048
        /\ 2048 + bm <= 2048 + bm
        /\ 2048 + bm + ot <= 2048 + bm + ot
        /\ 2048 + bm + ot + ds <= body
        /\ foot + 2048 <= atO /\ foot + 2048 <= len
    BY <1>1, <1>2, <1>3, <1>4, <1>5
  <2>3. /\ off["header"] + bytes["header"] <= off["bitmap"]
        /\ off["bitmap"] + bytes["bitmap"] <= off["offsets"]
        /\ off["offsets"] + bytes["offsets"] <= off["descs"]
        /\ off["descs"] + bytes["descs"] <= off["payload"]
        /\ off["payload"] + bytes["payload"] <= off["footer"]
        /\ off["footer"] + bytes["footer"] <= off["bitmapCopy"]
        /\ off["footer"] + bytes["footer"] <= off["offsetsCopy"]
        /\ off["footer"] + bytes["footer"] <= len
        /\ off["bitmapCopy"] <= len /\ off["offsetsCopy"] <= len
    BY <1>4, <1>5, <1>6, <2>1, <2>2 DEF bm, ot, ds, pl, bc, oc, HdrSize, FooterSize
  <2> QED BY <1>10, <1>11, <2>3, InOrder
<1> QED BY <1>5, <1>8, <1>9, <1>10, <1>11, <1>12

LEMMA BareIs ==
  /\ BareLog \in [Extents -> Nat]
  /\ BareLog["header"] = 2048 /\ BareLog["footer"] = 2048
  /\ \A x \in Extents \ {"header", "footer"} : BareLog[x] = 0
  BY DEF BareLog, HdrSize, FooterSize, Extents

(* Logs without tables: a header, a footer and the mapping table's cache.  *)
LEMMA FewExtents ==
  ASSUME NEW bytes \in [Extents -> Nat], NEW off \in [Extents -> Nat], NEW length \in Nat,
         \A x \in Extents \ {"header", "cache", "footer"} : bytes[x] = 0,
         off["header"] + bytes["header"] <= off["footer"],
         off["footer"] + bytes["footer"] <= length,
         bytes["cache"] > 0 =>
           /\ off["header"] + bytes["header"] <= off["cache"]
           /\ off["cache"] + bytes["cache"] <= off["footer"]
  PROVE  Tidy(bytes, off, length)
<1> DEFINE end(x) == off[x] + bytes[x]
<1>1. \A x \in Extents : off[x] \in Nat /\ bytes[x] \in Nat
  OBVIOUS
<1>2. \A x \in Extents : bytes[x] > 0 => x \in {"header", "cache", "footer"}
  OBVIOUS
<1>3. {"header", "cache", "footer"} \subseteq Extents
  BY DEF Extents
<1>4. bytes["cache"] > 0 => end("cache") <= length
  BY <1>1, <1>3
<1>5. end("header") <= length
  BY <1>1, <1>3
<1> QED BY <1>2, <1>4, <1>5 DEF Tidy

LEMMA SnapshotPlaced ==
  LET off == StartOffsets(BareLog, 1024, PageCache)
  IN  /\ off \in [Extents -> Nat]
      /\ LogBytes(BareLog, PageCache) = 8192
      /\ Tidy(BareLog, off, 8192)
<1> DEFINE off == StartOffsets(BareLog, 1024, PageCache)
<1>1. Outside(BareLog, PageCache) = 0
  BY BareIs DEF Outside, HdrSize, PageCache, Extents
<1>2. /\ BareLog["header"] = 2048 /\ BareLog["footer"] = 2048 /\ BareLog["bitmap"] = 0
      /\ BareLog["offsets"] = 0 /\ BareLog["descs"] = 0 /\ BareLog["payload"] = 0
      /\ BareLog["bitmapCopy"] = 0 /\ BareLog["offsetsCopy"] = 0 /\ BareLog["cache"] = 0
  BY BareIs DEF Extents
<1>3. off = [header |-> 1024, bitmap |-> 3072, offsets |-> 3072, descs |-> 3072,
             cache |-> 4096, payload |-> 4096, footer |-> 4096,
             bitmapCopy |-> 8192, offsetsCopy |-> 8192]
  <2>1. /\ RoundUp(3072, 4096) = 4096 /\ RoundUp(4096, 4096) = 4096 /\ RoundUp(6144, 4096) = 8192
    BY DEF RoundUp, CeilDiv
  <2>2. /\ 1024 + 2048 + 0 + 0 + 0 = 3072 /\ 1024 + 2048 = 3072 /\ 1024 + 2048 + 0 = 3072
        /\ 1024 + 2048 + 0 + 0 = 3072 /\ 4096 + 0 = 4096 /\ 4096 + 2048 = 6144 /\ 6144 + 0 = 6144
    OBVIOUS
  <2> QED BY <1>1, <1>2, <2>1, <2>2 DEF StartOffsets, PageCache
<1>4. LogBytes(BareLog, PageCache) = 8192
  <2>1. RoundUp(RoundUp(RoundUp((2048 + 0 + 0 + 0) + 0, 4096) + 0, 4096) + (2048 + 0 + 0), 4096) = 8192
    BY DEF RoundUp, CeilDiv
  <2> QED BY <1>1, <1>2, <2>1 DEF LogBytes, PageCache, Copies
<1> HIDE DEF off
<1>5. off \in [Extents -> Nat]
  BY <1>3 DEF Extents
<1>6. Tidy(BareLog, off, 8192)
  <2>1. off["header"] = 1024 /\ off["footer"] = 4096
    BY <1>3
  <2> QED BY <1>2, <1>5, <2>1, BareIs, FewExtents
<1> QED BY <1>4, <1>5, <1>6 DEF off

(* A log of the superblock, by the size of the cache and the page of the   *)
(* volume.                                                                 *)
SbBytes(c) == [BareLog EXCEPT !["cache"] = c]
SbOffsets(c, pageLen) ==
  [StartOffsets(SbBytes(c), 0, PageCache) EXCEPT
     !["cache"] = IF c <= pageLen - HdrSize THEN HdrSize ELSE @]

(* The cache of the mapping table in a log of the superblock: the log is   *)
(* sized as if its page had 4 KB, the cache is placed by the page of the   *)
(* volume.                                                                 *)
LEMMA SuperblockPlaced ==
  ASSUME NEW c \in Nat, NEW pageLen \in Nat, pageLen >= 4096
  PROVE  /\ SbBytes(c) \in [Extents -> Nat]
         /\ SbOffsets(c, pageLen) \in [Extents -> Nat]
         /\ LogBytes(SbBytes(c), PageCache) \in Nat \ {0}
         /\ (LogBytes(SbBytes(c), PageCache) \div PageCache) * PageCache
              = LogBytes(SbBytes(c), PageCache)
         /\ Tidy(SbBytes(c), SbOffsets(c, pageLen), LogBytes(SbBytes(c), PageCache))
<1> DEFINE bytes == SbBytes(c)
           start == StartOffsets(bytes, 0, PageCache)
           off == SbOffsets(c, pageLen)
           out == IF c > 2048 THEN c ELSE 0
           foot == RoundUp(4096 + out, 4096)
<1>1. bytes \in [Extents -> Nat]
  BY BareIs DEF Extents, SbBytes
<1>2. /\ bytes["header"] = 2048 /\ bytes["footer"] = 2048 /\ bytes["bitmap"] = 0
      /\ bytes["offsets"] = 0 /\ bytes["descs"] = 0 /\ bytes["payload"] = 0
      /\ bytes["bitmapCopy"] = 0 /\ bytes["offsetsCopy"] = 0 /\ bytes["cache"] = c
  BY BareIs DEF Extents, SbBytes
<1>3. \A x \in Extents \ {"header", "cache", "footer"} : bytes[x] = 0
  BY BareIs DEF SbBytes
<1> HIDE DEF bytes
<1>4. Outside(bytes, PageCache) = out
  BY <1>2 DEF Outside, HdrSize, PageCache
<1>5. out \in Nat /\ foot \in Nat /\ foot >= 4096 + out /\ RoundUp(foot, 4096) = foot
  BY DEF RoundUp, CeilDiv
<1>6. start = [header |-> 0, bitmap |-> 2048, offsets |-> 2048, descs |-> 2048,
               cache |-> 4096, payload |-> foot, footer |-> foot,
               bitmapCopy |-> RoundUp(foot + 2048, 4096), offsetsCopy |-> RoundUp(foot + 2048, 4096)]
  <2>1. RoundUp(2048, 4096) = 4096 /\ RoundUp(4096, 4096) = 4096
    BY DEF RoundUp, CeilDiv
  <2>2. /\ 0 + 2048 + 0 + 0 + 0 = 2048 /\ 0 + 2048 = 2048 /\ 0 + 2048 + 0 = 2048
        /\ 0 + 2048 + 0 + 0 = 2048 /\ 4096 + 0 = 4096
    OBVIOUS
  <2>3. foot + 2048 + 0 = foot + 2048
    BY <1>5
  <2> QED BY <1>2, <1>4, <2>1, <2>2, <2>3 DEF StartOffsets, PageCache
<1>7. LogBytes(bytes, PageCache) = RoundUp(foot + 2048, 4096)
  <2>1. Copies(bytes) = 2048
    BY <1>2 DEF Copies
  <2>2. CASE c > 2048
    <3>1. RoundUp((2048 + 0 + 0 + 0), 4096) = 4096
      BY DEF RoundUp, CeilDiv
    <3>2. foot + 0 = foot /\ RoundUp(4096 + c, 4096) = foot
      BY <1>5, <2>2
    <3> QED BY <1>2, <1>4, <1>5, <2>1, <2>2, <3>1, <3>2 DEF LogBytes, PageCache
  <2>3. CASE c <= 2048
    <3>1. foot = 4096
      BY <2>3 DEF RoundUp, CeilDiv
    <3>2. RoundUp((2048 + 0 + 0 + 0) + c, 4096) = 4096 /\ RoundUp(4096 + 0, 4096) = 4096
      BY <2>3 DEF RoundUp, CeilDiv
    <3>3. out = 0
      BY <2>3
    <3> QED BY <1>2, <1>4, <2>1, <2>3, <3>1, <3>2, <3>3 DEF LogBytes, PageCache
  <2> QED BY <2>2, <2>3
<1>8. /\ RoundUp(foot + 2048, 4096) \in Nat /\ RoundUp(foot + 2048, 4096) >= foot + 2048
      /\ (RoundUp(foot + 2048, 4096) \div 4096) * 4096 = RoundUp(foot + 2048, 4096)
  <2> HIDE DEF foot
  <2> QED BY <1>5 DEF RoundUp, CeilDiv
<1> HIDE DEF foot, out, start
<1>9. start \in [Extents -> Nat] /\ start["header"] = 0 /\ start["footer"] = foot /\ start["cache"] = 4096
  BY <1>5, <1>6, <1>8 DEF Extents
<1>10. /\ off \in [Extents -> Nat] /\ off["header"] = 0 /\ off["footer"] = foot
       /\ off["cache"] = IF c <= pageLen - HdrSize THEN 2048 ELSE 4096
  BY <1>9 DEF Extents, HdrSize, start, bytes, SbOffsets
<1> HIDE DEF off
<1>11. Tidy(bytes, off, RoundUp(foot + 2048, 4096))
  <2>1. off["header"] + bytes["header"] <= off["footer"]
    BY <1>2, <1>5, <1>10
  <2>2. off["footer"] + bytes["footer"] <= RoundUp(foot + 2048, 4096)
    BY <1>2, <1>8, <1>10
  <2>3. off["header"] + bytes["header"] <= off["cache"]
    BY <1>2, <1>10
  <2>4. off["cache"] + bytes["cache"] <= off["footer"]
    <3>1. c <= out \/ c <= 2048
      BY <1>5 DEF out
    <3>2. c > 2048 => 4096 + c <= foot
      BY <1>5 DEF out
    <3>3. c <= 2048 => c <= pageLen - HdrSize
      BY DEF HdrSize
    <3>4. 2048 + c <= foot
      BY <1>5, <3>1, <3>2
    <3> QED BY <1>2, <1>10, <3>2, <3>3, <3>4
  <2> QED BY <1>1, <1>3, <1>8, <1>10, <2>1, <2>2, <2>3, <2>4, FewExtents
<1>12. RoundUp(foot + 2048, 4096) # 0
  BY <1>5, <1>8
<1>13. /\ LogBytes(bytes, PageCache) \in Nat \ {0}
       /\ (LogBytes(bytes, PageCache) \div PageCache) * PageCache = LogBytes(bytes, PageCache)
       /\ Tidy(bytes, off, LogBytes(bytes, PageCache))
  <2> DEFINE len == RoundUp(foot + 2048, 4096)
  <2>1. LogBytes(bytes, PageCache) = len
    BY <1>7
  <2>2. len \in Nat \ {0} /\ (len \div 4096) * 4096 = len /\ Tidy(bytes, off, len)
    BY <1>8, <1>11, <1>12
  <2> HIDE DEF len
  <2>3. (len \div PageCache) * PageCache = len
    BY <2>2 DEF PageCache
  <2>4. \A n : n = len => /\ n \in Nat \ {0} /\ (n \div PageCache) * PageCache = n
                        /\ Tidy(bytes, off, n)
    BY <2>2, <2>3
  <2> QED BY <2>1, <2>4
<1> QED BY <1>1, <1>10, <1>13 DEF bytes, off

-----------------------------------------------------------------------------
(* The pages a log declares. *)

LEMMA MinIs ==
  ASSUME NEW S \in SUBSET Nat, S # {}
  PROVE  Min(S) \in S
<1>1. PICK d \in S : \A y \in S : ~(<<y, d>> \in OpToRel(<, Nat))
  BY WFMin, NatLessThanWellFounded
<1>2. \A y \in S : d <= y
  <2> TAKE y \in S
  <2>1. y \in Nat /\ d \in Nat
    OBVIOUS
  <2>2. ~(y < d)
    BY <1>1, <2>1 DEF OpToRel
  <2> QED BY <2>1, <2>2
<1> QED BY <1>2, Zenon DEF Min

LEMMA AlignedUpIs ==
  ASSUME NEW n \in Nat \ {0}, NEW pages \in Nat, n <= pages
  PROVE  AlignedUp(n, pages) \in n .. pages
<1> DEFINE S == { d \in n .. pages : pages % d = 0 }
<1>1. pages % pages = 0
  <2>1. pages \in Nat \ {0} /\ 1 \in Nat /\ 0 \in 0 .. pages - 1 /\ pages = 1 * pages + 0
    OBVIOUS
  <2> QED BY <2>1, Quotient
<1>2. pages \in S /\ S \in SUBSET Nat
  BY <1>1
<1> HIDE DEF S
<1>3. Min(S) \in S
  BY <1>2, MinIs
<1> QED BY <1>3 DEF S, AlignedUp

(* segbmap_set_log_pages and maptbl_set_log_pages declare all the pages of *)
(* the log, or the most that a header can declare.                         *)
LEMMA DeclaredPages ==
  ASSUME NEW blks \in Nat \ {0}, NEW given \in Nat, NEW pages \in Nat,
         ~NoDivisor(blks, given, pages)
  PROVE  /\ SetLogPages(blks, given, pages) \in Nat
         /\ blks <= SetLogPages(blks, given, pages) \/ SetLogPages(blks, given, pages) = LogMaxPages
<1> DEFINE low == Least(blks, LogMaxPages)
           asked == AskedPages(blks, given)
           start == AlignedUp(asked, pages)
           roomy == IF start = pages \/ start - low >= 3 THEN start ELSE AlignedUp(start + 3, pages)
<1>1. low \in Nat \ {0} /\ low <= blks /\ (low = blks \/ low = LogMaxPages)
  BY DEF Least, LogMaxPages
<1>2. asked \in Nat \ {0} /\ low <= asked
  BY <1>1 DEF AskedPages, LogMaxPages, Least
<1>3. asked <= pages
  BY DEF NoDivisor
<1>4. ~(start # pages /\ start - low < 3 /\ start + 3 > pages)
  BY <1>3 DEF NoDivisor
<1> HIDE DEF low, asked
<1>5. start \in asked .. pages
  BY <1>2, <1>3, AlignedUpIs
<1> HIDE DEF start
<1>6. roomy \in Nat /\ low <= roomy
  <2>1. CASE start = pages \/ start - low >= 3
    BY <1>1, <1>2, <1>3, <1>5, <2>1
  <2>2. CASE ~(start = pages \/ start - low >= 3)
    <3>1. start + 3 \in Nat \ {0} /\ start + 3 <= pages
      BY <1>1, <1>2, <1>4, <1>5, <2>2
    <3>2. AlignedUp(start + 3, pages) \in start + 3 .. pages
      BY <3>1, AlignedUpIs
    <3>3. \A n \in start + 3 .. pages : n \in Nat /\ low <= n
      BY <1>1, <1>2, <1>5
    <3> QED BY <2>2, <3>2, <3>3
  <2> QED BY <2>1, <2>2
<1>7. SetLogPages(blks, given, pages) = Least(Most(roomy, pages \div LogsPerPeb), LogMaxPages)
  BY DEF SetLogPages, start, asked, low
<1> HIDE DEF roomy
<1>8. pages \div LogsPerPeb \in Nat
  BY DEF LogsPerPeb
<1>9. \A r, m \in Nat : low <= r =>
        /\ Least(Most(r, m), LogMaxPages) \in Nat
        /\ low <= Least(Most(r, m), LogMaxPages) \/ Least(Most(r, m), LogMaxPages) = LogMaxPages
        /\ Least(Most(r, m), LogMaxPages) <= LogMaxPages
  BY <1>1 DEF Least, Most, LogMaxPages
<1>10. \A n \in Nat : n <= LogMaxPages /\ (low <= n \/ n = LogMaxPages) => blks <= n \/ n = LogMaxPages
  BY <1>1 DEF LogMaxPages
<1> QED BY <1>6, <1>7, <1>8, <1>9, <1>10

-----------------------------------------------------------------------------
(* The tables that name the blocks of a log. *)

(* The block descriptors of a log with the blocks that fit one fragment of *)
(* the offset table.                                                       *)
LEMMA Described ==
  ASSUME NEW v \in 1 .. 253
  PROVE  /\ DescribedBlocks(v) \subseteq 0 .. v - 1
         /\ DescribedBlocks(v) = 0 .. v - 1 \/ v % BlkDescPerFragment = 0
         /\ BlkDescTableBytes(v) \in Nat
         /\ \A i \in DescribedBlocks(v) :
              /\ BlockDescriptorOffset(i) = AreaHdrSize + i * BlkDescSize
              /\ AreaHdrSize + i * BlkDescSize + BlkDescSize <= BlkDescTableBytes(v)
<1> DEFINE f == (v + 59) \div 60
           r == v % 60
           n == (f - 1) * 60 + r
<1>1. f \in 1 .. 5 /\ r \in 0 .. 59 /\ (r = 0 \/ n = v) /\ n <= v /\ n >= 0
  BY SMT
<1>2. CeilDiv(v, 60) = f /\ (v + 60 - 1) \div 60 = f
  BY DEF CeilDiv
<1>3. CeilDiv(f, 14) = 1
  BY <1>1 DEF CeilDiv
<1>4. DescribedBlocks(v) = 0 .. n - 1
  BY <1>2 DEF DescribedBlocks, BlkDescPerFragment
<1>5. BlkDescTableBytes(v) = 1 * 256 + (f - 1) * 60 * 64 + r * 64
  BY <1>2, <1>3 DEF BlkDescTableBytes, BlkDescPerFragment, AreaFragments, AreaHdrSize, BlkDescSize
<1> HIDE DEF f, r
<1>6. BlkDescTableBytes(v) = 256 + n * 64 /\ BlkDescTableBytes(v) \in Nat
  BY <1>1, <1>5
<1>7. r = v % BlkDescPerFragment
  BY DEF r, BlkDescPerFragment
<1> HIDE DEF n
<1>8. n \in Int
  BY <1>1 DEF n
<1>9. \A i \in 0 .. n - 1 : /\ BlockDescriptorOffset(i) = 256 + i * 64
                            /\ 256 + i * 64 + 64 <= 256 + n * 64
  BY <1>1, <1>8 DEF BlockDescriptorOffset, BlkDescPerFragment, AreaFragments, AreaHdrSize, BlkDescSize
<1>10. 0 .. n - 1 \subseteq 0 .. v - 1 /\ (r = 0 \/ 0 .. n - 1 = 0 .. v - 1)
  BY <1>1, <1>8
<1> QED BY <1>4, <1>6, <1>7, <1>9, <1>10 DEF AreaHdrSize, BlkDescSize

(* Its offset table has one fragment. *)
LEMMA OneOffsetFragment ==
  ASSUME NEW v \in 1 .. 253
  PROVE  /\ OffsetTableBytes(v) \in Nat
         /\ OffsetTableWritten(v) = OffsetTableBytes(v) \/ v % OffDescPerFragment = 0
<1>1. CeilDiv(v, 253) = 1
  BY DEF CeilDiv
<1>2. OffsetFragments(v) = 2
  BY <1>1 DEF OffsetFragments, OffDescPerFragment, CeilDiv
<1>3. CeilDiv(2, 6) = 1
  BY DEF CeilDiv
<1>4. OffsetTableBytes(v) = (128 + 8) * 1 + 32 * 1 + 0 * 253 * 16 + (v % 253) * 16
  <2>1. 2 - 1 = 1 /\ 1 - 1 = 0
    OBVIOUS
  <2> QED BY <1>2, <1>3, <2>1 DEF OffsetTableBytes, OffDescPerFragment
<1>5. OffsetTableWritten(v) = 128 * 1 + 8 + 32 * 1 + 16 * v
  BY <1>1, <1>2, <1>3 DEF OffsetTableWritten, OffDescPerFragment
<1>6. v % 253 \in Nat /\ (v % 253 = v \/ v % 253 = 0)
  BY SMT
<1> QED BY <1>4, <1>5, <1>6 DEF OffDescPerFragment

(* The part of BlocksResolve that is about block i of PEB k. *)
Resolves(i, k, start, unit, payload, page, descs) ==
  LET item == OffsetItem(i, start, (k * unit) \div page)
      desc == BlockDescriptor(i, start, k * payload, page)
  IN  /\ item.blk = desc.blk /\ item.at = desc.at
      /\ item.page = desc.page \/ unit # payload
      /\ item.at + BlkDescSize <= descs
      /\ desc.byte + page <= RoundUp(payload, page)
      /\ desc.byte = i * page

(* A block's item and its descriptor lead to the same page of the payload. *)
LEMMA BlockFound ==
  ASSUME NEW page \in Nat \ {0}, NEW payload \in Nat, NEW unit \in Nat, NEW start,
         NEW v \in 1 .. 253, v = CeilDiv(payload, page),
         NEW k \in Nat, NEW i \in DescribedBlocks(v)
  PROVE  Resolves(i, k, start, unit, payload, page, BlkDescTableBytes(v))
<1> DEFINE item == OffsetItem(i, start, (k * unit) \div page)
           desc == BlockDescriptor(i, start, k * payload, page)
<1>1. /\ item.blk = start + i /\ desc.blk = start + i
      /\ item.at = BlockDescriptorOffset(i) /\ desc.at = AreaHdrSize + i * BlkDescSize
      /\ item.page = (k * unit) \div page + i /\ desc.page = (k * payload + i * page) \div page
      /\ desc.byte = i * page
  BY DEF OffsetItem, BlockDescriptor
<1>2. i \in 0 .. v - 1 /\ BlockDescriptorOffset(i) = AreaHdrSize + i * BlkDescSize
      /\ AreaHdrSize + i * BlkDescSize + BlkDescSize <= BlkDescTableBytes(v)
  BY Described
<1>3. (k * payload + i * page) \div page = (k * payload) \div page + i
  <2> DEFINE a == k * payload
             q == a \div page
             r == a % page
  <2>1. a \in Nat
    BY SMT
  <2> HIDE DEF a
  <2>2. q \in Nat /\ r \in 0 .. page - 1 /\ a = q * page + r
    BY <2>1, DivMod
  <2> HIDE DEF q, r
  <2>3. a + i * page = (q + i) * page + r /\ i * page \in Nat /\ q + i \in Nat
    BY <1>2, <2>1, <2>2, SMT
  <2>4. a + i * page \in Nat
    BY <2>1, <2>3
  <2>5. (a + i * page) \div page = q + i
    BY <2>2, <2>3, <2>4, Quotient
  <2> QED BY <2>5 DEF a, q
<1>4. i * page + page <= RoundUp(payload, page)
  <2>1. RoundUp(payload, page) = v * page
    BY DEF RoundUp
  <2>2. i * page + page <= v * page
    BY <1>2, SMT
  <2> QED BY <2>1, <2>2
<1> HIDE DEF item, desc
<1>5. item.page = desc.page \/ unit # payload
  BY <1>1, <1>3
<1> QED BY <1>1, <1>2, <1>4, <1>5 DEF item, desc, Resolves

-----------------------------------------------------------------------------
(* The segment bitmap. *)

LEMMA BmapFragmentsNat ==
  ASSUME NEW segs \in Nat
  PROVE  BmapFragments(segs) \in Nat /\ (segs = 0 => BmapFragments(segs) = 0)
  BY DEF BmapFragments, BmapBytes, FragmentHdr, PageBytes, CeilDiv

(* The fragments hold a state for every segment although their headers are *)
(* counted for the pages of the bare bitmap.                               *)
LEMMA FragmentsHold ==
  ASSUME NEW segs \in Nat, segs < UncountedSegs
  PROVE  BmapFragments(segs) * ItemsPerFragment >= segs
<1> DEFINE b == (segs + 2 - 1) \div 2
           c == (b + 4096 - 1) \div 4096
           f == (b + 32 * c + 4096 - 1) \div 4096
<1>1. b \in Nat /\ segs <= 2 * b /\ b <= 524256
  BY SMT DEF UncountedSegs
<1> HIDE DEF b
<1>2. c \in Nat /\ b <= 4096 * c /\ 4096 * c < b + 4096
  BY <1>1
<1>3. c <= 128
  BY <1>1, <1>2
<1> HIDE DEF c
<1>4. f \in Nat /\ b + 32 * c <= 4096 * f /\ 4096 * f < b + 32 * c + 4096
  BY <1>1, <1>2
<1> HIDE DEF f
<1>5. b <= 4064 * f
  BY <1>1, <1>2, <1>3, <1>4
<1>6. BmapFragments(segs) = f
  BY DEF BmapFragments, BmapBytes, CeilDiv, PageBytes, FragmentHdr, b, c, f
<1> QED BY <1>1, <1>4, <1>5, <1>6 DEF ItemsPerFragment, PageBytes, FragmentHdr

(* What an allocation policy of the segment bitmap guarantees. *)
Spread(b, perSeg) ==
  /\ b.fragments \in Nat \ {0} /\ b.perPeb \in Nat \ {0}
  /\ b.chain \in 1 .. MaxChain /\ b.pebs \in 1 .. perSeg
  /\ b.fragments <= b.chain * (b.pebs * b.perPeb)
  /\ b.segs = IF b.copy THEN 2 * b.chain ELSE b.chain

LEMMA PolicySpreads ==
  ASSUME NEW l, l.segs \in Nat, l.perSeg \in Nat \ {0}, l.pages \in Nat, l.asked \in Nat,
         ~BadShare(l), ~TooLong(l)
  PROVE  /\ Spread(Policy(l), l.perSeg)
         /\ Policy(l).fragments = BmapFragments(l.segs)
         /\ l.segs # 0
<1> DEFINE n == BmapFragments(l.segs)
           own == PerPeb(l)
           share == U16(own * l.perSeg)
           chain == CeilDiv(n, share) % 256
           perSeg == CeilDiv(n, chain)
           perPeb == CeilDiv(perSeg, l.perSeg)
           pebs == CeilDiv(perSeg, perPeb)
<1>1. n \in Nat /\ (l.segs = 0 => n = 0)
  BY BmapFragmentsNat
<1> HIDE DEF n
<1>2. own \in Nat
  <2>1. \A m \in Nat : Least(Most((m - 2) \div 2, 1), n) \in Nat
    BY <1>1 DEF Least, Most
  <2> QED BY <2>1 DEF PerPeb, n
<1>3. share \in Nat \ {0}
  <2>1. \A x \in Nat : U16(x) \in Nat
    BY DEF U16
  <2>2. own * l.perSeg \in Nat
    BY <1>2, SMT
  <2> QED BY <2>1, <2>2 DEF BadShare, SegmentShare
<1>4. ChainSegs(l, PerPeb(l)) = chain
  BY DEF ChainSegs, SegmentShare, n
<1> HIDE DEF own, share
<1>5. chain \in 1 .. 8 /\ n # 0
  <2>1. CeilDiv(n, share) \in Nat
    BY <1>1, <1>3, CeilDivIs
  <2>2. CeilDiv(n, share) % 256 \in Nat
    BY <2>1
  <2>3. chain # 0 /\ ~(chain > 8)
    BY <1>4 DEF BadShare, TooLong, MaxChain
  <2>4. n # 0
    <3>1. CeilDiv(0, share) = 0
      BY <1>3, CeilDivLeast, CeilDivIs
    <3> QED BY <2>3, <3>1
  <2> QED BY <2>2, <2>3, <2>4
<1> HIDE DEF chain
<1>6. perSeg \in Nat \ {0} /\ n <= perSeg * chain
  <2>1. n \in Nat /\ n > 0 /\ chain \in Nat \ {0}
    BY <1>1, <1>5
  <2>2. perSeg \in Nat /\ perSeg > 0 /\ n <= perSeg * chain
    BY <2>1, CeilDivIs
  <2> QED BY <2>2
<1> HIDE DEF perSeg
<1>7. perPeb \in Nat \ {0} /\ perSeg <= perPeb * l.perSeg
  <2>1. perSeg \in Nat /\ perSeg > 0
    BY <1>6
  <2>2. perPeb \in Nat /\ perPeb > 0 /\ perSeg <= perPeb * l.perSeg
    BY <2>1, CeilDivIs
  <2> QED BY <2>2
<1> HIDE DEF perPeb
<1>8. pebs \in Nat \ {0} /\ perSeg <= pebs * perPeb /\ pebs * perPeb \in Nat
  <2>1. perSeg \in Nat /\ perSeg > 0
    BY <1>6
  <2>2. pebs \in Nat /\ pebs > 0 /\ perSeg <= pebs * perPeb /\ pebs * perPeb \in Nat
    BY <1>7, <2>1, CeilDivIs
  <2> QED BY <2>2
<1>9. pebs <= l.perSeg
  <2>1. perSeg <= l.perSeg * perPeb
    BY <1>7, SMT
  <2> QED BY <1>6, <1>7, <2>1, CeilDivLeast
<1> HIDE DEF pebs
<1>10. n <= chain * (pebs * perPeb)
  <2> DEFINE each == pebs * perPeb
  <2>1. each \in Nat /\ perSeg <= each
    BY <1>8
  <2> HIDE DEF each
  <2>2. perSeg * chain <= chain * each /\ perSeg * chain \in Nat /\ chain * each \in Nat
    BY <1>5, <1>6, <2>1, SMT
  <2>3. n <= chain * each
    BY <1>1, <1>6, <2>2
  <2> QED BY <2>3 DEF each
<1>11. Policy(l) = [fragments |-> n, chain |-> chain, perPeb |-> perPeb, pebs |-> pebs,
                    segs |-> IF l.copy THEN 2 * chain ELSE chain, copy |-> l.copy]
  BY <1>4 DEF Policy, n, perSeg, perPeb, pebs
<1>12. pebs \in 1 .. l.perSeg
  BY <1>8, <1>9
<1> QED
  BY <1>1, <1>5, <1>7, <1>10, <1>11, <1>12 DEF Spread, MaxChain, n

(* The PEBs that segbmap_mkfs_commit commits are those with a fragment. *)
LEMMA CommittedAre ==
  ASSUME NEW b, NEW perSeg \in Nat, Spread(b, perSeg)
  PROVE  /\ Cardinality(CommittedPebs(b)) \in Nat
         /\ Cardinality(CommittedPebs(b)) = UsedBuffers(b)
<1> DEFINE used == UsedBuffers(b)
           m == b.pebs * b.perPeb
<1>1. /\ b.fragments \in Nat \ {0} /\ b.perPeb \in Nat \ {0} /\ b.chain \in 1 .. 8
      /\ b.pebs \in Nat \ {0} /\ b.fragments <= b.chain * m
      /\ b.segs = IF b.copy THEN 2 * b.chain ELSE b.chain
  BY DEF Spread, MaxChain
<1>2. used \in Nat
  BY <1>1, CeilDivIs DEF UsedBuffers
<1>3. used <= b.segs * b.pebs /\ b.segs * b.pebs \in Nat
  <2>1. b.chain * m = (b.chain * b.pebs) * b.perPeb /\ b.chain * b.pebs \in Nat
    BY <1>1, SMT
  <2>2. used <= b.chain * b.pebs
    BY <1>1, <2>1, CeilDivLeast DEF UsedBuffers
  <2>3. b.segs \in Nat /\ b.chain <= b.segs
    BY <1>1
  <2>4. b.chain * b.pebs <= b.segs * b.pebs /\ b.segs * b.pebs \in Nat
    BY <1>1, <2>3, SMT
  <2> QED BY <1>2, <2>1, <2>2, <2>4
<1>4. used <= b.fragments
  <2>1. b.fragments <= b.fragments * b.perPeb
    BY <1>1, SMT
  <2> QED BY <1>1, <2>1, CeilDivLeast DEF UsedBuffers
<1>5. PlacedPebs(b) \in Nat /\ used <= PlacedPebs(b)
  <2>1. \A x \in Nat : used <= x /\ used <= b.fragments =>
          Least(x, b.fragments) \in Nat /\ used <= Least(x, b.fragments)
    BY <1>1 DEF Least
  <2> QED BY <1>3, <1>4, <2>1 DEF PlacedPebs
<1>6. CommittedPebs(b) = { p \in 0 .. PlacedPebs(b) - 1 : p < used }
  BY DEF CommittedPebs
<1> HIDE DEF used
<1>7. CommittedPebs(b) = 0 .. used - 1
  BY <1>2, <1>5, <1>6
<1>8. Cardinality(0 .. used - 1) = IF 0 > used - 1 THEN 0 ELSE (used - 1) - 0 + 1
  BY <1>2, FS_Interval
<1> QED BY <1>2, <1>7, <1>8 DEF used

(* Where fragment f is: in the layout and as the volume header says. *)
LEMMA FragmentPlace ==
  ASSUME NEW b, NEW perSeg \in Nat, Spread(b, perSeg), NEW f \in 0 .. b.fragments - 1
  PROVE  LET k == f \div b.perPeb
             m == b.perPeb * b.pebs
         IN  /\ k < UsedBuffers(b)
             /\ k \div b.pebs = f \div m
             /\ f \div m \in 0 .. b.chain - 1
             /\ k % b.pebs = (f % m) \div b.perPeb
             /\ (f % m) \div b.perPeb < perSeg
<1> DEFINE p == b.perPeb
           n == b.pebs
           c == b.chain
           u == UsedBuffers(b)
           k == f \div p
           m == p * n
<1>1. /\ p \in Nat \ {0} /\ n \in Nat \ {0} /\ n <= perSeg /\ c \in Nat
      /\ b.fragments \in Nat \ {0} /\ b.fragments <= c * (n * p)
      /\ f \in Nat /\ f < b.fragments
  BY DEF Spread, MaxChain
<1>2. u \in Nat /\ b.fragments <= u * p
  BY <1>1, CeilDivIs DEF UsedBuffers
<1> HIDE DEF p, n, c, u
<1>3. k \in Nat /\ f % p \in 0 .. p - 1 /\ f = k * p + (f % p)
  BY <1>1, DivMod
<1> DEFINE r == f % p
           j == k \div n
           s == k % n
<1>4. k \in Nat /\ r \in 0 .. p - 1 /\ f = k * p + r
  BY <1>3
<1> HIDE DEF k, r
<1>5. j \in Nat /\ s \in 0 .. n - 1 /\ k = j * n + s
  BY <1>1, <1>4, DivMod
<1> HIDE DEF j, s
<1>6. m \in Nat \ {0}
  BY <1>1, SMT
<1>7. f = j * m + (s * p + r)
  BY <1>1, <1>4, <1>5, SMT
<1>8. s * p + r \in 0 .. m - 1
  <2>1. s * p \in Nat /\ s * p <= (n - 1) * p
    BY <1>1, <1>5, SMT
  <2>2. (n - 1) * p = m - p
    BY <1>1, SMT
  <2> QED BY <1>1, <1>4, <1>6, <2>1, <2>2
<1>9. (s * p + r) \div p = s
  <2>1. s \in Nat /\ s * p + r \in Nat
    BY <1>1, <1>5, <1>6, <1>8
  <2> QED BY <1>1, <1>4, <2>1, Quotient
<1> HIDE DEF m
<1>10. f \div m = j /\ f % m = s * p + r
  BY <1>1, <1>5, <1>6, <1>7, <1>8, Quotient
<1>11. k < u
  <2>1. u <= k => u * p <= k * p
    BY <1>1, <1>2, <1>4, SMT
  <2>2. u * p \in Nat /\ k * p \in Nat
    BY <1>1, <1>2, <1>4, SMT
  <2> QED BY <1>1, <1>2, <1>4, <2>1, <2>2
<1>12. j \in 0 .. c - 1
  <2>1. c * (n * p) = c * m
    BY <1>1, SMT DEF m
  <2>2. c <= j => c * m <= j * m
    BY <1>1, <1>5, <1>6, SMT
  <2>3. j * m \in Nat /\ c * m \in Nat
    BY <1>1, <1>5, <1>6, SMT
  <2>4. ~(c <= j)
    BY <1>1, <1>6, <1>7, <1>8, <2>1, <2>2, <2>3
  <2> QED BY <1>1, <1>5, <2>4
<1>13. /\ k \div n = f \div m /\ f \div m \in 0 .. c - 1
       /\ k % n = (f % m) \div p /\ (f % m) \div p < perSeg
  <2>1. k \div n = j /\ k % n = s
    BY DEF j, s
  <2>2. s < perSeg
    BY <1>1, <1>5
  <2> QED BY <1>9, <1>10, <1>12, <2>1, <2>2
<1> QED BY <1>11, <1>13 DEF p, n, c, u, k, m

-----------------------------------------------------------------------------
(* The mapping table. *)

LEMMA CorrectedIs ==
  ASSUME NEW e, NEW stripes \in Nat, NEW dies \in Nat, (stripes = 0) = (dies = 0)
  PROVE  /\ Table(e)!Corrected(stripes, dies) \in Nat
         /\ Table(e)!Corrected(stripes, dies) = 0 => stripes = 0
<1>1. CASE stripes = dies
  BY <1>1 DEF Table!Corrected
<1>2. CASE stripes > dies
  <2>1. stripes % dies \in 0 .. dies - 1
    BY <1>2, DivMod
  <2> QED BY <1>2, <2>1 DEF Table!Corrected
<1>3. CASE stripes < dies
  <2>1. dies % stripes \in 0 .. stripes - 1
    BY <1>3, DivMod
  <2> QED BY <1>3, <2>1 DEF Table!Corrected
<1> QED BY <1>1, <1>2, <1>3

LEMMA StripesAre ==
  ASSUME NEW e, NEW t, t.pebs \in Nat \ {0}, t.stripes \in Nat, t.dies \in Nat,
         (t.stripes = 0) = (t.dies = 0), ~(t.stripes = 0 /\ t.zns)
  PROVE  Table(e)!Stripes(t) \in Nat \ {0}
<1> DEFINE s == Table(e)!Corrected(t.stripes, t.dies)
           per == 476 * s
<1>1. s \in Nat /\ (s = 0 => t.stripes = 0)
  BY CorrectedIs
<1>2. Table(e)!Stripes(t) =
        IF t.zns THEN CeilDiv(t.pebs, per)
        ELSE IF 1016 >= per THEN 1016 \div 476 ELSE per \div 1016
  BY DEF Table!Stripes, Table!CeilDiv, CeilDiv
<1> HIDE DEF s
<1>3. per \in Nat /\ (s # 0 => per # 0)
  BY <1>1
<1> HIDE DEF per
<1>4. CASE t.zns
  <2>1. per \in Nat \ {0}
    BY <1>1, <1>3, <1>4
  <2>2. t.pebs \in Nat /\ t.pebs > 0
    OBVIOUS
  <2>3. CeilDiv(t.pebs, per) \in Nat /\ CeilDiv(t.pebs, per) > 0
    BY <2>1, <2>2, CeilDivIs
  <2>4. CeilDiv(t.pebs, per) \in Nat \ {0}
    BY <2>3
  <2> QED BY <1>2, <1>4, <2>4
<1>5. CASE ~t.zns
  <2>1. (IF 1016 >= per THEN 1016 \div 476 ELSE per \div 1016) \in Nat \ {0}
    BY <1>3
  <2> QED BY <1>2, <1>5, <2>1
<1> QED BY <1>4, <1>5

LEMMA PortionIs ==
  ASSUME NEW e \in Nat, NEW t, t.pebs \in Nat \ {0}, t.stripes \in Nat, t.dies \in Nat,
         t.perSeg \in Nat \ {0},
         (t.stripes = 0) = (t.dies = 0), ~(t.stripes = 0 /\ t.zns),
         Table(e)!PebDescPerStripe(t) # 0
  PROVE  /\ Table(e)!PebDescPerStripe(t) \in Nat \ {0}
         /\ Table(e)!PortionPages(t) \in Nat \ {0}
<1> DEFINE n == Table(e)!Stripes(t)
           d == Table(e)!PebDescPerStripe(t)
           g == CeilDiv(t.perSeg, n)
<1>1. n \in Nat \ {0}
  BY StripesAre
<1>2. d = IF t.perSeg > n THEN (476 \div g) * g ELSE 476
  BY DEF Table!PebDescPerStripe, Table!CeilDiv, CeilDiv
<1>3. Table(e)!PortionPages(t) = n + CeilDiv(d * n, 1016)
  BY DEF Table!PortionPages, Table!CeilDiv, CeilDiv
<1>4. d # 0
  OBVIOUS
<1> HIDE DEF n, d
<1>5. g \in Nat \ {0}
  <2>1. t.perSeg \in Nat /\ t.perSeg > 0
    OBVIOUS
  <2>2. g \in Nat /\ g > 0
    BY <1>1, <2>1, CeilDivIs
  <2> QED BY <2>2
<1> HIDE DEF g
<1>6. (476 \div g) * g \in Nat
  <2>1. 476 \div g \in Nat
    <3>1. \A x \in Nat : x \div g \in Nat
      BY <1>5, DivMod
    <3> QED BY <3>1
  <2>2. \A x \in Nat : x * g \in Nat
    BY <1>5, SMT
  <2> QED BY <2>1, <2>2
<1>7. d \in Nat \ {0}
  BY <1>2, <1>4, <1>6
<1>8. d * n \in Nat
  BY <1>1, <1>7, SMT
<1>9. CeilDiv(d * n, 1016) \in Nat
  <2>1. \A x \in Nat : CeilDiv(x, 1016) \in Nat
    BY CeilDivIs
  <2> QED BY <1>8, <2>1
<1> QED BY <1>1, <1>3, <1>7, <1>9 DEF d

(* What maptbl_mkfs_allocation_policy guarantees if no check of it fails. *)
LEMMA GeometryIs ==
  ASSUME NEW e \in Nat, NEW t, t.pebs \in Nat \ {0}, t.stripes \in Nat, t.dies \in Nat,
         t.perSeg \in Nat \ {0}, t.portions \in Nat \ {0},
         (t.stripes = 0) = (t.dies = 0), ~(t.stripes = 0 /\ t.zns),
         Table(e)!PebDescPerStripe(t) # 0, ~(Table(e)!PortionPages(t) > e)
  PROVE  /\ Table(e)!Geometry(t).perFragment \in Nat \ {0}
         /\ Table(e)!Geometry(t).segs \in Nat
<1> DEFINE n == Table(e)!Stripes(t)
           d == Table(e)!PebDescPerStripe(t)
           pp == Table(e)!PortionPages(t)
           per == Table(e)!PortionsPerFragment(t)
           fit == e \div pp
           asked == t.portions * pp
           excess == CeilDiv(asked - e, pp)
           segs == CeilDiv(CeilDiv(CeilDiv(t.pebs, d * n), per), t.perSeg)
<1>1. n \in Nat \ {0}
  BY StripesAre
<1>2. d \in Nat \ {0} /\ pp \in Nat \ {0} /\ pp <= e
  BY PortionIs
<1>3. per = IF asked > e
            THEN IF fit > t.portions - excess THEN fit ELSE t.portions - excess
            ELSE t.portions
  BY DEF Table!PortionsPerFragment, Table!CeilDiv, CeilDiv
<1>4. /\ Table(e)!Geometry(t).perFragment = per
      /\ Table(e)!Geometry(t).segs = IF t.backup THEN 2 * segs ELSE segs
  BY DEF Table!Geometry, Table!CeilDiv, CeilDiv
<1> HIDE DEF n, d, pp, per
<1>5. fit \in Nat \ {0}
  <2>1. fit \in Nat /\ e = fit * pp + (e % pp) /\ e % pp \in 0 .. pp - 1
    BY <1>2, DivMod
  <2> HIDE DEF fit
  <2>2. fit = 0 => fit * pp = 0
    BY <1>2, <2>1, SMT
  <2> QED BY <1>2, <2>1, <2>2
<1>6. asked \in Nat
  BY <1>2, SMT
<1> HIDE DEF fit, asked
<1>7. per \in Nat \ {0}
  <2>1. CASE asked > e
    <3>1. excess \in Nat
      <4>1. asked - e \in Nat
        BY <1>6, <2>1
      <4> QED BY <1>2, <4>1, CeilDivIs
    <3> HIDE DEF excess
    <3> QED BY <1>3, <1>5, <2>1, <3>1
  <2>2. CASE ~(asked > e)
    BY <1>3, <2>2
  <2> QED BY <2>1, <2>2
<1>8. segs \in Nat
  <2>1. d * n \in Nat \ {0}
    BY <1>1, <1>2, SMT
  <2>2. \A x \in Nat, y \in Nat \ {0} : CeilDiv(x, y) \in Nat
    BY CeilDivIs
  <2>3. CeilDiv(t.pebs, d * n) \in Nat
    BY <2>1, <2>2
  <2>4. CeilDiv(CeilDiv(t.pebs, d * n), per) \in Nat
    BY <1>7, <2>2, <2>3
  <2> QED BY <2>2, <2>4
<1> HIDE DEF segs
<1> QED BY <1>4, <1>7, <1>8

-----------------------------------------------------------------------------
(* The invariant of mkfs_create: what the steps have established before    *)
(* pc.                                                                     *)

OptInv ==
  /\ pc \in 1 .. 24
  /\ opt \in Commands /\ dev \in Devices
  /\ pc > 1 => AcceptsOptions(opt)

VolInv ==
  /\ vol.page \in PageSizes
  /\ vol.erase \in Nat \ {0} /\ vol.perSeg \in Nat \ {0}
  /\ vol.segs \in Nat /\ vol.pages \in Nat

AllocInv ==
  /\ Spread(bmap, vol.perSeg) /\ bmap.fragments = BmapFragments(vol.segs)
  /\ tbl.perFragment \in Nat \ {0} /\ tbl.segs \in Nat
  /\ Table(vol.pages)!PortionPages(TblInput) \in Nat \ {0}
  /\ Capacity(bmap, tbl) <= vol.segs

(* What validate_segbmap stored, which describes where the bitmap is. *)
HeaderInv ==
  /\ sb.bmapSegs = [s \in 0 .. bmap.chain - 1 |-> first["segbmap"] + HeaderSegment(bmap, s, 0)]
  /\ sb.perSeg = bmap.perPeb * bmap.pebs /\ sb.perPeb = bmap.perPeb

SbFields == {"nodePages", "freeSegs", "cache", "dataPages", "bmapSegs", "perSeg", "perPeb", "thresholds"}

LogType ==
  [bytes : [Extents -> Nat], off : [Extents -> Nat], page : Nat \ {0}, valid : Nat, unit : Nat,
   perSeg : Nat \ {0}, pebs : Nat, pages : Nat, length : Nat]

Size(l) == LogBytes(l.bytes, l.page)

(* A log's extents lie within its size, which is a number of pages. *)
Placed(l) ==
  /\ l \in LogType
  /\ Size(l) \in Nat \ {0} /\ (Size(l) \div l.page) * l.page = Size(l)
  /\ Tidy(l.bytes, l.off, Size(l))

Declared(l) == Size(l) <= l.pages * l.page \/ l.pages = LogMaxPages

(* The tables of a log name as many blocks as its payload has. *)
Named(l) ==
  /\ l.valid \in 1 .. 253 /\ l.valid = CeilDiv(l.bytes["payload"], l.page)
  /\ l.bytes["offsets"] = OffsetTableBytes(l.valid)
  /\ l.bytes["descs"] = BlkDescTableBytes(l.valid)

(* A log of structure s, by the bitmap's policy and the bytes of a PEB. *)
LogInv(s, l, b, erase) ==
  /\ Placed(l)
  /\ s \in {"segbmap", "maptbl"} => Named(l)
  /\ s # "snapshot" => Declared(l)
  /\ l.length > 0 =>
       /\ l.length = Size(l) /\ Size(l) <= erase /\ Declared(l)
       /\ s = "segbmap" => l.pebs = Cardinality(CommittedPebs(b))

SizesInv == (pc > 3 => VolInv) /\ (pc > 6 => AllocInv)
SbInv == DOMAIN sb = SbFields /\ sb.cache \in Nat /\ (pc > 12 => HeaderInv)
RoomInv ==
  status = "exit1" =>
    Steps[pc] # "validate segbmap" \/ Capacity(bmap, tbl) > ItemsPerFragment
LogsInv ==
  /\ DOMAIN logs # {} => pc > 15
  /\ \A s \in DOMAIN logs : LogInv(s, logs[s], bmap, EraseLen)

CreateInv == OptInv /\ SizesInv /\ SbInv /\ RoomInv /\ LogsInv

LEMMA LayoutIs ==
  ASSUME NEW o \in Commands, AcceptsOptions(o)
  PROVE  /\ Layout(o).page \in PageSizes
         /\ Layout(o).erase \in Int /\ Layout(o).seg \in Int /\ Layout(o).dies \in Nat
         /\ Layout(o).fragments \in Nat /\ Layout(o).stripes \in Nat /\ Layout(o).portions \in Nat
         /\ Layout(o).bmapLogPages \in Nat /\ Layout(o).maptblLogPages \in Nat
<1>1. \A name, v : v \in Int => With(o, name, v) \in Int
  BY CommandAssumption DEF With, Given
<1>2. With(o, "dies", 1) \in Nat
  BY CommandAssumption DEF With, Given
<1>3. \A v \in Int : U16(v) \in Nat
  BY DEF U16
<1>4. With(o, "page", 4) \in PageSizes
  BY DEF AcceptsOptions
<1>5. \A name : With(o, name, 1) \in Int /\ With(o, name, U16Max) \in Int
  <2>1. 1 \in Int /\ U16Max \in Int
    BY SMT DEF U16Max
  <2> QED BY <1>1, <2>1
<1>6. /\ U16(With(o, "fragments", 1)) \in Nat /\ U16(With(o, "stripes", 1)) \in Nat
      /\ U16(With(o, "portions", 1)) \in Nat /\ U16(With(o, "bmapLogPages", U16Max)) \in Nat
      /\ U16(With(o, "maptblLogPages", U16Max)) \in Nat
  BY <1>3, <1>5
<1>7. Layout(o).page = With(o, "page", 4) /\ Layout(o).dies = With(o, "dies", 1)
  BY SMT DEF Layout
<1>8. /\ Layout(o).fragments = U16(With(o, "fragments", 1))
      /\ Layout(o).stripes = U16(With(o, "stripes", 1))
      /\ Layout(o).portions = U16(With(o, "portions", 1))
      /\ Layout(o).bmapLogPages = U16(With(o, "bmapLogPages", U16Max))
      /\ Layout(o).maptblLogPages = U16(With(o, "maptblLogPages", U16Max))
  BY SMT DEF Layout
<1>9. Layout(o).erase \in Int /\ Layout(o).seg \in Int
  BY <1>1, SMT DEF Layout
<1> QED BY <1>2, <1>4, <1>6, <1>7, <1>8, <1>9

LEMMA AllocFrame ==
  ASSUME UNCHANGED <<opt, dev, vol, bmap, tbl>>
  PROVE  /\ VolInv => VolInv'
         /\ AllocInv => AllocInv'
         /\ UNCHANGED <<Capacity(bmap, tbl), layout, EraseLen, PageLen>>
<1>1. layout' = layout
  BY DEF layout
<1>2. TblInput' = TblInput
  BY <1>1 DEF TblInput
<1>3. Table(vol.pages)!PortionPages(TblInput)' = Table(vol.pages)!PortionPages(TblInput)
  BY <1>2
<1> QED BY <1>1, <1>3 DEF VolInv, AllocInv, Capacity, EraseLen, PageLen

LEMMA StepNumbers ==
  \A n \in 1 .. 24 :
    /\ Steps[n] = "parse" => n = 1
    /\ Steps[n] = "open" => n = 2
    /\ Steps[n] = "validate" => n = 3
    /\ Steps[n] = "mounted" => n = 4
    /\ Steps[n] = "overwrite" => n = 5
    /\ Steps[n] = "alloc" => n = 6
    /\ Steps[n] = "prepare snapshot" => n = 7
    /\ Steps[n] = "prepare superblock" => n = 8
    /\ Steps[n] = "prepare segbmap" => n = 9
    /\ Steps[n] = "prepare maptbl" => n = 10
    /\ Steps[n] = "validate superblock" => n = 11
    /\ Steps[n] = "validate segbmap" => n = 12
    /\ Steps[n] = "validate maptbl" => n = 13
    /\ Steps[n] = "validate data" => n = 14
    /\ Steps[n] = "define snapshot" => n = 15
    /\ Steps[n] = "define superblock" => n = 16
    /\ Steps[n] = "define segbmap" => n = 17
    /\ Steps[n] = "define maptbl" => n = 18
    /\ Steps[n] = "define data" => n = 19
    /\ Steps[n] = "commit snapshot" => n = 20
    /\ Steps[n] = "commit superblock" => n = 21
    /\ Steps[n] = "commit segbmap" => n = 22
    /\ Steps[n] = "commit maptbl" => n = 23
    /\ Steps[n] = "write" => n = 24
<1>1. /\ Steps[1] = "parse" /\ Steps[2] = "open" /\ Steps[3] = "validate"
      /\ Steps[4] = "mounted" /\ Steps[5] = "overwrite" /\ Steps[6] = "alloc"
      /\ Steps[7] = "prepare snapshot" /\ Steps[8] = "prepare superblock" /\ Steps[9] = "prepare segbmap"
      /\ Steps[10] = "prepare maptbl" /\ Steps[11] = "validate superblock" /\ Steps[12] = "validate segbmap"
      /\ Steps[13] = "validate maptbl" /\ Steps[14] = "validate data" /\ Steps[15] = "define snapshot"
      /\ Steps[16] = "define superblock" /\ Steps[17] = "define segbmap" /\ Steps[18] = "define maptbl"
      /\ Steps[19] = "define data" /\ Steps[20] = "commit snapshot" /\ Steps[21] = "commit superblock"
      /\ Steps[22] = "commit segbmap" /\ Steps[23] = "commit maptbl" /\ Steps[24] = "write"
  BY DEF Steps
<1> SUFFICES ASSUME NEW n \in 1 .. 24
             PROVE  /\ Steps[n] = "parse" => n = 1
                    /\ Steps[n] = "open" => n = 2
                    /\ Steps[n] = "validate" => n = 3
                    /\ Steps[n] = "mounted" => n = 4
                    /\ Steps[n] = "overwrite" => n = 5
                    /\ Steps[n] = "alloc" => n = 6
                    /\ Steps[n] = "prepare snapshot" => n = 7
                    /\ Steps[n] = "prepare superblock" => n = 8
                    /\ Steps[n] = "prepare segbmap" => n = 9
                    /\ Steps[n] = "prepare maptbl" => n = 10
                    /\ Steps[n] = "validate superblock" => n = 11
                    /\ Steps[n] = "validate segbmap" => n = 12
                    /\ Steps[n] = "validate maptbl" => n = 13
                    /\ Steps[n] = "validate data" => n = 14
                    /\ Steps[n] = "define snapshot" => n = 15
                    /\ Steps[n] = "define superblock" => n = 16
                    /\ Steps[n] = "define segbmap" => n = 17
                    /\ Steps[n] = "define maptbl" => n = 18
                    /\ Steps[n] = "define data" => n = 19
                    /\ Steps[n] = "commit snapshot" => n = 20
                    /\ Steps[n] = "commit superblock" => n = 21
                    /\ Steps[n] = "commit segbmap" => n = 22
                    /\ Steps[n] = "commit maptbl" => n = 23
                    /\ Steps[n] = "write" => n = 24
  OBVIOUS
<1>2. n \in {1, 2, 3, 4, 5, 6} \/ n \in {7, 8, 9, 10, 11, 12}
      \/ n \in {13, 14, 15, 16, 17, 18} \/ n \in {19, 20, 21, 22, 23, 24}
  OBVIOUS
<1>3. CASE n \in {1, 2, 3, 4, 5, 6}
  BY <1>1, <1>3
<1>4. CASE n \in {7, 8, 9, 10, 11, 12}
  BY <1>1, <1>4
<1>5. CASE n \in {13, 14, 15, 16, 17, 18}
  BY <1>1, <1>5
<1>6. CASE n \in {19, 20, 21, 22, 23, 24}
  BY <1>1, <1>6
<1> QED BY <1>2, <1>3, <1>4, <1>5, <1>6

(* A step that ends mkfs. *)
LEMMA EndsKeeps ==
  ASSUME CreateInv, NEW how, Ends(how),
         how = "exit1" => Steps[pc] # "validate segbmap" \/ Capacity(bmap, tbl) > ItemsPerFragment
  PROVE  CreateInv'
<1>1. UNCHANGED <<opt, dev, pc, vol, bmap, tbl, sb, first, logs>> /\ status' = how
  BY DEF Ends, inputs, made
<1>2. (VolInv => VolInv') /\ (AllocInv => AllocInv') /\ Capacity(bmap, tbl)' = Capacity(bmap, tbl)
      /\ EraseLen' = EraseLen
  BY <1>1, AllocFrame
<1>3. OptInv'
  BY <1>1 DEF CreateInv, OptInv
<1>4. SizesInv'
  BY <1>1, <1>2 DEF CreateInv, SizesInv
<1>5. SbInv'
  BY <1>1 DEF CreateInv, SbInv, HeaderInv
<1>6. RoomInv'
  BY <1>1, <1>2 DEF RoomInv
<1>7. LogsInv'
  BY <1>1, <1>2 DEF CreateInv, LogsInv
<1> QED BY <1>3, <1>4, <1>5, <1>6, <1>7 DEF CreateInv

LEMMA EndsElsewhere ==
  ASSUME CreateInv, pc # 12, NEW how, Ends(how)
  PROVE  CreateInv'
<1>1. pc \in 1 .. 24
  BY DEF CreateInv, OptInv
<1>2. Steps[pc] # "validate segbmap"
  BY <1>1, StepNumbers
<1> QED BY <1>2, EndsKeeps

(* A step that goes on and makes none of the sizes. *)
LEMMA DoneKeeps ==
  ASSUME CreateInv, Done, status = "running", pc \in 2 .. 23, pc \notin {3, 6},
         UNCHANGED <<vol, bmap, tbl>>
  PROVE  /\ OptInv' /\ SizesInv' /\ RoomInv'
         /\ EraseLen' = EraseLen /\ PageLen' = PageLen /\ pc' = pc + 1
<1>1. UNCHANGED <<opt, dev, vol, bmap, tbl>> /\ pc' = pc + 1 /\ status' = "running"
  BY DEF Done, inputs
<1>2. (VolInv => VolInv') /\ (AllocInv => AllocInv') /\ EraseLen' = EraseLen /\ PageLen' = PageLen
  BY <1>1, AllocFrame
<1>3. OptInv'
  BY <1>1 DEF CreateInv, OptInv
<1>4. SizesInv'
  BY <1>1, <1>2 DEF CreateInv, SizesInv
<1>5. RoomInv'
  BY <1>1 DEF RoomInv
<1> QED BY <1>1, <1>2, <1>3, <1>4, <1>5

LEMMA LogsKept ==
  ASSUME LogsInv, UNCHANGED <<logs, bmap>>, EraseLen' = EraseLen \/ DOMAIN logs = {},
         pc \in Nat, pc' \in Nat, pc' >= pc
  PROVE  LogsInv'
  BY DEF LogsInv

LEMMA SbKept ==
  ASSUME SbInv, UNCHANGED <<sb, bmap, first>>, pc \in Nat, pc > 12 \/ pc' = pc \/ ~(pc' > 12)
  PROVE  SbInv'
  BY DEF SbInv, HeaderInv

LEMMA InitCreate == Init => CreateInv
<1> SUFFICES ASSUME Init PROVE CreateInv
  OBVIOUS
<1>1. OptInv /\ SizesInv
  BY DEF Init, OptInv, SizesInv
<1>2. SbInv
  BY DEF Init, SbInv, SbFields
<1>3. RoomInv
  BY DEF Init, RoomInv
<1>4. LogsInv
  <2>1. DOMAIN logs = {}
    BY DEF Init
  <2> QED BY <2>1 DEF LogsInv
<1> QED BY <1>1, <1>2, <1>3, <1>4 DEF CreateInv

(* The steps of a session that make nothing. *)
LEMMA SessionCreate ==
  ASSUME CreateInv,
         \/ ParseOptions \/ OpenDevice \/ IsDeviceMounted \/ ProbeDevice \/ AnswerQuestion
         \/ NoMemory \/ WriteDevice
  PROVE  CreateInv'
<1>1. pc \in 1 .. 24
  BY DEF CreateInv, OptInv
<1>2. CASE pc # 12 /\ (Ends("exit0") \/ Ends("exit1") \/ Ends("died"))
  BY <1>2, EndsElsewhere
<1>3. CASE /\ status = "running" /\ Done /\ UNCHANGED made
           /\ pc \in {1, 2, 4, 5} /\ (pc = 1 => AcceptsOptions(opt))
  <2>1. UNCHANGED <<opt, dev, vol, bmap, tbl, sb, first, logs>> /\ pc' = pc + 1
        /\ status' = "running" /\ pc' <= 6
    BY <1>3 DEF Done, inputs, made
  <2>2. (VolInv => VolInv') /\ EraseLen' = EraseLen
    BY <2>1, AllocFrame
  <2>3. OptInv'
    BY <1>1, <1>3, <2>1 DEF CreateInv, OptInv
  <2>4. SizesInv'
    BY <1>1, <1>3, <2>1, <2>2 DEF CreateInv, SizesInv
  <2>5. RoomInv'
    BY <2>1 DEF RoomInv
  <2>6. SbInv'
    BY <1>1, <2>1, SbKept DEF CreateInv
  <2>7. LogsInv'
    BY <1>1, <2>1, <2>2, LogsKept DEF CreateInv
  <2> QED BY <2>3, <2>4, <2>5, <2>6, <2>7 DEF CreateInv
<1>4. CASE UNCHANGED <<inputs, pc, made>> /\ pc # 12
  <2>1. UNCHANGED <<opt, dev, pc, vol, bmap, tbl, sb, first, logs>>
    BY <1>4 DEF inputs, made
  <2>2. (VolInv => VolInv') /\ (AllocInv => AllocInv') /\ EraseLen' = EraseLen
    BY <2>1, AllocFrame
  <2>3. OptInv' /\ SizesInv'
    BY <2>1, <2>2 DEF CreateInv, OptInv, SizesInv
  <2>4. RoomInv'
    BY <1>1, <1>4, <2>1, StepNumbers DEF RoomInv
  <2>5. SbInv' /\ LogsInv'
    BY <1>1, <2>1, <2>2, SbKept, LogsKept DEF CreateInv
  <2> QED BY <2>3, <2>4, <2>5 DEF CreateInv
<1>5. CASE ParseOptions
  <2>1. pc = 1
    BY <1>1, <1>5, StepNumbers DEF ParseOptions, At
  <2> QED BY <1>2, <1>3, <1>5, <2>1 DEF ParseOptions, At, made
<1>6. CASE OpenDevice
  <2>1. pc = 2
    BY <1>1, <1>6, StepNumbers DEF OpenDevice, At
  <2> QED BY <1>2, <1>3, <1>6, <2>1 DEF OpenDevice, At, made
<1>7. CASE IsDeviceMounted
  <2>1. pc = 4
    BY <1>1, <1>7, StepNumbers DEF IsDeviceMounted, At
  <2> QED BY <1>3, <1>4, <1>7, <2>1 DEF IsDeviceMounted, At
<1>8. CASE ProbeDevice
  <2>1. pc = 5
    BY <1>1, <1>8, StepNumbers DEF ProbeDevice, At
  <2> QED BY <1>3, <1>4, <1>8, <2>1 DEF ProbeDevice, At
<1>9. CASE AnswerQuestion
  <2>1. pc = 5
    BY <1>1, <1>9, StepNumbers DEF AnswerQuestion, At
  <2> QED BY <1>3, <1>4, <1>9, <2>1 DEF AnswerQuestion, At, vars, inputs, made
<1>10. CASE NoMemory
  <2>1. pc # 12
    <3>1. PICK step \in {"alloc", "prepare segbmap", "prepare maptbl", "validate maptbl",
                         "define snapshot", "define superblock", "define segbmap", "define maptbl"} :
            Steps[pc] = step
      BY <1>10 DEF NoMemory, At
    <3>2. step # "validate segbmap"
      OBVIOUS
    <3>3. Steps[12] = "validate segbmap"
      BY DEF Steps
    <3> QED BY <3>1, <3>2, <3>3
  <2> QED BY <1>2, <1>10, <2>1 DEF NoMemory, At
<1>11. CASE WriteDevice
  <2>1. pc = 24
    BY <1>1, <1>11, StepNumbers DEF WriteDevice, At
  <2> QED BY <1>4, <1>11, <2>1 DEF WriteDevice, At
<1> QED BY <1>5, <1>6, <1>7, <1>8, <1>9, <1>10, <1>11

LEMMA DeviceIs ==
  \A d \in Devices : d.zone \in Nat \ {0} /\ d.size \in Nat
  BY InputAssumption

(* The sizes of the volume, from the options and the device. *)
LEMMA ValidatedIs ==
  ASSUME NEW l, NEW d \in Devices, l.page \in PageSizes, l.erase \in Int, l.seg \in Int,
         ~BadSizes(l, d)
  PROVE  LET v == Validated(l, d)
         IN  /\ v.page \in PageSizes /\ v.erase \in Nat \ {0} /\ v.perSeg \in Nat \ {0}
             /\ v.segs \in Nat /\ v.pages \in Nat
<1> DEFINE erase == IF d.zns THEN d.zone ELSE l.erase
           seg == IF d.zns THEN d.zone ELSE l.seg
<1>1. l.page \in Nat \ {0}
  BY DEF PageSizes
<1>2. d.zone \in Nat \ {0} /\ d.size \in Nat
  BY DeviceIs
<1>3. l.erase \in Nat \ {0} /\ l.seg >= l.erase
  <2>1. ~(l.page >= l.erase) /\ ~(l.seg < l.erase)
    BY DEF BadSizes
  <2> QED BY <1>1, <2>1
<1>4. erase \in Nat \ {0} /\ seg \in Nat /\ seg >= erase
  BY <1>2, <1>3
<1> HIDE DEF erase, seg
<1>5. seg \div erase \in Nat \ {0}
  <2>1. seg \div erase \in Nat /\ seg = (seg \div erase) * erase + (seg % erase)
        /\ seg % erase \in 0 .. erase - 1
    BY <1>4, DivMod
  <2> DEFINE q == seg \div erase
  <2> HIDE DEF q
  <2>2. q = 0 => q * erase = 0
    BY <1>4, SMT
  <2>3. q # 0
    BY <1>4, <2>1, <2>2 DEF q
  <2> QED BY <2>1, <2>3 DEF q
<1>6. d.size \div seg \in Nat /\ erase \div l.page \in Nat
  <2>1. \A x \in Nat, y \in Nat \ {0} : x \div y \in Nat
    BY DivMod
  <2>2. seg \in Nat \ {0} /\ erase \in Nat
    BY <1>4
  <2> QED BY <1>1, <1>2, <2>1, <2>2
<1>7. /\ Validated(l, d).page = l.page /\ Validated(l, d).erase = erase
      /\ Validated(l, d).perSeg = seg \div erase /\ Validated(l, d).segs = d.size \div seg
      /\ Validated(l, d).pages = erase \div l.page
  BY DEF Validated, erase, seg
<1> QED BY <1>4, <1>5, <1>6, <1>7

LEMMA ValidateCreate ==
  ASSUME CreateInv, ValidateOptions
  PROVE  CreateInv'
<1>1. pc = 3 /\ status = "running"
  BY StepNumbers DEF CreateInv, OptInv, ValidateOptions, At
<1>2. CASE Ends("exit1")
  BY <1>1, <1>2, EndsElsewhere
<1>3. CASE ~BadSizes(layout, dev) /\ vol' = Validated(layout, dev) /\ Done
           /\ UNCHANGED <<host, bmap, tbl, sb, first, logs, written>>
  <2>1. opt' = opt /\ dev' = dev /\ pc' = 4 /\ status' = "running"
    BY <1>1, <1>3 DEF Done, inputs
  <2>2. layout.page \in PageSizes /\ layout.erase \in Int /\ layout.seg \in Int /\ dev \in Devices
    BY <1>1, LayoutIs DEF CreateInv, OptInv, layout
  <2>3. VolInv'
    BY <1>3, <2>2, ValidatedIs DEF VolInv
  <2>4. OptInv' /\ SizesInv' /\ RoomInv'
    BY <1>1, <2>1, <2>3 DEF CreateInv, OptInv, SizesInv, RoomInv
  <2>5. SbInv'
    BY <1>1, <1>3, <2>1, SbKept DEF CreateInv
  <2>6. LogsInv'
    <3>1. LogsInv
      BY DEF CreateInv
    <3>2. DOMAIN logs = {}
      <4>1. ~(pc > 15)
        BY <1>1
      <4> QED BY <3>1, <4>1 DEF LogsInv
    <3>3. UNCHANGED <<logs, bmap>> /\ pc \in Nat /\ pc' \in Nat /\ pc' >= pc
      BY <1>1, <1>3, <2>1
    <3> QED BY <3>1, <3>2, <3>3, LogsKept
  <2> QED BY <2>4, <2>5, <2>6 DEF CreateInv
<1> QED BY <1>2, <1>3 DEF ValidateOptions

(* alloc_segs_array: none of its checks failed. *)
LEMMA AllocRuns ==
  ASSUME AllocOutcome = "running"
  PROVE  /\ ~BadShare(BmapInput) /\ ~TooLong(BmapInput)
         /\ ~TblDivides(TblInput) /\ ~TblUnsound(TblInput)
         /\ ~(Capacity(Policy(BmapInput), Table(vol.pages)!Geometry(TblInput)) > vol.segs \div 2)
<1>1. SegbmapOutcome(BmapInput) = "running" /\ MaptblOutcome(TblInput) = "running"
      /\ ~(Capacity(Policy(BmapInput), Table(vol.pages)!Geometry(TblInput)) > vol.segs \div 2)
  BY DEF AllocOutcome
<1>2. ~BadShare(BmapInput) /\ ~TooLong(BmapInput)
  BY <1>1 DEF SegbmapOutcome
<1>3. ~TblDivides(TblInput) /\ ~TblUnsound(TblInput)
  BY <1>1 DEF MaptblOutcome
<1> QED BY <1>1, <1>2, <1>3

LEMMA AllocCreate ==
  ASSUME CreateInv, AllocSegsArray
  PROVE  CreateInv'
<1>1. pc = 6 /\ status = "running"
  BY StepNumbers DEF CreateInv, OptInv, AllocSegsArray, At
<1>2. CASE AllocOutcome \in {"died", "exit1"} /\ Ends(AllocOutcome)
  BY <1>1, <1>2, EndsElsewhere
<1>3. CASE /\ AllocOutcome = "running"
           /\ bmap' = Policy(BmapInput)
           /\ tbl' = Table(vol.pages)!Geometry(TblInput)
           /\ Done /\ UNCHANGED <<host, vol, sb, first, logs, written>>
  <2>1. UNCHANGED <<opt, dev, vol, sb, first, logs>> /\ pc' = 7 /\ status' = "running"
    BY <1>1, <1>3 DEF Done, inputs
  <2>2. VolInv /\ AcceptsOptions(opt) /\ opt \in Commands
    BY <1>1 DEF CreateInv, SizesInv, OptInv
  <2>3. /\ layout.fragments \in Nat /\ layout.stripes \in Nat /\ layout.portions \in Nat
        /\ layout.dies \in Nat
    BY <2>2, LayoutIs DEF layout
  <2>4. /\ vol.segs \in Nat /\ vol.perSeg \in Nat \ {0} /\ vol.pages \in Nat
    BY <2>2 DEF VolInv
  <2>5. /\ Spread(Policy(BmapInput), vol.perSeg)
        /\ Policy(BmapInput).fragments = BmapFragments(vol.segs)
        /\ vol.segs # 0
    <3>1. /\ BmapInput.segs = vol.segs /\ BmapInput.perSeg = vol.perSeg
          /\ BmapInput.pages = vol.pages /\ BmapInput.asked = layout.fragments
      BY DEF BmapInput
    <3>2. ~BadShare(BmapInput) /\ ~TooLong(BmapInput)
      BY <1>3, AllocRuns
    <3> HIDE DEF BmapInput
    <3> QED BY <2>3, <2>4, <3>1, <3>2, PolicySpreads
  <2>6. /\ Table(vol.pages)!PortionPages(TblInput) \in Nat \ {0}
        /\ Table(vol.pages)!Geometry(TblInput).perFragment \in Nat \ {0}
        /\ Table(vol.pages)!Geometry(TblInput).segs \in Nat
    <3> DEFINE t == TblInput
    <3>1. /\ t.pebs = vol.segs * vol.perSeg /\ t.perSeg = vol.perSeg /\ t.stripes = layout.stripes
          /\ t.portions = layout.portions /\ t.dies = layout.dies
      BY DEF TblInput
    <3>2. ~TblDivides(t) /\ ~TblUnsound(t)
      BY <1>3, AllocRuns
    <3> HIDE DEF t
    <3>3. t.pebs \in Nat \ {0}
      <4>1. vol.segs * vol.perSeg \in Nat \ {0}
        BY <2>4, <2>5, SMT
      <4> QED BY <3>1, <4>1
    <3>4. /\ t.perSeg \in Nat \ {0} /\ t.stripes \in Nat /\ t.portions \in Nat /\ t.dies \in Nat
      BY <2>3, <2>4, <3>1
    <3>5. /\ Table(vol.pages)!PebDescPerStripe(t) # 0
          /\ ~(Table(vol.pages)!PortionPages(t) > vol.pages) /\ t.portions # 0
      BY <3>2 DEF TblUnsound
    <3>6. (t.stripes = 0) = (t.dies = 0) /\ ~(t.stripes = 0 /\ t.zns)
      BY <3>2 DEF TblDivides
    <3>7. t.portions \in Nat \ {0}
      BY <3>4, <3>5
    <3>8. Table(vol.pages)!PortionPages(t) \in Nat \ {0}
      BY <2>4, <3>3, <3>4, <3>5, <3>6, PortionIs
    <3>9. /\ Table(vol.pages)!Geometry(t).perFragment \in Nat \ {0}
          /\ Table(vol.pages)!Geometry(t).segs \in Nat
      BY <2>4, <3>3, <3>4, <3>5, <3>6, <3>7, GeometryIs
    <3> QED BY <3>8, <3>9 DEF t
  <2>7. AllocInv'
    <3>1. layout' = layout
      BY <2>1 DEF layout
    <3>2. TblInput' = TblInput
      BY <2>1, <3>1 DEF TblInput
    <3>3. Table(vol.pages)!PortionPages(TblInput)' = Table(vol.pages)!PortionPages(TblInput)
      BY <2>1, <3>2
    <3>4. Capacity(bmap', tbl') <= vol.segs
      <4>1. ~(Capacity(bmap', tbl') > vol.segs \div 2)
        BY <1>3, AllocRuns
      <4>2. Capacity(bmap', tbl') \in Nat
        <5>1. bmap'.segs \in Nat
          BY <1>3, <2>5 DEF Spread, MaxChain
        <5>2. tbl'.segs \in Nat
          BY <1>3, <2>6
        <5> QED BY <5>1, <5>2 DEF Capacity, SbSegs
      <4>3. vol.segs \div 2 \in Nat /\ vol.segs \div 2 <= vol.segs
        BY <2>4
      <4> QED BY <2>4, <4>1, <4>2, <4>3
    <3>5. bmap'.fragments = BmapFragments(vol.segs) /\ Spread(bmap', vol.perSeg)
          /\ tbl'.perFragment \in Nat \ {0} /\ tbl'.segs \in Nat
      BY <1>3, <2>5, <2>6
    <3>6. vol' = vol
      BY <2>1
    <3> QED BY <2>6, <3>3, <3>4, <3>5, <3>6 DEF AllocInv
  <2>8. VolInv'
    BY <2>1, <2>2 DEF VolInv
  <2>9. OptInv' /\ SizesInv' /\ RoomInv'
    BY <1>1, <2>1, <2>7, <2>8 DEF CreateInv, OptInv, SizesInv, RoomInv
  <2>10. SbInv'
    BY <2>1 DEF CreateInv, SbInv
  <2>11. LogsInv'
    <3>1. ~(pc > 15)
      BY <1>1
    <3>2. DOMAIN logs = {}
      BY <3>1 DEF CreateInv, LogsInv
    <3> QED BY <2>1, <3>2 DEF LogsInv
  <2> QED BY <2>9, <2>10, <2>11 DEF CreateInv
<1> QED BY <1>2, <1>3 DEF AllocSegsArray

(* The place of every step of the four passes. *)
LEMMA PassPlaces ==
  ASSUME CreateInv
  PROVE  /\ Prepare \/ Validate \/ Define \/ CommitAll => status = "running"
         /\ PrepareSnapshot => pc = 7
         /\ PrepareSuperblock => pc = 8
         /\ PrepareSegbmap => pc = 9
         /\ PrepareMaptbl => pc = 10
         /\ ValidateSuperblock => pc = 11
         /\ ValidateSegbmap => pc = 12
         /\ ValidateMaptbl => pc = 13
         /\ ValidateUserData => pc = 14
         /\ DefineSnapshot => pc = 15
         /\ DefineSuperblock => pc = 16
         /\ DefineSegbmap => pc = 17
         /\ DefineMaptbl => pc = 18
         /\ DefineUserData => pc = 19
         /\ CommitSnapshot => pc = 20
         /\ CommitSuperblock => pc = 21
         /\ CommitSegbmap => pc = 22
         /\ CommitMaptbl => pc = 23
<1>1. pc \in 1 .. 24
  BY DEF CreateInv, OptInv
<1>2. /\ PrepareSnapshot => status = "running" /\ Steps[pc] = "prepare snapshot"
      /\ PrepareSuperblock => status = "running" /\ Steps[pc] = "prepare superblock"
      /\ PrepareSegbmap => status = "running" /\ Steps[pc] = "prepare segbmap"
      /\ PrepareMaptbl => status = "running" /\ Steps[pc] = "prepare maptbl"
  BY DEF PrepareSnapshot, PrepareSuperblock, PrepareSegbmap, PrepareMaptbl, At
<1>3. /\ ValidateSuperblock => status = "running" /\ Steps[pc] = "validate superblock"
      /\ ValidateSegbmap => status = "running" /\ Steps[pc] = "validate segbmap"
      /\ ValidateMaptbl => status = "running" /\ Steps[pc] = "validate maptbl"
      /\ ValidateUserData => status = "running" /\ Steps[pc] = "validate data"
  BY DEF ValidateSuperblock, ValidateSegbmap, ValidateMaptbl, ValidateUserData, At
<1>4. /\ DefineSnapshot => status = "running" /\ Steps[pc] = "define snapshot"
      /\ DefineSuperblock => status = "running" /\ Steps[pc] = "define superblock"
      /\ DefineSegbmap => status = "running" /\ Steps[pc] = "define segbmap"
      /\ DefineMaptbl => status = "running" /\ Steps[pc] = "define maptbl"
      /\ DefineUserData => status = "running" /\ Steps[pc] = "define data"
  BY DEF DefineSnapshot, DefineSuperblock, DefineSegbmap, DefineMaptbl, DefineUserData, At
<1>5. /\ CommitSnapshot => status = "running" /\ Steps[pc] = "commit snapshot"
      /\ CommitSuperblock => status = "running" /\ Steps[pc] = "commit superblock"
      /\ CommitSegbmap => status = "running" /\ Steps[pc] = "commit segbmap"
      /\ CommitMaptbl => status = "running" /\ Steps[pc] = "commit maptbl"
  BY DEF CommitSnapshot, CommitSuperblock, CommitSegbmap, CommitMaptbl, At
<1>6. (PrepareSnapshot => pc = 7) /\ (PrepareSuperblock => pc = 8)
      /\ (PrepareSegbmap => pc = 9) /\ (PrepareMaptbl => pc = 10)
  BY <1>1, <1>2, StepNumbers
<1>7. (ValidateSuperblock => pc = 11) /\ (ValidateSegbmap => pc = 12)
      /\ (ValidateMaptbl => pc = 13) /\ (ValidateUserData => pc = 14)
  BY <1>1, <1>3, StepNumbers
<1>8. (DefineSnapshot => pc = 15) /\ (DefineSuperblock => pc = 16)
      /\ (DefineSegbmap => pc = 17) /\ (DefineMaptbl => pc = 18) /\ (DefineUserData => pc = 19)
  BY <1>1, <1>4, StepNumbers
<1>9. (CommitSnapshot => pc = 20) /\ (CommitSuperblock => pc = 21)
      /\ (CommitSegbmap => pc = 22) /\ (CommitMaptbl => pc = 23)
  BY <1>1, <1>5, StepNumbers
<1>10. Prepare \/ Validate \/ Define \/ CommitAll => status = "running"
  BY <1>2, <1>3, <1>4, <1>5 DEF Prepare, Validate, Define, CommitAll
<1> QED BY <1>6, <1>7, <1>8, <1>9, <1>10

(* The first pass reserves segments. *)
LEMMA PrepareCreate ==
  ASSUME CreateInv, Prepare
  PROVE  CreateInv'
<1>1. pc \in 7 .. 10 /\ status = "running"
  BY PassPlaces DEF Prepare
<1>2. CASE Ends("exit1") \/ Ends("died")
  BY <1>1, <1>2, EndsElsewhere
<1>3. CASE /\ Done /\ UNCHANGED <<vol, bmap, tbl, logs>>
           /\ DOMAIN sb' = DOMAIN sb /\ sb'.cache = sb.cache
  <2>1. OptInv' /\ SizesInv' /\ RoomInv' /\ EraseLen' = EraseLen /\ pc' = pc + 1
    BY <1>1, <1>3, DoneKeeps
  <2>2. SbInv'
    BY <1>1, <1>3, <2>1 DEF CreateInv, SbInv
  <2>3. LogsInv'
    <3>1. LogsInv
      BY DEF CreateInv
    <3>2. pc \in Nat /\ pc' \in Nat /\ pc' >= pc
      BY <1>1, <2>1
    <3>3. UNCHANGED <<logs, bmap>>
      BY <1>3
    <3> QED BY <2>1, <3>1, <3>2, <3>3, LogsKept
  <2> QED BY <2>1, <2>2, <2>3 DEF CreateInv
<1>4. PrepareSnapshot \/ PrepareSegbmap =>
        Done /\ UNCHANGED <<vol, bmap, tbl, sb, logs>>
  BY DEF PrepareSnapshot, PrepareSegbmap
<1>5. PrepareMaptbl => Ends("died") \/ (Done /\ UNCHANGED <<vol, bmap, tbl, sb, logs>>)
  BY DEF PrepareMaptbl
<1>6. PrepareSuperblock =>
        Ends("exit1") \/ Ends("died")
        \/ (Done /\ UNCHANGED <<vol, bmap, tbl, logs>>
            /\ \E n : sb' = [sb EXCEPT !.nodePages = n])
  BY DEF PrepareSuperblock
<1>7. DOMAIN sb = SbFields
  BY DEF CreateInv, SbInv
<1>8. \A n : LET r == [sb EXCEPT !.nodePages = n] IN DOMAIN r = DOMAIN sb /\ r.cache = sb.cache
  BY <1>7 DEF SbFields
<1> QED BY <1>2, <1>3, <1>4, <1>5, <1>6, <1>8 DEF Prepare

(* The mapping table's cache has a whole number of bytes. *)
LEMMA CacheSizesNat ==
  ASSUME VolInv, AllocInv, NEW bytes \in CacheSizes
  PROVE  bytes \in Nat
<1>1. PageLen \in Nat /\ PageLen >= 4096
  BY DEF VolInv, PageSizes, PageLen
<1>2. PairsPerFragment \in Nat \ {0}
  BY <1>1 DEF PairsPerFragment
<1>3. MetadataLebs \in Nat
  <2>1. /\ vol.perSeg \in Nat /\ tbl.segs \in Nat /\ bmap.segs \in Nat /\ bmap.pebs \in Nat
    BY DEF VolInv, AllocInv, Spread, MaxChain
  <2>2. \A a, b, c, d \in Nat : 1 + 6 * a + c * d + b * a \in Nat
    BY SMT
  <2> QED BY <2>1, <2>2 DEF MetadataLebs, SbSegs
<1>4. CacheFragments \in Nat
  BY <1>2, <1>3, CeilDivIs DEF CacheFragments
<1>5. PICK again \in (IF vol.scattered THEN 0 .. CacheFragments - 1 ELSE {0}) :
        bytes = 36 * CacheFragments + 20 * (MetadataLebs + again)
  BY DEF CacheSizes
<1>6. again \in Nat
  BY <1>4, <1>5
<1> QED BY <1>3, <1>4, <1>5, <1>6

(* The second pass completes the superblock; the segment bitmap is found   *)
(* to have no room for the metadata only if one fragment has none.         *)
LEMMA ValidateStepCreate ==
  ASSUME CreateInv, Validate
  PROVE  CreateInv'
<1>1. pc \in 11 .. 14 /\ status = "running"
  BY PassPlaces DEF Validate
<1>2. VolInv /\ AllocInv /\ DOMAIN sb = SbFields /\ sb.cache \in Nat /\ (pc > 12 => HeaderInv)
  BY <1>1 DEF CreateInv, SizesInv, SbInv
<1>3. CASE /\ Done /\ UNCHANGED <<vol, bmap, tbl, first, logs>>
           /\ DOMAIN sb' = SbFields /\ sb'.cache \in Nat
           /\ pc >= 12 => HeaderInv'
  <2>1. OptInv' /\ SizesInv' /\ RoomInv' /\ EraseLen' = EraseLen /\ pc' = pc + 1
    BY <1>1, <1>3, DoneKeeps
  <2>2. SbInv'
    BY <1>1, <1>3, <2>1 DEF SbInv
  <2>3. LogsInv'
    <3>1. LogsInv
      BY DEF CreateInv
    <3>2. pc \in Nat /\ pc' \in Nat /\ pc' >= pc
      BY <1>1, <2>1
    <3>3. UNCHANGED <<logs, bmap>>
      BY <1>3
    <3> QED BY <2>1, <3>1, <3>2, <3>3, LogsKept
  <2> QED BY <2>1, <2>2, <2>3 DEF CreateInv
<1>4. CASE ValidateSuperblock
  <2>1. pc = 11
    BY <1>4, PassPlaces
  <2>2. DOMAIN sb' = SbFields /\ sb'.cache = sb.cache
    BY <1>2, <1>4 DEF ValidateSuperblock, SbFields
  <2>3. Done /\ UNCHANGED <<vol, bmap, tbl, first, logs>>
    BY <1>4 DEF ValidateSuperblock
  <2>4. ~(pc >= 12) /\ sb'.cache \in Nat
    BY <1>2, <2>1, <2>2
  <2> QED BY <1>3, <2>2, <2>3, <2>4
<1>5. CASE ValidateSegbmap
  <2>1. CASE ~RoomForMetadata(bmap, vol.segs, Capacity(bmap, tbl)) /\ Ends("exit1")
    <3>1. Capacity(bmap, tbl) > ItemsPerFragment
      <4>1. /\ Capacity(bmap, tbl) \in Nat /\ Capacity(bmap, tbl) <= vol.segs
            /\ vol.segs \in Nat /\ bmap.perPeb \in Nat \ {0}
        BY <1>2 DEF AllocInv, VolInv, Spread, Capacity, SbSegs, MaxChain
      <4>2. ItemsPerFragment = 8128
        BY DEF ItemsPerFragment, PageBytes, FragmentHdr
      <4>3. \A c, n \in Nat : \A p \in Nat \ {0} :
              c <= n /\ ~(c <= Least(p * 8128, n)) => c > 8128
        BY DEF Least
      <4> HIDE DEF Capacity
      <4>4. ~(Capacity(bmap, tbl) <= Least(bmap.perPeb * 8128, vol.segs))
        BY <2>1, <4>2 DEF RoomForMetadata
      <4> QED BY <4>1, <4>2, <4>3, <4>4
    <3> QED BY <2>1, <3>1, EndsKeeps
  <2>2. CASE RoomForMetadata(bmap, vol.segs, Capacity(bmap, tbl))
    <3>1. /\ Done /\ UNCHANGED <<host, vol, bmap, tbl, first, logs, written>>
          /\ sb' = [sb EXCEPT
               !.bmapSegs = [s \in 0 .. bmap.chain - 1 |-> first["segbmap"] + HeaderSegment(bmap, s, 0)],
               !.perSeg = bmap.perPeb * bmap.pebs, !.perPeb = bmap.perPeb,
               !.thresholds["segbmap"] = Threshold("segbmap")]
      BY <1>5, <2>2 DEF ValidateSegbmap
    <3>2. /\ DOMAIN sb' = SbFields /\ sb'.cache = sb.cache
          /\ sb'.bmapSegs = [s \in 0 .. bmap.chain - 1 |-> first["segbmap"] + HeaderSegment(bmap, s, 0)]
          /\ sb'.perSeg = bmap.perPeb * bmap.pebs /\ sb'.perPeb = bmap.perPeb
      BY <1>2, <3>1 DEF SbFields
    <3>3. HeaderInv'
      BY <3>1, <3>2 DEF HeaderInv, HeaderSegment
    <3>4. UNCHANGED <<vol, bmap, tbl, first, logs>> /\ sb'.cache \in Nat
      BY <1>2, <3>1, <3>2
    <3> QED BY <1>3, <3>1, <3>2, <3>3, <3>4
  <2> QED BY <1>5, <2>1, <2>2 DEF ValidateSegbmap
<1>6. CASE ValidateMaptbl
  <2>0. pc = 13
    BY <1>6, PassPlaces
  <2>1. CASE Ends("exit1") \/ Ends("died")
    BY <2>0, <2>1, EndsElsewhere
  <2>2. CASE ~(Ends("exit1") \/ Ends("died"))
    <3>1. PICK bytes \in CacheSizes :
            sb' = [sb EXCEPT !.cache = bytes, !.thresholds["maptbl"] = Threshold("maptbl")]
      BY <1>6, <2>2 DEF ValidateMaptbl
    <3>2. Done /\ UNCHANGED <<host, vol, bmap, tbl, first, logs, written>>
      BY <1>6, <2>2 DEF ValidateMaptbl
    <3>3. /\ DOMAIN sb' = SbFields /\ sb'.cache = bytes
          /\ sb'.bmapSegs = sb.bmapSegs /\ sb'.perSeg = sb.perSeg /\ sb'.perPeb = sb.perPeb
      BY <1>2, <3>1 DEF SbFields
    <3>4. bytes \in Nat
      BY <1>2, CacheSizesNat
    <3>5. HeaderInv'
      BY <1>2, <2>0, <3>2, <3>3 DEF HeaderInv, HeaderSegment
    <3> QED BY <1>3, <3>2, <3>3, <3>4, <3>5
  <2> QED BY <2>1, <2>2
<1>7. CASE ValidateUserData
  <2>0. pc = 14
    BY <1>7, PassPlaces
  <2>1. /\ sb' = [sb EXCEPT !.thresholds["data"] = Threshold("data")]
        /\ Done /\ UNCHANGED <<host, vol, bmap, tbl, first, logs, written>>
    BY <1>7 DEF ValidateUserData
  <2>2. /\ DOMAIN sb' = SbFields /\ sb'.cache = sb.cache
        /\ sb'.bmapSegs = sb.bmapSegs /\ sb'.perSeg = sb.perSeg /\ sb'.perPeb = sb.perPeb
    BY <1>2, <2>1 DEF SbFields
  <2>3. HeaderInv'
    BY <1>2, <2>0, <2>1, <2>2 DEF HeaderInv, HeaderSegment
  <2> QED BY <1>2, <1>3, <2>1, <2>2, <2>3
<1> QED BY <1>4, <1>5, <1>6, <1>7 DEF Validate

(* The third pass lays out the logs, the fourth commits them.  A step that *)
(* goes on with one log more, or with one changed.                         *)
LEMMA LogStep ==
  ASSUME CreateInv, Done, status = "running", pc \in 15 .. 23,
         UNCHANGED <<vol, bmap, tbl, sb, first>>, NEW s, NEW l,
         s \in DOMAIN logs' => LogInv(s, l, bmap, EraseLen),
         \A x \in DOMAIN logs' : IF x = s THEN logs'[x] = l ELSE x \in DOMAIN logs /\ logs'[x] = logs[x]
  PROVE  CreateInv'
<1>1. OptInv' /\ SizesInv' /\ RoomInv' /\ EraseLen' = EraseLen /\ pc' = pc + 1
  BY DoneKeeps
<1>2. SbInv'
  <2>1. SbInv /\ pc \in Nat /\ pc > 12
    BY DEF CreateInv
  <2> QED BY <2>1, SbKept
<1>3. LogsInv'
  <2>1. \A x \in DOMAIN logs' : LogInv(x, logs'[x], bmap, EraseLen)
    BY DEF CreateInv, LogsInv
  <2>2. pc' > 15
    BY <1>1
  <2> QED BY <1>1, <2>1, <2>2 DEF LogsInv
<1> QED BY <1>1, <1>2, <1>3 DEF CreateInv

LEMMA SnapshotCreate ==
  ASSUME CreateInv, DefineSnapshot
  PROVE  CreateInv'
<1> DEFINE l == NewLog(BareLog, 1024, PageCache)
<1>1. pc = 15 /\ status = "running"
  BY PassPlaces DEF Define
<1>2. /\ l.bytes = BareLog /\ l.off = StartOffsets(BareLog, 1024, PageCache) /\ l.page = PageCache
      /\ l.length = 0
  BY DEF NewLog
<1>3. l \in LogType
  <2>1. BareLog \in [Extents -> Nat] /\ StartOffsets(BareLog, 1024, PageCache) \in [Extents -> Nat]
    BY BareIs, SnapshotPlaced
  <2>2. PageCache \in Nat \ {0}
    BY DEF PageCache
  <2> QED BY <2>1, <2>2 DEF LogType, NewLog
<1>4. Size(l) = 8192 /\ Tidy(l.bytes, l.off, Size(l))
  BY <1>2, SnapshotPlaced DEF Size
<1>5. 8192 \in Nat \ {0} /\ (8192 \div PageCache) * PageCache = 8192
  BY SMT DEF PageCache
<1>6. LogInv("snapshot", l, bmap, EraseLen)
  <2> HIDE DEF l
  <2>1. Placed(l)
    BY <1>2, <1>3, <1>4, <1>5, SMT DEF Placed
  <2> QED BY <1>2, <2>1 DEF LogInv
<1>7. /\ Done /\ UNCHANGED <<vol, bmap, tbl, sb, first>>
      /\ logs' = Added(logs, "snapshot", l)
  BY DEF DefineSnapshot
<1> HIDE DEF l
<1>8. \A x \in DOMAIN logs' :
        IF x = "snapshot" THEN logs'[x] = l ELSE x \in DOMAIN logs /\ logs'[x] = logs[x]
  BY <1>7 DEF Added
<1> QED BY <1>1, <1>6, <1>7, <1>8, LogStep

LEMMA PageLenIs ==
  ASSUME VolInv
  PROVE  PageLen \in Nat \ {0} /\ PageLen >= 4096 /\ EraseLen \in Nat
  BY DEF VolInv, PageSizes, PageLen, EraseLen

LEMMA SuperblockCreate ==
  ASSUME CreateInv, DefineSuperblock
  PROVE  CreateInv'
<1> DEFINE l == SbLog
           size == LogBytes(SbBytes(sb.cache), PageCache)
           n == size \div PageCache
<1>1. pc = 16 /\ status = "running"
  BY PassPlaces DEF Define
<1>2. CASE Ends("died")
  BY <1>1, <1>2, EndsElsewhere
<1>3. CASE ~Ends("died")
  <2>1. /\ Done /\ UNCHANGED <<vol, bmap, tbl, sb, first>>
        /\ logs' = Added(logs, "superblock", l)
    BY <1>3 DEF DefineSuperblock
  <2>2. sb.cache \in Nat /\ PageLen \in Nat /\ PageLen >= 4096
    BY <1>1, PageLenIs DEF CreateInv, SbInv, SizesInv
  <2>3. /\ SbBytes(sb.cache) \in [Extents -> Nat]
        /\ SbOffsets(sb.cache, PageLen) \in [Extents -> Nat]
        /\ size \in Nat \ {0} /\ n * PageCache = size
        /\ Tidy(SbBytes(sb.cache), SbOffsets(sb.cache, PageLen), size)
    BY <2>2, SuperblockPlaced
  <2>4. n \in Nat /\ Least(n, LogMaxPages) \in Nat
    <3>1. n \in Nat
      BY <2>3 DEF PageCache
    <3> QED BY <3>1 DEF Least, LogMaxPages
  <2>5. l = [bytes |-> SbBytes(sb.cache), off |-> SbOffsets(sb.cache, PageLen), page |-> PageCache,
             valid |-> 0, unit |-> 0, perSeg |-> 1, pebs |-> 1, pages |-> Least(n, LogMaxPages),
             length |-> 0]
    <3> DEFINE b == SbBytes(sb.cache)
               o == StartOffsets(b, 0, PageCache)
               k == NewLog(b, 0, PageCache)
               at == IF sb.cache <= PageLen - HdrSize THEN HdrSize ELSE o["cache"]
    <3>1. k = [bytes |-> b, off |-> o, page |-> PageCache, valid |-> 0, unit |-> 0,
               perSeg |-> 1, pebs |-> 1, pages |-> 0, length |-> 0]
      BY DEF NewLog
    <3>2. Pages(k) = n
      BY <3>1 DEF Pages
    <3>3. l = [k EXCEPT !.off["cache"] = IF sb.cache <= PageLen - HdrSize THEN HdrSize ELSE @,
                        !.pages = Least(Pages(k), LogMaxPages)]
      BY DEF SbLog, SbBytes
    <3>4. SbOffsets(sb.cache, PageLen) = [o EXCEPT !["cache"] = at]
      BY DEF SbOffsets
    <3> HIDE DEF b, o, k, n, l
    <3>5. l = [bytes |-> b, off |-> [o EXCEPT !["cache"] = at], page |-> PageCache, valid |-> 0,
               unit |-> 0, perSeg |-> 1, pebs |-> 1, pages |-> Least(n, LogMaxPages), length |-> 0]
      BY <3>1, <3>2, <3>3
    <3> QED BY <3>4, <3>5 DEF b
  <2>6. PageCache \in Nat \ {0}
    BY DEF PageCache
  <2> HIDE DEF l, size, n
  <2>7. l \in LogType
    BY <2>3, <2>4, <2>5, <2>6 DEF LogType
  <2>8. Size(l) = size /\ l.page = PageCache /\ l.pages = Least(n, LogMaxPages) /\ l.length = 0
        /\ l.bytes = SbBytes(sb.cache) /\ l.off = SbOffsets(sb.cache, PageLen)
    BY <2>5 DEF Size, size
  <2>9. Placed(l)
    BY <2>3, <2>7, <2>8 DEF Placed, n
  <2>10. Declared(l)
    <3>1. Least(n, LogMaxPages) = n \/ Least(n, LogMaxPages) = LogMaxPages
      BY DEF Least
    <3> QED BY <2>3, <2>8, <3>1 DEF Declared
  <2>11. LogInv("superblock", l, bmap, EraseLen)
    BY <2>8, <2>9, <2>10 DEF LogInv
  <2>12. \A x \in DOMAIN logs' :
          IF x = "superblock" THEN logs'[x] = l ELSE x \in DOMAIN logs /\ logs'[x] = logs[x]
    BY <2>1 DEF Added
  <2> QED BY <1>1, <2>1, <2>11, <2>12, LogStep
<1> QED BY <1>2, <1>3

(* The logs of the segment bitmap and of the mapping table. *)
TableBytes(payload, valid, packed) ==
  [pre_commit_block_descriptors(
     pre_commit_offset_table(pre_commit_block_bitmap(BareLog, packed), valid), valid)
   EXCEPT !["payload"] = payload]

LEMMA TableBytesAre ==
  ASSUME VolInv, NEW payload \in Nat, NEW valid \in 1 .. 253, NEW packed \in Packed
  PROVE  LET bytes == TableBytes(payload, valid, packed)
         IN  /\ bytes \in [Extents -> Nat]
             /\ bytes["header"] = HdrSize /\ bytes["footer"] = FooterSize /\ bytes["cache"] = 0
             /\ bytes["offsets"] = OffsetTableBytes(valid)
             /\ bytes["descs"] = BlkDescTableBytes(valid) /\ bytes["payload"] = payload
<1> DEFINE size == BlkBmapHeaders(vol.pages) + BlkBmapContent(vol.pages, layout.blkbmap, packed)
           table == OffsetTableBytes(valid)
           descs == BlkDescTableBytes(valid)
           copy == IF layout.blkbmapCopy THEN size ELSE 0
           again == IF layout.tableCopy THEN table ELSE 0
<1>1. size \in Nat
  <2>1. packed \in Nat /\ vol.pages \in Nat
    BY InputAssumption DEF VolInv
  <2>2. \A n \in Nat : \A d \in Nat \ {0} : CeilDiv(n, d) \in Nat
    BY CeilDivIs
  <2>3. BlkBmapBytes(vol.pages) \in Nat
    BY <2>1, <2>2 DEF BlkBmapBytes
  <2>4. BlkBmapHeaders(vol.pages) \in Nat
    <3>1. BlkBmapFragments(vol.pages) \in Nat
      BY <2>2, <2>3 DEF BlkBmapFragments, PageCache
    <3> QED BY <3>1 DEF BlkBmapHeaders
  <2>5. BlkBmapContent(vol.pages, layout.blkbmap, packed) \in Nat
    <3>1. BlkBmapBytes(vol.pages) * packed \in Nat
      BY <2>1, <2>3, SMT
    <3>2. CeilDiv(BlkBmapBytes(vol.pages) * packed, 100) \in Nat
      BY <2>2, <3>1
    <3> QED BY <2>3, <3>2 DEF BlkBmapContent
  <2> QED BY <2>4, <2>5
<1>2. table \in Nat /\ descs \in Nat
  BY Described, OneOffsetFragment
<1> HIDE DEF size, table, descs
<1>3. copy \in Nat /\ again \in Nat
  BY <1>1, <1>2
<1> HIDE DEF copy, again
<1>4. TableBytes(payload, valid, packed) =
        [[[[BareLog EXCEPT !["bitmap"] = size, !["bitmapCopy"] = copy]
            EXCEPT !["offsets"] = table, !["offsetsCopy"] = again]
              EXCEPT !["descs"] = descs] EXCEPT !["payload"] = payload]
  BY DEF TableBytes, pre_commit_block_descriptors, pre_commit_offset_table,
         pre_commit_block_bitmap, size, table, descs, copy, again
<1>5. BareLog \in [Extents -> Nat]
      /\ BareLog["header"] = 2048 /\ BareLog["footer"] = 2048 /\ BareLog["cache"] = 0
  BY BareIs DEF Extents
<1>6. LET bytes == TableBytes(payload, valid, packed)
      IN  /\ bytes \in [Extents -> Nat]
          /\ bytes["header"] = 2048 /\ bytes["footer"] = 2048 /\ bytes["cache"] = 0
          /\ bytes["offsets"] = table /\ bytes["descs"] = descs /\ bytes["payload"] = payload
  BY <1>1, <1>2, <1>3, <1>4, <1>5 DEF Extents
<1> QED BY <1>6 DEF HdrSize, FooterSize, table, descs

LEMMA TableLogIs ==
  ASSUME VolInv, NEW payload \in Nat \ {0}, NEW unit \in Nat, NEW perSeg \in Nat \ {0},
         NEW pebs \in Nat, NEW packed \in Packed,
         ~TooManyBlocks(TableLog(payload, unit, perSeg, pebs, packed))
  PROVE  LET l == TableLog(payload, unit, perSeg, pebs, packed)
         IN  Placed(l) /\ Named(l) /\ l.length = 0
<1> DEFINE l == TableLog(payload, unit, perSeg, pebs, packed)
           valid == CeilDiv(payload, PageLen)
           bytes == TableBytes(payload, valid, packed)
           off == StartOffsets(bytes, 0, PageLen)
<1>1. PageLen \in Nat \ {0} /\ PageLen >= 4096
  BY PageLenIs
<1>2. valid \in Nat \ {0}
  <2>1. payload \in Nat /\ payload > 0
    OBVIOUS
  <2>2. \A a \in Nat : \A b \in Nat \ {0} : a > 0 => CeilDiv(a, b) \in Nat /\ CeilDiv(a, b) > 0
    BY CeilDivIs
  <2>3. valid \in Nat /\ valid > 0
    BY <1>1, <2>1, <2>2
  <2> QED BY <2>3
<1>3. l = [bytes |-> bytes, off |-> off, page |-> PageLen, valid |-> valid, unit |-> unit,
           perSeg |-> perSeg, pebs |-> pebs, pages |-> 0, length |-> 0]
  <2> DEFINE k == NewLog(bytes, 0, PageLen)
  <2>1. l = [k EXCEPT
               !.valid = valid, !.unit = unit, !.perSeg = perSeg, !.pebs = pebs]
    BY DEF TableLog, TableBytes
  <2>2. k =
          [bytes |-> bytes, off |-> off, page |-> PageLen,
           valid |-> 0, unit |-> 0, perSeg |-> 1, pebs |-> 1, pages |-> 0, length |-> 0]
    BY DEF NewLog
  <2> HIDE DEF l, k, bytes, off, valid
  <2> QED BY <2>1, <2>2
<1>4. valid \in 1 .. 253
  <2>1. ~(perSeg * valid > Least(vol.perSeg * vol.pages, 253))
    BY <1>3 DEF TooManyBlocks, UsedBlocks, OffDescPerFragment
  <2>2. vol.perSeg * vol.pages \in Nat
    BY SMT DEF VolInv
  <2>3. \A n \in Nat : Least(n, 253) \in Nat /\ Least(n, 253) <= 253
    BY DEF Least
  <2> HIDE DEF valid
  <2>4. perSeg * valid \in Nat /\ valid <= perSeg * valid
    BY <1>2, SMT
  <2> QED BY <1>2, <2>1, <2>2, <2>3, <2>4
<1>5. /\ bytes \in [Extents -> Nat]
      /\ bytes["header"] = HdrSize /\ bytes["footer"] = FooterSize /\ bytes["cache"] = 0
      /\ bytes["offsets"] = OffsetTableBytes(valid)
      /\ bytes["descs"] = BlkDescTableBytes(valid) /\ bytes["payload"] = payload
  BY <1>4, TableBytesAre
<1>6. /\ off \in [Extents -> Nat]
      /\ LogBytes(bytes, PageLen) \in Nat \ {0}
      /\ (LogBytes(bytes, PageLen) \div PageLen) * PageLen = LogBytes(bytes, PageLen)
      /\ Tidy(bytes, off, LogBytes(bytes, PageLen))
  BY <1>1, <1>5, TablesPlaced
<1> HIDE DEF l, bytes, off, valid
<1>7. l \in LogType
  BY <1>1, <1>3, <1>4, <1>5, <1>6 DEF LogType
<1>8. /\ l.bytes = bytes /\ l.off = off /\ l.page = PageLen /\ l.valid = valid /\ l.length = 0
      /\ Size(l) = LogBytes(bytes, PageLen)
  BY <1>3 DEF Size
<1>9. Placed(l)
  BY <1>6, <1>7, <1>8 DEF Placed
<1>10. Named(l)
  BY <1>4, <1>5, <1>8 DEF Named, valid
<1> QED BY <1>8, <1>9, <1>10 DEF l

(* A table is laid out: the log declares its pages. *)
LEMMA TableCreate ==
  ASSUME CreateInv, status = "running", pc \in {17, 18}, NEW s \in {"segbmap", "maptbl"},
         NEW payload \in Nat \ {0}, NEW unit \in Nat, NEW perSeg \in Nat \ {0},
         NEW pebs \in Nat, NEW packed \in Packed, NEW given \in Nat, NEW missing \in BOOLEAN,
         DefineTable(s, TableLog(payload, unit, perSeg, pebs, packed), given, missing)
  PROVE  CreateInv'
<1> DEFINE l == TableLog(payload, unit, perSeg, pebs, packed)
           n == SetLogPages(Pages(l), given, vol.pages)
           m == [l EXCEPT !.pages = n]
<1>1. CASE Ends("exit1") \/ Ends("died")
  BY <1>1, EndsElsewhere
<1>2. CASE ~(Ends("exit1") \/ Ends("died"))
  <2>1. /\ ~LayoutDies(l, given) /\ logs' = Added(logs, s, m)
        /\ Done /\ UNCHANGED <<vol, bmap, tbl, sb, first>>
    BY <1>2 DEF DefineTable
  <2>2. VolInv
    BY DEF CreateInv, SizesInv
  <2>3. ~TooManyBlocks(l) /\ ~NoDivisor(Pages(l), given, vol.pages)
    BY <2>1 DEF LayoutDies
  <2>4. Placed(l) /\ Named(l) /\ l.length = 0
    BY <2>2, <2>3, TableLogIs
  <2> HIDE DEF l
  <2>5. Pages(l) * l.page = Size(l) /\ l.page \in Nat \ {0} /\ Size(l) \in Nat \ {0} /\ l \in LogType
    BY <2>4 DEF Placed, Pages, Size, LogType
  <2>6. Pages(l) \in Nat \ {0}
    <3>1. Size(l) \div l.page \in Nat
      BY <2>5, DivMod
    <3>2. Pages(l) = Size(l) \div l.page
      BY DEF Pages, Size
    <3>3. Pages(l) = 0 => Pages(l) * l.page = 0
      BY <2>5, <3>1, <3>2, SMT
    <3> QED BY <2>5, <3>1, <3>2, <3>3
  <2>7. n \in Nat /\ (Pages(l) <= n \/ n = LogMaxPages)
    BY <2>2, <2>3, <2>6, DeclaredPages DEF VolInv
  <2> HIDE DEF n
  <2>8. /\ m \in LogType /\ m.bytes = l.bytes /\ m.off = l.off /\ m.page = l.page
        /\ m.valid = l.valid /\ m.length = 0 /\ m.pages = n
    BY <2>4, <2>5, <2>7 DEF LogType
  <2> HIDE DEF m
  <2>9. Size(m) = Size(l)
    BY <2>8 DEF Size
  <2>10. Placed(m) /\ Named(m)
    BY <2>4, <2>8, <2>9 DEF Placed, Named
  <2>11. Declared(m)
    <3>1. Pages(l) <= n => Pages(l) * l.page <= n * l.page
      BY <2>5, <2>6, <2>7, SMT
    <3> QED BY <2>5, <2>7, <2>8, <2>9, <3>1 DEF Declared
  <2>12. LogInv(s, m, bmap, EraseLen)
    BY <2>8, <2>10, <2>11 DEF LogInv
  <2>13. \A x \in DOMAIN logs' :
          IF x = s THEN logs'[x] = m ELSE x \in DOMAIN logs /\ logs'[x] = logs[x]
    BY <2>1 DEF Added
  <2> QED BY <2>1, <2>12, <2>13, LogStep
<1> QED BY <1>1, <1>2

LEMMA DefineCreate ==
  ASSUME CreateInv, Define
  PROVE  CreateInv'
<1>1. CASE DefineSnapshot
  BY <1>1, SnapshotCreate
<1>2. CASE DefineSuperblock
  BY <1>2, SuperblockCreate
<1>3. pc > 6 => /\ VolInv /\ AllocInv /\ layout.bmapLogPages \in Nat /\ layout.maptblLogPages \in Nat
                /\ PageLen \in Nat \ {0}
  <2> SUFFICES ASSUME pc > 6
               PROVE  /\ VolInv /\ AllocInv /\ layout.bmapLogPages \in Nat
                      /\ layout.maptblLogPages \in Nat /\ PageLen \in Nat \ {0}
    OBVIOUS
  <2>1. pc \in Nat /\ opt \in Commands /\ AcceptsOptions(opt)
    BY DEF CreateInv, OptInv
  <2>2. VolInv /\ AllocInv
    BY <2>1 DEF CreateInv, SizesInv
  <2>3. layout.bmapLogPages \in Nat /\ layout.maptblLogPages \in Nat
    BY <2>1, LayoutIs DEF layout
  <2> QED BY <2>2, <2>3, PageLenIs
<1>4. \A x, y \in Nat \ {0} : x * y \in Nat \ {0}
  BY SMT
<1>5. CASE DefineSegbmap
  <2>1. pc = 17 /\ status = "running"
    BY <1>5, PassPlaces DEF Define
  <2>2. AllocInv /\ layout.bmapLogPages \in Nat /\ PageLen \in Nat \ {0}
    BY <1>3, <2>1
  <2>3. /\ bmap.perPeb \in Nat \ {0} /\ bmap.pebs \in Nat \ {0} /\ bmap.segs \in Nat
        /\ bmap.fragments \in Nat
    BY <2>2 DEF AllocInv, Spread, MaxChain
  <2>4. bmap.perPeb * PageLen \in Nat \ {0}
    BY <1>4, <2>2, <2>3
  <2>5. PlacedPebs(bmap) \in Nat
    <3>1. bmap.segs * bmap.pebs \in Nat
      BY <2>3, SMT
    <3>2. \A x, y \in Nat : Least(x, y) \in Nat
      BY DEF Least
    <3> QED BY <2>3, <3>1, <3>2 DEF PlacedPebs
  <2>6. PlacesBeyondBuffers(bmap) \in BOOLEAN
    BY DEF PlacesBeyondBuffers
  <2>7. PICK packed \in Packed :
          DefineTable("segbmap",
            TableLog(bmap.perPeb * PageLen, PageLen, bmap.pebs, PlacedPebs(bmap), packed),
            layout.bmapLogPages, PlacesBeyondBuffers(bmap))
    BY <1>5 DEF DefineSegbmap
  <2>8. pc \in {17, 18} /\ "segbmap" \in {"segbmap", "maptbl"} /\ PageLen \in Nat
    BY <2>1, <2>2
  <2> QED BY <2>1, <2>2, <2>3, <2>4, <2>5, <2>6, <2>7, <2>8, TableCreate
<1>6. CASE DefineMaptbl
  <2> DEFINE portion == Table(vol.pages)!PortionPages(TblInput) * PageLen
  <2>1. pc = 18 /\ status = "running"
    BY <1>6, PassPlaces DEF Define
  <2>2. VolInv /\ AllocInv /\ layout.maptblLogPages \in Nat /\ PageLen \in Nat \ {0}
    BY <1>3, <2>1
  <2>3. /\ vol.perSeg \in Nat \ {0} /\ tbl.perFragment \in Nat \ {0} /\ tbl.segs \in Nat
        /\ Table(vol.pages)!PortionPages(TblInput) \in Nat \ {0}
    BY <2>2 DEF AllocInv, VolInv
  <2>4. portion \in Nat \ {0}
    BY <1>4, <2>2, <2>3
  <2>5. PICK packed \in Packed :
          DefineTable("maptbl",
            TableLog(portion * tbl.perFragment, portion, vol.perSeg, tbl.segs * vol.perSeg, packed),
            layout.maptblLogPages, FALSE)
    BY <1>6 DEF DefineMaptbl
  <2> HIDE DEF portion
  <2>6. portion * tbl.perFragment \in Nat \ {0}
    BY <1>4, <2>3, <2>4
  <2>7. tbl.segs * vol.perSeg \in Nat
    BY <2>3, SMT
  <2>8. pc \in {17, 18} /\ "maptbl" \in {"segbmap", "maptbl"} /\ portion \in Nat /\ FALSE \in BOOLEAN
    BY <2>1, <2>4
  <2> QED BY <2>1, <2>2, <2>3, <2>5, <2>6, <2>7, <2>8, TableCreate
<1>7. CASE DefineUserData
  <2>1. pc = 19 /\ status = "running"
    BY <1>7, PassPlaces DEF Define
  <2>2. CASE Ends("died")
    BY <2>1, <2>2, EndsElsewhere
  <2>3. CASE ~Ends("died")
    <3>1. PICK n : sb' = [sb EXCEPT !.dataPages = n]
      BY <1>7, <2>3 DEF DefineUserData
    <3>2. Done /\ UNCHANGED <<vol, bmap, tbl, first, logs>>
      BY <1>7, <2>3 DEF DefineUserData
    <3>3. OptInv' /\ SizesInv' /\ RoomInv' /\ EraseLen' = EraseLen /\ pc' = pc + 1
      <4>1. pc \in 2 .. 23 /\ pc \notin {3, 6}
        BY <2>1
      <4>2. UNCHANGED <<vol, bmap, tbl>>
        BY <3>2
      <4> QED BY <2>1, <3>2, <4>1, <4>2, DoneKeeps
    <3>4. SbInv'
      <4>1. DOMAIN sb = SbFields /\ sb.cache \in Nat /\ HeaderInv
        BY <2>1 DEF CreateInv, SbInv
      <4>2. /\ DOMAIN sb' = SbFields /\ sb'.cache = sb.cache
            /\ sb'.bmapSegs = sb.bmapSegs /\ sb'.perSeg = sb.perSeg /\ sb'.perPeb = sb.perPeb
        BY <3>1, <4>1 DEF SbFields
      <4>3. HeaderInv'
        BY <3>2, <4>1, <4>2 DEF HeaderInv, HeaderSegment
      <4> QED BY <4>1, <4>2, <4>3 DEF SbInv
    <3>5. LogsInv'
      <4>1. LogsInv /\ UNCHANGED <<logs, bmap>> /\ pc \in Nat /\ pc' \in Nat /\ pc' >= pc
        BY <2>1, <3>2, <3>3 DEF CreateInv
      <4> QED BY <3>3, <4>1, LogsKept
    <3> QED BY <3>3, <3>4, <3>5 DEF CreateInv
  <2> QED BY <2>2, <2>3
<1> QED BY <1>1, <1>2, <1>5, <1>6, <1>7 DEF Define

(* A log that is committed fits its PEB; its footer states its size. *)
LEMMA CommitOne ==
  ASSUME CreateInv, status = "running", pc \in 20 .. 23, NEW s, NEW l, Commit(s, l),
         s \in DOMAIN logs =>
           LogInv(s, l, bmap, EraseLen) /\ Declared(l)
           /\ (s = "segbmap" => l.pebs = Cardinality(CommittedPebs(bmap)))
  PROVE  CreateInv'
<1> DEFINE n == StatedBytes(l)
           m == [l EXCEPT !.length = n]
<1>1. CASE Ends("died")
  BY <1>1, EndsElsewhere
<1>2. CASE ~Ends("died")
  <2>1. /\ ~CommitDies(l) /\ logs' = [logs EXCEPT ![s] = m]
        /\ Done /\ UNCHANGED <<vol, bmap, tbl, sb, first>>
    BY <1>2 DEF Commit
  <2>2. ~(Size(l) > EraseLen)
    BY <2>1 DEF CommitDies, Size
  <2>3. s \in DOMAIN logs => LogInv(s, m, bmap, EraseLen)
    <3> SUFFICES ASSUME s \in DOMAIN logs PROVE LogInv(s, m, bmap, EraseLen)
      OBVIOUS
    <3>1. LogInv(s, l, bmap, EraseLen) /\ Declared(l) /\ Placed(l)
      BY DEF LogInv
    <3>2. n = Size(l) /\ n \in Nat \ {0} /\ l \in LogType
      BY <3>1 DEF Placed, StatedBytes, Pages, Size
    <3>3. EraseLen \in Nat
      <4>1. VolInv
        BY DEF CreateInv, SizesInv
      <4> QED BY <4>1, PageLenIs
    <3>4. n <= EraseLen
      BY <2>2, <3>2, <3>3
    <3> HIDE DEF n
    <3>5. /\ m \in LogType /\ m.bytes = l.bytes /\ m.off = l.off /\ m.page = l.page
          /\ m.valid = l.valid /\ m.length = n /\ m.pages = l.pages /\ m.pebs = l.pebs
      BY <3>2 DEF LogType
    <3> HIDE DEF m
    <3>6. Size(m) = Size(l)
      BY <3>5 DEF Size
    <3>7. Placed(m) /\ Declared(m)
      BY <3>1, <3>5, <3>6 DEF Placed, Declared
    <3>8. s \in {"segbmap", "maptbl"} => Named(m)
      BY <3>1, <3>5 DEF LogInv, Named
    <3>9. s = "segbmap" => m.pebs = Cardinality(CommittedPebs(bmap))
      BY <3>5
    <3>10. m.length = Size(m) /\ Size(m) <= EraseLen
      BY <3>2, <3>4, <3>5, <3>6
    <3> QED BY <3>7, <3>8, <3>9, <3>10 DEF LogInv
  <2> HIDE DEF m
  <2>4. DOMAIN logs' = DOMAIN logs /\ \A x \in DOMAIN logs :
          IF x = s THEN logs'[x] = m ELSE logs'[x] = logs[x]
    BY <2>1
  <2>5. pc \in 15 .. 23
    OBVIOUS
  <2> QED BY <2>1, <2>3, <2>4, <2>5, LogStep
<1> QED BY <1>1, <1>2

LEMMA CommitCreate ==
  ASSUME CreateInv, CommitAll
  PROVE  CreateInv'
<1>1. pc \in 20 .. 23 /\ status = "running"
  BY PassPlaces DEF CommitAll
<1>2. \A s \in DOMAIN logs : LogInv(s, logs[s], bmap, EraseLen)
  BY DEF CreateInv, LogsInv
<1>3. CASE CommitSnapshot
  <2> DEFINE k == logs["snapshot"]
             n == Least(Pages(k), LogMaxPages)
             l == [k EXCEPT !.pages = n]
  <2>1. Commit("snapshot", l)
    BY <1>3 DEF CommitSnapshot
  <2>2. "snapshot" \in DOMAIN logs => LogInv("snapshot", l, bmap, EraseLen) /\ Declared(l)
    <3> SUFFICES ASSUME "snapshot" \in DOMAIN logs
                 PROVE  LogInv("snapshot", l, bmap, EraseLen) /\ Declared(l)
      OBVIOUS
    <3>1. LogInv("snapshot", k, bmap, EraseLen)
      BY <1>2
    <3> HIDE DEF k
    <3>2. Placed(k) /\ k \in LogType /\ (k.length > 0 => k.length = Size(k) /\ Size(k) <= EraseLen)
      BY <3>1 DEF LogInv, Placed
    <3>3. k.page \in Nat \ {0} /\ Size(k) \in Nat /\ Pages(k) * k.page = Size(k)
      BY <3>2 DEF Placed, LogType, Pages, Size
    <3>4. Pages(k) \in Nat
      <4>1. Size(k) \div k.page \in Nat
        BY <3>3, DivMod
      <4> QED BY <4>1 DEF Pages, Size
    <3>5. n \in Nat /\ (n = Pages(k) \/ n = LogMaxPages)
      BY <3>4 DEF Least, LogMaxPages
    <3> HIDE DEF n
    <3>6. /\ l \in LogType /\ l.bytes = k.bytes /\ l.off = k.off /\ l.page = k.page
          /\ l.length = k.length /\ l.pages = n
      BY <3>2, <3>5 DEF LogType
    <3> HIDE DEF l
    <3>7. Size(l) = Size(k)
      BY <3>6 DEF Size
    <3>8. Placed(l)
      BY <3>2, <3>6, <3>7 DEF Placed
    <3>9. Declared(l)
      BY <3>3, <3>5, <3>6, <3>7 DEF Declared
    <3> QED BY <3>2, <3>6, <3>7, <3>8, <3>9 DEF LogInv
  <2> QED BY <1>1, <2>1, <2>2, CommitOne
<1>4. CASE CommitSuperblock
  <2>1. Commit("superblock", logs["superblock"])
    BY <1>4 DEF CommitSuperblock
  <2>2. "superblock" \in DOMAIN logs =>
          LogInv("superblock", logs["superblock"], bmap, EraseLen) /\ Declared(logs["superblock"])
    BY <1>2 DEF LogInv
  <2> QED BY <1>1, <2>1, <2>2, CommitOne
<1>5. CASE CommitMaptbl
  <2>1. Commit("maptbl", logs["maptbl"])
    BY <1>5 DEF CommitMaptbl
  <2>2. "maptbl" \in DOMAIN logs =>
          LogInv("maptbl", logs["maptbl"], bmap, EraseLen) /\ Declared(logs["maptbl"])
    BY <1>2 DEF LogInv
  <2> QED BY <1>1, <2>1, <2>2, CommitOne
<1>6. CASE CommitSegbmap
  <2> DEFINE k == logs["segbmap"]
             n == Cardinality(CommittedPebs(bmap))
             l == [k EXCEPT !.pebs = n]
  <2>1. Commit("segbmap", l)
    BY <1>6 DEF CommitSegbmap
  <2>2. n \in Nat
    <3>1. Spread(bmap, vol.perSeg) /\ vol.perSeg \in Nat
      BY <1>1 DEF CreateInv, SizesInv, AllocInv, VolInv
    <3> QED BY <3>1, CommittedAre
  <2>3. "segbmap" \in DOMAIN logs =>
          LogInv("segbmap", l, bmap, EraseLen) /\ Declared(l) /\ l.pebs = n
    <3> SUFFICES ASSUME "segbmap" \in DOMAIN logs
                 PROVE  LogInv("segbmap", l, bmap, EraseLen) /\ Declared(l) /\ l.pebs = n
      OBVIOUS
    <3>1. LogInv("segbmap", k, bmap, EraseLen)
      BY <1>2
    <3> HIDE DEF k, n
    <3>2. /\ Placed(k) /\ Named(k) /\ Declared(k) /\ k \in LogType
          /\ (k.length > 0 => k.length = Size(k) /\ Size(k) <= EraseLen)
      BY <3>1 DEF LogInv, Placed
    <3>3. /\ l \in LogType /\ l.bytes = k.bytes /\ l.off = k.off /\ l.page = k.page
          /\ l.valid = k.valid /\ l.length = k.length /\ l.pages = k.pages /\ l.pebs = n
      BY <2>2, <3>2 DEF LogType
    <3> HIDE DEF l
    <3>4. Size(l) = Size(k)
      BY <3>3 DEF Size
    <3>5. Placed(l) /\ Named(l) /\ Declared(l)
      BY <3>2, <3>3, <3>4 DEF Placed, Named, Declared
    <3> QED BY <3>2, <3>3, <3>4, <3>5 DEF LogInv, n
  <2> QED BY <1>1, <2>1, <2>3, CommitOne
<1> QED BY <1>3, <1>4, <1>5, <1>6 DEF CommitAll

LEMMA NextCreate == CreateInv /\ [Next]_vars => CreateInv'
<1> SUFFICES ASSUME CreateInv, [Next]_vars PROVE CreateInv'
  OBVIOUS
<1>1. CASE Session
  BY <1>1, SessionCreate, ValidateCreate, AllocCreate DEF Session
<1>2. CASE UNCHANGED vars
  <2>1. UNCHANGED <<opt, dev, pc, status, vol, bmap, tbl, sb, first, logs>>
    BY <1>2 DEF vars, made
  <2>2. (VolInv => VolInv') /\ (AllocInv => AllocInv') /\ Capacity(bmap, tbl)' = Capacity(bmap, tbl)
        /\ EraseLen' = EraseLen
    BY <2>1, AllocFrame
  <2>3. OptInv' /\ SizesInv' /\ RoomInv'
    BY <2>1, <2>2 DEF CreateInv, OptInv, SizesInv, RoomInv
  <2>4. SbInv' /\ LogsInv'
    BY <2>1, <2>2 DEF CreateInv, SbInv, HeaderInv, LogsInv
  <2> QED BY <2>3, <2>4 DEF CreateInv
<1> QED
  BY <1>1, <1>2, PrepareCreate, ValidateStepCreate, DefineCreate, CommitCreate DEF Next

LEMMA CreateInvariant == Spec => []CreateInv
  BY InitCreate, NextCreate, PTL DEF Spec

(* Every log that mkfs_create has committed, whatever the options and the  *)
(* device: its extents do not overlap, lie within the length its footer    *)
(* states, which lies in the PEB and within the pages declared by its      *)
(* header.                                                                 *)
THEOREM MkfsLogsInBounds == Spec => []LogsInBounds
<1>1. CreateInv => LogsInBounds
  <2> SUFFICES ASSUME CreateInv, NEW s \in Committed
               PROVE  LET l == logs[s]
                          copies == {"bitmapCopy", "offsetsCopy"}
                      IN  /\ \A x, y \in Present(l) :
                               \/ x = y \/ {x, y} = copies
                               \/ End(l, x) <= l.off[y] \/ End(l, y) <= l.off[x]
                          /\ \A x \in Present(l) \ copies : End(l, x) <= l.length
                          /\ \A x \in Present(l) \cap copies : l.off[x] <= l.length
                          /\ l.length <= EraseLen
                          /\ l.length <= l.pages * l.page \/ l.pages = LogMaxPages
    BY DEF LogsInBounds
  <2> DEFINE l == logs[s]
  <2>1. LogInv(s, l, bmap, EraseLen) /\ l.length > 0
    BY DEF CreateInv, LogsInv, Committed
  <2> HIDE DEF l
  <2>2. Tidy(l.bytes, l.off, l.length) /\ l.length <= EraseLen
    BY <2>1 DEF LogInv, Placed
  <2>3. l.length <= l.pages * l.page \/ l.pages = LogMaxPages
    BY <2>1 DEF LogInv, Declared
  <2> QED BY <2>2, <2>3 DEF Tidy, Present, End, l
<1> QED BY <1>1, CreateInvariant, PTL

(* Every block of a committed segment bitmap or mapping table is found,    *)
(* through the offset table and the block descriptors, in the payload.     *)
THEOREM MkfsBlocksResolve == Spec => []BlocksResolve
<1>1. CreateInv => BlocksResolve
  <2> SUFFICES ASSUME CreateInv, NEW s \in Committed \cap {"segbmap", "maptbl"}
               PROVE  LET l == logs[s]
                          blocks == 0 .. l.valid - 1
                      IN  /\ DescribedBlocks(l.valid) = blocks \/ l.valid % BlkDescPerFragment = 0
                          /\ OffsetTableWritten(l.valid) = l.bytes["offsets"]
                             \/ l.valid % OffDescPerFragment = 0
                          /\ \A k \in 0 .. Least(l.pebs, 4) - 1 : \A i \in DescribedBlocks(l.valid) :
                               LET start == (k % l.perSeg) * l.valid
                                   item == OffsetItem(i, start, (k * l.unit) \div l.page)
                                   desc == BlockDescriptor(i, start, k * l.bytes["payload"], l.page)
                               IN  /\ item.blk = desc.blk /\ item.at = desc.at
                                   /\ item.page = desc.page \/ l.unit # l.bytes["payload"]
                                   /\ item.at + BlkDescSize <= l.bytes["descs"]
                                   /\ desc.byte + l.page <= RoundUp(l.bytes["payload"], l.page)
                                   /\ desc.byte = i * l.page
    BY DEF BlocksResolve
  <2> DEFINE l == logs[s]
             payload == l.bytes["payload"]
             v == l.valid
  <2>1. LogInv(s, l, bmap, EraseLen)
    BY DEF CreateInv, LogsInv, Committed
  <2> HIDE DEF l
  <2>2. Named(l) /\ l \in LogType
    BY <2>1 DEF LogInv, Placed
  <2>3. /\ v \in 1 .. 253 /\ v = CeilDiv(payload, l.page)
        /\ l.bytes["offsets"] = OffsetTableBytes(v) /\ l.bytes["descs"] = BlkDescTableBytes(v)
    BY <2>2 DEF Named
  <2>4. l.page \in Nat \ {0} /\ payload \in Nat /\ l.unit \in Nat /\ l.pebs \in Nat
    BY <2>2 DEF LogType, Extents
  <2>5. DescribedBlocks(v) = 0 .. v - 1 \/ v % BlkDescPerFragment = 0
    BY <2>3, Described
  <2>6. OffsetTableWritten(v) = l.bytes["offsets"] \/ v % OffDescPerFragment = 0
    BY <2>3, OneOffsetFragment
  <2>7. ASSUME NEW k \in 0 .. Least(l.pebs, 4) - 1, NEW i \in DescribedBlocks(v)
        PROVE  Resolves(i, k, (k % l.perSeg) * v, l.unit, payload, l.page, BlkDescTableBytes(v))
    <3>1. k \in Nat
      OBVIOUS
    <3> HIDE DEF v, payload
    <3> QED BY <2>3, <2>4, <2>7, <3>1, BlockFound
  <2> QED BY <2>3, <2>5, <2>6, <2>7 DEF l, Resolves
<1> QED BY <1>1, CreateInvariant, PTL

(* The segment bitmap of every volume of less than 1048513 segments has a  *)
(* state for each of them, and the header of the volume says where its     *)
(* fragments were committed.                                               *)
THEOREM MkfsBitmapComplete == Spec => []BitmapComplete
<1>1. CreateInv => BitmapComplete
  <2> SUFFICES ASSUME CreateInv PROVE BitmapComplete
    OBVIOUS
  <2>1. RoomInv
    BY DEF CreateInv
  <2>2. ASSUME "segbmap" \in Committed
        PROVE  /\ vol.segs < UncountedSegs => bmap.fragments * ItemsPerFragment >= vol.segs
               /\ (bmap.copy /\ bmap.chain > 1) \/
                  \A f \in 0 .. bmap.fragments - 1 :
                    LET k == Fragment(bmap, f, vol.segs).buffer
                        peb == (f % sb.perSeg) \div sb.perPeb
                    IN  /\ k < logs["segbmap"].pebs
                        /\ first["segbmap"] + k \div bmap.pebs = sb.bmapSegs[f \div sb.perSeg]
                        /\ k % bmap.pebs = peb
                        /\ peb < vol.perSeg
    <3>1. pc > 15 /\ pc \in Nat /\ LogInv("segbmap", logs["segbmap"], bmap, EraseLen)
          /\ logs["segbmap"].length > 0
      BY <2>2 DEF CreateInv, OptInv, LogsInv, Committed
    <3>2. VolInv /\ AllocInv /\ HeaderInv
      BY <3>1 DEF CreateInv, SizesInv, SbInv
    <3>3. Spread(bmap, vol.perSeg) /\ bmap.fragments = BmapFragments(vol.segs)
          /\ vol.segs \in Nat /\ vol.perSeg \in Nat
      BY <3>2 DEF VolInv, AllocInv
    <3>4. vol.segs < UncountedSegs => bmap.fragments * ItemsPerFragment >= vol.segs
      BY <3>3, FragmentsHold
    <3>5. logs["segbmap"].pebs = UsedBuffers(bmap)
      BY <3>1, <3>3, CommittedAre DEF LogInv
    <3>6. ASSUME ~(bmap.copy /\ bmap.chain > 1), NEW f \in 0 .. bmap.fragments - 1
          PROVE  LET k == Fragment(bmap, f, vol.segs).buffer
                     peb == (f % sb.perSeg) \div sb.perPeb
                 IN  /\ k < logs["segbmap"].pebs
                     /\ first["segbmap"] + k \div bmap.pebs = sb.bmapSegs[f \div sb.perSeg]
                     /\ k % bmap.pebs = peb
                     /\ peb < vol.perSeg
      <4> DEFINE k == f \div bmap.perPeb
                 m == bmap.perPeb * bmap.pebs
      <4>1. Fragment(bmap, f, vol.segs).buffer = k
        BY DEF Fragment
      <4>2. sb.perSeg = m /\ sb.perPeb = bmap.perPeb
        BY <3>2 DEF HeaderInv
      <4>3. /\ k < UsedBuffers(bmap) /\ k \div bmap.pebs = f \div m
            /\ f \div m \in 0 .. bmap.chain - 1
            /\ k % bmap.pebs = (f % m) \div bmap.perPeb
            /\ (f % m) \div bmap.perPeb < vol.perSeg
        BY <3>3, FragmentPlace
      <4> HIDE DEF k, m
      <4>4. HeaderSegment(bmap, f \div m, 0) = f \div m
        <5>1. bmap.chain \in Nat /\ f \div m \in 0 .. bmap.chain - 1
          BY <3>3, <4>3 DEF Spread, MaxChain
        <5>2. bmap.copy => f \div m = 0
          BY <3>6, <5>1
        <5> QED BY <5>1, <5>2 DEF HeaderSegment
      <4>5. sb.bmapSegs[f \div m] = first["segbmap"] + f \div m
        BY <3>2, <4>3, <4>4 DEF HeaderInv
      <4> QED BY <3>5, <4>1, <4>2, <4>3, <4>5
    <3> QED BY <3>4, <3>6
  <2> QED BY <2>1, <2>2 DEF BitmapComplete, RoomInv
<1> QED BY <1>1, CreateInvariant, PTL
=============================================================================
