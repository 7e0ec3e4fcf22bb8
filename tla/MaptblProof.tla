---------------------------- MODULE MaptblProof -----------------------------
(***************************************************************************)
(* Proofs about the mapping table that mkfs.ssdfs creates, for every       *)
(* volume, segment, stripe and number of NAND dies: the tables tile the    *)
(* volume, the mapping is one to one and the one the superblock refers to, *)
(* and with up to two stripes the pre-erased PEBs are those behind it.     *)
(***************************************************************************)
EXTENDS Maptbl, Integers, FiniteSetTheorems, WellFoundedInduction, TLAPS

(* Arithmetic. *)

LEMMA DivisionInt ==
  ASSUME NEW a \in Int, NEW b \in Int, b > 0
  PROVE  a = b * (a \div b) + (a % b)
  BY SMT

LEMMA DivMod ==
  ASSUME NEW a \in Nat, NEW b \in Nat \ {0}
  PROVE  /\ a \div b \in Nat
         /\ a % b \in 0 .. b - 1
         /\ a = b * (a \div b) + (a % b)
         /\ a = (a \div b) * b + (a % b)
<1>1. a % b \in 0 .. b - 1
  BY SMT
<1>2. a = b * (a \div b) + (a % b)
  BY DivisionInt
<1>3. a \div b \in Int
  BY SMT
<1>4. a \div b >= 0
  BY <1>1, <1>2, <1>3, SMT
<1>5. \A q \in Nat : b * q = q * b
  BY SMT
<1> QED BY <1>1, <1>2, <1>3, <1>4, <1>5

(* A quotient is determined by the multiple it stands below. *)
LEMMA Quotient ==
  ASSUME NEW a \in Nat, NEW b \in Nat \ {0}, NEW q \in Nat, NEW r \in 0 .. b - 1, a = q * b + r
  PROVE  a \div b = q /\ a % b = r
<1> DEFINE p == a \div b
           s == a % b
<1>1. p \in Nat /\ s \in 0 .. b - 1 /\ a = p * b + s
  BY DivMod
<1> HIDE DEF p, s
<1>2. ~(p < q)
  <2>1. p < q => p * b + b <= q * b
    BY <1>1, SMT
  <2> QED BY <1>1, <2>1, SMT
<1>3. ~(q < p)
  <2>1. q < p => q * b + b <= p * b
    BY <1>1, SMT
  <2> QED BY <1>1, <2>1, SMT
<1>4. p = q
  BY <1>1, <1>2, <1>3
<1>5. s = r
  BY <1>1, <1>4, SMT
<1> QED BY <1>4, <1>5 DEF p, s

LEMMA CeilDivIs ==
  ASSUME NEW a \in Nat, NEW b \in Nat \ {0}
  PROVE  /\ CeilDiv(a, b) \in Nat
         /\ a <= CeilDiv(a, b) * b
         /\ CeilDiv(a, b) * b < a + b
         /\ CeilDiv(a, b) * b \in Nat
         /\ a > 0 => CeilDiv(a, b) > 0
<1> DEFINE q == (a + b - 1) \div b
           r == (a + b - 1) % b
<1>1. a + b - 1 \in Nat
  OBVIOUS
<1>2. q \in Nat /\ r \in 0 .. b - 1 /\ a + b - 1 = b * q + r
  BY <1>1, DivMod
<1> HIDE DEF q, r
<1>3. q * b \in Nat /\ b * q = q * b
  BY <1>2, SMT
<1>4. a <= q * b /\ q * b < a + b
  BY <1>2, <1>3
<1>5. a > 0 => q > 0
  <2>1. q = 0 => q * b = 0
    BY <1>2, SMT
  <2> QED BY <1>2, <1>4, <2>1
<1> QED BY <1>2, <1>3, <1>4, <1>5 DEF CeilDiv, q

(* CeilDiv is the least number of parts. *)
LEMMA CeilDivLeast ==
  ASSUME NEW a \in Nat, NEW b \in Nat \ {0}, NEW n \in Nat, a <= n * b
  PROVE  CeilDiv(a, b) <= n
<1> DEFINE c == CeilDiv(a, b)
<1>1. c \in Nat /\ c * b < a + b
  BY CeilDivIs
<1> HIDE DEF c
<1>2. c > n => c * b >= n * b + b
  BY <1>1, SMT
<1>3. n * b \in Nat /\ c * b \in Nat
  BY <1>1, SMT
<1>4. ~(c > n)
  BY <1>1, <1>2, <1>3
<1> QED BY <1>1, <1>4 DEF c

-----------------------------------------------------------------------------
(* The geometry. *)

LEMMA LayoutIs ==
  ASSUME NEW l \in Layouts
  PROVE  /\ l.perSeg \in Nat \ {0} /\ l.pebs \in Nat \ {0} /\ l.tail \in Nat
         /\ l.stripes \in Nat \ {0} /\ l.portions \in Nat \ {0}
         /\ l.dies \in Nat \ {0} /\ l.pairs \in Nat \ {0}
         /\ l.bmapSegs \in Nat /\ l.bmapLebs \in 1 .. l.perSeg
         /\ l.pebs >= l.perSeg /\ l.pebs < U64Max
         /\ PebDescPerStripe(l) > 0
         /\ PebDesc \in Nat \ {0} /\ LebDesc \in Nat /\ ErasePages \in Nat
         /\ SbCopies \in Nat \ {0} /\ U64Max \in Nat /\ U16Limit \in Nat /\ U16Limit < U64Max
<1>1. /\ l.perSeg \in Nat \ {0} /\ l.pebs \in Nat /\ l.tail \in 0 .. l.perSeg - 1
      /\ l.pebs >= l.perSeg
      /\ l.stripes \in Nat \ {0} /\ l.portions \in 1 .. U16Limit - 1
      /\ l.dies \in Nat \ {0} /\ l.pairs \in Nat \ {0}
      /\ l.bmapSegs \in Nat /\ l.bmapLebs \in 1 .. l.perSeg
      /\ l.pebs < U64Max - 1
      /\ PebDescPerStripe(l) > 0
  BY MaptblAssumption
<1>2. /\ PebDesc \in Nat \ {0} /\ LebDesc \in Nat /\ ErasePages \in Nat
      /\ SbCopies \in Nat \ {0} /\ U64Max \in Nat /\ U16Limit \in Nat /\ U16Limit < U64Max
  BY MaptblAssumption
<1>3. l.pebs \in Nat \ {0} /\ l.pebs < U64Max /\ l.tail \in Nat /\ l.portions \in Nat \ {0}
  BY <1>1, <1>2
<1> QED BY <1>1, <1>2, <1>3

LEMMA LebDescIs == LebDesc \in Nat \ {0} /\ 2 * PebDesc <= LebDesc
<1>1. PebDesc \in Nat \ {0} /\ LebDesc \in Nat /\ LebDesc \div PebDesc = 2
  BY MaptblAssumption
<1>2. LebDesc = PebDesc * (LebDesc \div PebDesc) + (LebDesc % PebDesc)
      /\ LebDesc % PebDesc \in 0 .. PebDesc - 1
  BY <1>1, DivMod
<1> QED BY <1>1, <1>2

LEMMA CorrectedIs ==
  ASSUME NEW stripes \in Nat \ {0}, NEW dies \in Nat \ {0}
  PROVE  Corrected(stripes, dies) \in Nat \ {0}
<1>1. CASE stripes = dies
  BY <1>1 DEF Corrected
<1>2. CASE stripes > dies
  <2>1. stripes % dies \in 0 .. dies - 1
    BY <1>2, DivMod
  <2> QED BY <1>2, <2>1 DEF Corrected
<1>3. CASE stripes < dies
  <2>1. dies % stripes \in 0 .. stripes - 1
    BY <1>3, DivMod
  <2> QED BY <1>3, <2>1 DEF Corrected
<1> QED BY <1>1, <1>2, <1>3

LEMMA Positive ==
  ASSUME NEW x \in Nat \ {0}, NEW y \in Nat \ {0}
  PROVE  x * y \in Nat \ {0} /\ CeilDiv(x, y) \in Nat \ {0}
<1>1. x \in Nat /\ x > 0
  OBVIOUS
<1>2. CeilDiv(x, y) \in Nat /\ CeilDiv(x, y) > 0
  BY <1>1, CeilDivIs
<1>3. x * y \in Nat \ {0}
  BY SMT
<1> QED BY <1>2, <1>3

LEMMA StripesAre ==
  ASSUME NEW l \in Layouts
  PROVE  Stripes(l) \in Nat \ {0}
<1> DEFINE per == PebDesc * Corrected(l.stripes, l.dies)
<1>1. l.stripes \in Nat \ {0} /\ l.dies \in Nat \ {0} /\ l.pebs \in Nat \ {0}
      /\ PebDesc \in Nat \ {0}
  BY LayoutIs
<1>2. per \in Nat \ {0}
  BY <1>1, CorrectedIs, Positive
<1>3. Stripes(l) = IF l.zns THEN CeilDiv(l.pebs, per)
                   ELSE IF LebDesc >= per THEN LebDesc \div PebDesc ELSE per \div LebDesc
  BY DEF Stripes
<1> HIDE DEF per
<1>4. CeilDiv(l.pebs, per) \in Nat \ {0}
  BY <1>1, <1>2, Positive
<1>5. LebDesc \div PebDesc \in Nat \ {0}
  BY MaptblAssumption
<1>6. LebDesc < per => per \div LebDesc \in Nat \ {0}
  <2> SUFFICES ASSUME LebDesc < per PROVE per \div LebDesc \in Nat \ {0}
    OBVIOUS
  <2> DEFINE q == per \div LebDesc
  <2>1. q \in Nat /\ per % LebDesc \in 0 .. LebDesc - 1 /\ per = LebDesc * q + (per % LebDesc)
    BY <1>2, LebDescIs, DivMod
  <2> HIDE DEF q
  <2>2. q = 0 => LebDesc * q = 0
    BY <2>1, LebDescIs, SMT
  <2>3. q # 0
    BY <1>2, <2>1, <2>2, LebDescIs
  <2> QED BY <2>1, <2>3 DEF q
<1>7. LebDesc >= per \/ LebDesc < per
  BY <1>2, LebDescIs
<1> QED BY <1>3, <1>4, <1>5, <1>6, <1>7

(* A stripe describes no more PEBs than fit into a page. *)
LEMMA PerStripeIs ==
  ASSUME NEW l \in Layouts
  PROVE  PebDescPerStripe(l) \in 1 .. PebDesc /\ PortionPages(l) \in Nat \ {0}
<1> DEFINE n == Stripes(l)
           d == PebDescPerStripe(l)
           g == CeilDiv(l.perSeg, n)
           m == PebDesc \div g
<1>1. n \in Nat \ {0} /\ l.perSeg \in Nat \ {0} /\ PebDesc \in Nat \ {0} /\ d > 0
  BY StripesAre, LayoutIs
<1>2. d = IF l.perSeg > n THEN m * g ELSE PebDesc
  BY DEF PebDescPerStripe
<1>3. PortionPages(l) = n + CeilDiv(d * n, LebDesc)
  BY DEF PortionPages
<1> HIDE DEF n, d
<1>4. g \in Nat \ {0}
  BY <1>1, Positive
<1> HIDE DEF g
<1>5. m \in Nat /\ PebDesc = m * g + (PebDesc % g) /\ PebDesc % g \in 0 .. g - 1
  BY <1>1, <1>4, DivMod
<1> HIDE DEF m
<1>6. m * g \in Nat /\ m * g <= PebDesc
  <2>1. m * g \in Nat
    BY <1>4, <1>5, SMT
  <2> QED BY <1>1, <1>5, <2>1
<1>7. d \in 1 .. PebDesc
  BY <1>1, <1>2, <1>6
<1>8. CeilDiv(d * n, LebDesc) \in Nat
  <2>1. d * n \in Nat
    BY <1>1, <1>7, SMT
  <2> QED BY <2>1, LebDescIs, CeilDivIs
<1> QED BY <1>1, <1>3, <1>7, <1>8 DEF d

(* What maptbl_mkfs_allocation_policy derives: portions for all PEBs. *)
LEMMA GeometryIs ==
  ASSUME NEW l \in Layouts, PortionPages(l) <= ErasePages
  PROVE  LET g == Geometry(l)
         IN  /\ g.stripes = Stripes(l) /\ g.stripes \in Nat \ {0}
             /\ g.perPortion = PebDescPerStripe(l) * g.stripes /\ g.perPortion \in Nat \ {0}
             /\ g.mempages = CeilDiv(g.perPortion, LebDesc)
             /\ g.perFragment \in Nat \ {0}
             /\ \E n \in Nat : /\ g.portions = n * l.perSeg * g.perFragment
                               /\ g.segs = IF l.backup THEN 2 * n ELSE n
             /\ g.portions \in Nat /\ g.segs \in Nat
             /\ l.pebs <= g.portions * g.perPortion
<1> DEFINE n == Stripes(l)
           d == PebDescPerStripe(l)
           pp == PortionPages(l)
           per == PortionsPerFragment(l)
           fit == ErasePages \div pp
           asked == l.portions * pp
           excess == CeilDiv(asked - ErasePages, pp)
           a == CeilDiv(l.pebs, d * n)
           b == CeilDiv(a, per)
           c == CeilDiv(b, l.perSeg)
<1>1. n \in Nat \ {0} /\ d \in Nat \ {0} /\ pp \in Nat \ {0}
  <2>1. d \in 1 .. PebDesc /\ pp \in Nat \ {0} /\ PebDesc \in Nat
    BY PerStripeIs, LayoutIs
  <2> QED BY <2>1, StripesAre
<1>2. ErasePages \in Nat /\ l.portions \in Nat \ {0} /\ l.perSeg \in Nat \ {0} /\ l.pebs \in Nat
      /\ pp <= ErasePages
  BY LayoutIs
<1>3. per = IF asked > ErasePages
            THEN IF fit > l.portions - excess THEN fit ELSE l.portions - excess
            ELSE l.portions
  BY DEF PortionsPerFragment
<1>4. Geometry(l) = [stripes |-> n, perPortion |-> d * n, mempages |-> CeilDiv(d * n, LebDesc),
                     perFragment |-> per, pebs |-> c * l.perSeg, portions |-> c * l.perSeg * per,
                     segs |-> IF l.backup THEN 2 * c ELSE c]
  BY DEF Geometry
<1> HIDE DEF n, d, pp, per
<1>5. fit \in Nat \ {0}
  <2>1. fit \in Nat /\ ErasePages = fit * pp + (ErasePages % pp) /\ ErasePages % pp \in 0 .. pp - 1
    BY <1>1, <1>2, DivMod
  <2> HIDE DEF fit
  <2>2. fit = 0 => fit * pp = 0
    BY <1>1, <2>1, SMT
  <2> QED BY <1>1, <1>2, <2>1, <2>2
<1>6. asked \in Nat
  BY <1>1, <1>2, SMT
<1> HIDE DEF fit, asked
<1>7. per \in Nat \ {0}
  <2>1. CASE asked > ErasePages
    <3>1. excess \in Nat
      <4>1. asked - ErasePages \in Nat
        BY <1>2, <1>6, <2>1
      <4> QED BY <1>1, <4>1, CeilDivIs
    <3> HIDE DEF excess
    <3> QED BY <1>2, <1>3, <1>5, <2>1, <3>1
  <2>2. CASE ~(asked > ErasePages)
    BY <1>2, <1>3, <2>2
  <2> QED BY <2>1, <2>2
<1>8. d * n \in Nat \ {0}
  BY <1>1, Positive
<1>9. a \in Nat /\ l.pebs <= a * (d * n)
  BY <1>2, <1>8, CeilDivIs
<1> HIDE DEF a
<1>10. b \in Nat /\ a <= b * per
  BY <1>7, <1>9, CeilDivIs
<1> HIDE DEF b
<1>11. c \in Nat /\ b <= c * l.perSeg
  BY <1>2, <1>10, CeilDivIs
<1> HIDE DEF c
<1>12. c * l.perSeg * per \in Nat /\ l.pebs <= (c * l.perSeg * per) * (d * n)
  <2> DEFINE e == c * l.perSeg
             f == e * per
             k == d * n
  <2>1. e \in Nat
    BY <1>2, <1>11, SMT
  <2> HIDE DEF e
  <2>2. b * per <= e * per /\ f \in Nat /\ b * per \in Nat
    BY <1>7, <1>10, <1>11, <2>1, SMT DEF e
  <2>3. a <= f
    BY <1>9, <1>10, <2>2
  <2> HIDE DEF f, k
  <2>4. a * k <= f * k /\ a * k \in Nat /\ f * k \in Nat
    BY <1>8, <1>9, <2>2, <2>3, SMT DEF k
  <2>5. l.pebs <= f * k
    BY <1>2, <1>9, <2>4 DEF k
  <2> QED BY <2>2, <2>5 DEF e, f, k
<1> DEFINE k == d * n
           m == c * l.perSeg * per
<1>13. k \in Nat \ {0} /\ m \in Nat /\ l.pebs <= m * k
  BY <1>8, <1>12
<1>14. Geometry(l) = [stripes |-> n, perPortion |-> k, mempages |-> CeilDiv(k, LebDesc),
                      perFragment |-> per, pebs |-> c * l.perSeg, portions |-> m,
                      segs |-> IF l.backup THEN 2 * c ELSE c]
  BY <1>4
<1>15. \E q \in Nat : m = q * l.perSeg * per /\ (IF l.backup THEN 2 * c ELSE c) = IF l.backup THEN 2 * q ELSE q
  BY <1>11
<1>16. (IF l.backup THEN 2 * c ELSE c) \in Nat
  BY <1>11
<1> HIDE DEF k, m
<1>17. /\ Geometry(l).stripes = n /\ Geometry(l).perPortion = k
       /\ Geometry(l).mempages = CeilDiv(k, LebDesc) /\ Geometry(l).perFragment = per
       /\ Geometry(l).portions = m /\ Geometry(l).segs = IF l.backup THEN 2 * c ELSE c
  BY <1>14
<1> QED BY <1>1, <1>7, <1>13, <1>15, <1>16, <1>17 DEF n, d, k

-----------------------------------------------------------------------------
(* The stripes of a portion. *)

(* A stripe's share of the PEBs, rounded in two ways. *)
LEMMA ShareIs ==
  ASSUME NEW a \in Nat, NEW n \in Nat \ {0}
  PROVE  /\ (a + (a % n)) \div n \in Nat
         /\ (a + (a % n)) \div n <= CeilDiv(a, n)
         /\ n <= 2 => (a + (a % n)) \div n = CeilDiv(a, n)
<1> DEFINE q == a \div n
           r == a % n
<1>1. q \in Nat /\ r \in 0 .. n - 1 /\ a = q * n + r
  BY DivMod
<1>2. CeilDiv(a, n) = (a + n - 1) \div n
  BY DEF CeilDiv
<1> DEFINE m == q * n
<1>3. m \in Nat /\ (q + 1) * n = m + n
  BY <1>1, SMT
<1>4. a = m + r
  BY <1>1
<1>5. a + n - 1 \in Nat /\ a + r \in Nat /\ q + 1 \in Nat
  BY <1>1
<1> SUFFICES /\ (a + r) \div n \in Nat
             /\ (a + r) \div n <= CeilDiv(a, n)
             /\ n <= 2 => (a + r) \div n = CeilDiv(a, n)
  OBVIOUS
<1> HIDE DEF r
<1>6. CASE r = 0
  <2>1. n - 1 \in 0 .. n - 1 /\ a + n - 1 = q * n + (n - 1)
    BY <1>3, <1>4, <1>6
  <2>2. (a + n - 1) \div n = q
    BY <1>1, <1>5, <2>1, Quotient
  <2>3. 0 \in 0 .. n - 1 /\ a + r = q * n + 0
    BY <1>3, <1>4, <1>6
  <2>4. (a + r) \div n = q
    BY <1>1, <1>5, <2>3, Quotient
  <2> QED BY <1>1, <1>2, <2>2, <2>4
<1>7. CASE r > 0
  <2>1. r - 1 \in 0 .. n - 1 /\ a + n - 1 = (q + 1) * n + (r - 1)
    BY <1>1, <1>3, <1>4, <1>7
  <2>2. (a + n - 1) \div n = q + 1
    BY <1>5, <2>1, Quotient
  <2>3. CASE r + r < n
    <3>1. r + r \in 0 .. n - 1 /\ a + r = q * n + (r + r)
      BY <1>1, <1>3, <1>4, <2>3
    <3>2. (a + r) \div n = q
      BY <1>1, <1>5, <3>1, Quotient
    <3>3. n > 2
      BY <1>1, <1>7, <2>3
    <3> QED BY <1>1, <1>2, <2>2, <3>2, <3>3
  <2>4. CASE r + r >= n
    <3>1. r + r - n \in 0 .. n - 1 /\ a + r = (q + 1) * n + (r + r - n)
      BY <1>1, <1>3, <1>4, <2>4
    <3> DEFINE z == r + r - n
               t == a + r
               k == q + 1
    <3>2. z \in 0 .. n - 1 /\ t = k * n + z /\ t \in Nat /\ k \in Nat
      BY <1>5, <3>1
    <3> HIDE DEF z, t, k
    <3>3. t \div n = k
      BY <3>2, Quotient
    <3> QED BY <1>1, <1>2, <2>2, <3>3 DEF t, k
  <2> QED BY <1>1, <2>3, <2>4
<1> QED BY <1>1, <1>6, <1>7

(* maptbl_mkfs_allocation_policy succeeded. *)
Derived == lay \in Layouts /\ PortionPages(lay) <= ErasePages /\ geo = Geometry(lay)

LEMMA DerivedIs ==
  ASSUME Derived
  PROVE  /\ geo.stripes \in Nat \ {0} /\ geo.stripes = Stripes(lay)
         /\ geo.perPortion \in Nat \ {0}
         /\ geo.perPortion = PebDescPerStripe(lay) * geo.stripes
         /\ geo.mempages = CeilDiv(geo.perPortion, LebDesc)
         /\ geo.portions \in Nat /\ geo.segs \in Nat /\ geo.perFragment \in Nat \ {0}
         /\ lay.pebs <= geo.portions * geo.perPortion
         /\ PebDescPerStripe(lay) \in 1 .. PebDesc
         /\ lay.pebs \in Nat \ {0} /\ lay.perSeg \in Nat \ {0}
<1>1. lay \in Layouts /\ PortionPages(lay) <= ErasePages /\ geo = Geometry(lay)
  BY DEF Derived
<1>2. /\ geo.stripes \in Nat \ {0} /\ geo.stripes = Stripes(lay)
      /\ geo.perPortion \in Nat \ {0}
      /\ geo.perPortion = PebDescPerStripe(lay) * geo.stripes
      /\ geo.mempages = CeilDiv(geo.perPortion, LebDesc)
      /\ geo.portions \in Nat /\ geo.segs \in Nat /\ geo.perFragment \in Nat \ {0}
      /\ lay.pebs <= geo.portions * geo.perPortion
  BY <1>1, GeometryIs
<1> QED BY <1>1, <1>2, PerStripeIs, LayoutIs

(* The distance of the stripes of a portion. *)
Share(p) == CeilDiv(RestPebs(p), geo.stripes)

LEMMA RestIs ==
  ASSUME Derived, NEW p \in Nat
  PROVE  /\ geo.perPortion * p \in Nat
         /\ RestPebs(p) \in 0 .. geo.perPortion
         /\ Share(p) \in 0 .. PebDescPerStripe(lay)
         /\ RestPebs(p) <= Share(p) * geo.stripes
         /\ Share(p) * geo.stripes \in 0 .. geo.perPortion
<1> DEFINE w == geo.perPortion
           n == geo.stripes
           d == PebDescPerStripe(lay)
           r == RestPebs(p)
           q == Share(p)
<1>1. w \in Nat \ {0} /\ n \in Nat \ {0} /\ w = d * n /\ d \in Nat /\ lay.pebs \in Nat
  <2>1. d \in 1 .. PebDesc /\ PebDesc \in Nat
    BY DerivedIs, LayoutIs DEF Derived
  <2> QED BY <2>1, DerivedIs
<1>2. r = IF lay.pebs >= w * p THEN Least(lay.pebs - w * p, w) ELSE w
  BY DEF RestPebs
<1> HIDE DEF w, n, d, r
<1>3. w * p \in Nat
  BY <1>1, SMT
<1> DEFINE k == w * p
<1>4. r \in 0 .. w
  <2>1. r = IF lay.pebs >= k THEN Least(lay.pebs - k, w) ELSE w
    BY <1>2
  <2> HIDE DEF k
  <2> QED BY <1>1, <1>3, <2>1 DEF Least, k
<1>5. q = CeilDiv(r, n)
  BY DEF Share, r, n
<1> HIDE DEF q
<1>6. q \in Nat /\ r <= q * n
  BY <1>1, <1>4, <1>5, CeilDivIs
<1>7. q <= d
  BY <1>1, <1>4, <1>5, CeilDivLeast
<1>8. q * n \in Nat /\ q * n <= d * n
  BY <1>1, <1>6, <1>7, SMT
<1>9. q \in 0 .. d /\ q * n \in 0 .. w
  BY <1>1, <1>6, <1>7, <1>8
<1> QED BY <1>3, <1>4, <1>6, <1>9 DEF w, n, d, r, q

(* Where the PEBs of a stripe start, and how many it describes. *)
LEMMA StripeIs ==
  ASSUME Derived, NEW p \in Nat, NEW s \in 0 .. geo.stripes - 1
  PROVE  /\ StartPeb(p, s) \in Nat
         /\ StartPeb(p, s) = geo.perPortion * p + Share(p) * s
         /\ Share(p) * s + Share(p) <= geo.perPortion
         /\ Share(p) * s \in Nat
         /\ PebsCount(p, s) \in 0 .. Share(p)
         /\ PebsCount(p, s) > 0 => StartPeb(p, s) + PebsCount(p, s) <= lay.pebs
         /\ geo.stripes <= 2 /\ StartPeb(p, s) < lay.pebs =>
              PebsCount(p, s) = Least(Share(p), lay.pebs - StartPeb(p, s))
<1> DEFINE w == geo.perPortion
           n == geo.stripes
           r == RestPebs(p)
           q == Share(p)
           c == (r + (r % n)) \div n
           st == StartPeb(p, s)
           ct == PebsCount(p, s)
<1>1. w \in Nat \ {0} /\ n \in Nat \ {0} /\ lay.pebs \in Nat
  BY DerivedIs
<1>2. w * p \in Nat /\ r \in 0 .. w /\ q \in Nat /\ q * n \in 0 .. w
  <2>1. w * p \in Nat /\ r \in 0 .. w /\ q \in 0 .. PebDescPerStripe(lay) /\ q * n \in 0 .. w
    BY RestIs
  <2> QED BY <2>1
<1>3. s \in Nat /\ s <= n - 1
  BY <1>1
<1>4. c \in Nat /\ c <= q /\ (n <= 2 => c = q)
  <2>1. q = CeilDiv(r, n)
    BY DEF Share
  <2>2. r \in Nat
    BY <1>1, <1>2
  <2> HIDE DEF q, r, n
  <2> QED BY <1>1, <2>1, <2>2, ShareIs
<1>5. st = w * p + q * s
  BY DEF StartPeb, Share
<1>6. ct = IF lay.pebs <= st THEN 0 ELSE Least(c, lay.pebs - st)
  BY DEF PebsCount
<1> HIDE DEF w, n, r, q, c, st, ct
<1>7. q * s \in Nat /\ q * s + q <= q * n
  <2>1. \A i, j \in Nat : i <= j - 1 => q * i + q <= q * j /\ q * i \in Nat
    BY <1>2, SMT
  <2> QED BY <1>1, <1>3, <2>1
<1>8. st \in Nat
  BY <1>2, <1>5, <1>7
<1>9. q * s + q <= w
  BY <1>1, <1>2, <1>7
<1>10. ct \in 0 .. q /\ (ct > 0 => st + ct <= lay.pebs)
  BY <1>1, <1>2, <1>4, <1>6, <1>8 DEF Least
<1>11. n <= 2 /\ st < lay.pebs => ct = Least(q, lay.pebs - st)
  BY <1>1, <1>4, <1>6, <1>8
<1> QED BY <1>5, <1>7, <1>8, <1>9, <1>10, <1>11 DEF w, n, q, st, ct

(* A PEB of a stripe tells its portion and its stripe. *)
LEMMA StripeOwner ==
  ASSUME Derived, NEW p \in Nat, NEW s \in 0 .. geo.stripes - 1, NEW peb \in StripePebs(p, s)
  PROVE  /\ peb \in Pebs
         /\ peb \div geo.perPortion = p
         /\ Share(p) \in Nat \ {0}
         /\ (peb - geo.perPortion * p) \div Share(p) = s
<1> DEFINE w == geo.perPortion
           q == Share(p)
           st == StartPeb(p, s)
           ct == PebsCount(p, s)
           o == q * s
<1>1. w \in Nat \ {0} /\ lay.pebs \in Nat /\ w * p \in Nat /\ q \in Nat /\ s \in Nat
  <2>1. geo.stripes \in Nat \ {0} /\ w \in Nat \ {0} /\ lay.pebs \in Nat /\ w * p \in Nat
    BY DerivedIs, RestIs
  <2>2. q \in 0 .. PebDescPerStripe(lay)
    BY RestIs
  <2> QED BY <2>1, <2>2
<1>2. /\ st \in Nat /\ st = w * p + o /\ o + q <= w /\ o \in Nat
      /\ ct \in 0 .. q /\ (ct > 0 => st + ct <= lay.pebs)
  BY StripeIs
<1>3. PICK j \in 0 .. ct - 1 : peb = st + j
  BY DEF StripePebs
<1>4. w * p = p * w /\ q * s = s * q
  BY <1>1, SMT
<1>5. Pebs = 0 .. lay.pebs - 1
  BY DEF Pebs
<1>6. o = s * q
  BY <1>4
<1> HIDE DEF w, q, st, ct, o
<1>7. q \in Nat \ {0} /\ j \in 0 .. q - 1
  BY <1>1, <1>2, <1>3
<1>8. peb \in Pebs /\ peb \in Nat
  BY <1>1, <1>2, <1>3, <1>5
<1>9. o + j \in 0 .. w - 1 /\ peb = p * w + (o + j)
  BY <1>1, <1>2, <1>3, <1>4, <1>7
<1>10. peb \div w = p
  BY <1>1, <1>8, <1>9, Quotient
<1>11. peb - w * p \in Nat /\ peb - w * p = s * q + j
  BY <1>1, <1>2, <1>3, <1>6, <1>7
<1>12. (peb - w * p) \div q = s
  BY <1>1, <1>7, <1>11, Quotient
<1> QED BY <1>7, <1>8, <1>10, <1>12 DEF w, q

(* Every PEB of the volume belongs to a portion. *)
LEMMA PortionIs ==
  ASSUME Derived, NEW peb \in Pebs
  PROVE  /\ peb \in Nat /\ peb < lay.pebs
         /\ peb \div geo.perPortion \in Portions /\ peb \div geo.perPortion \in Nat
         /\ geo.perPortion * (peb \div geo.perPortion) \in Nat
         /\ peb - geo.perPortion * (peb \div geo.perPortion) \in 0 .. geo.perPortion - 1
<1> DEFINE w == geo.perPortion
           p == peb \div w
           m == geo.portions
<1>1. w \in Nat \ {0} /\ m \in Nat /\ lay.pebs \in Nat /\ lay.pebs <= m * w
  BY DerivedIs
<1>2. peb \in Nat /\ peb < lay.pebs
  BY <1>1 DEF Pebs
<1> HIDE DEF w, m
<1>3. p \in Nat /\ peb = w * p + (peb % w) /\ peb = p * w + (peb % w) /\ peb % w \in 0 .. w - 1
  BY <1>1, <1>2, DivMod
<1> HIDE DEF p
<1>4. w * p \in Nat /\ p * w \in Nat /\ m * w \in Nat
  BY <1>1, <1>3, SMT
<1>5. p >= m => p * w >= m * w
  BY <1>1, <1>3, SMT
<1>6. p < m
  BY <1>1, <1>2, <1>3, <1>4, <1>5
<1>7. p \in Portions
  BY <1>1, <1>3, <1>6 DEF Portions, m
<1>8. peb - w * p \in 0 .. w - 1
  BY <1>1, <1>2, <1>3, <1>4
<1> QED BY <1>2, <1>3, <1>4, <1>7, <1>8 DEF p, w

(* Up to two stripes leave no PEB out. *)
LEMMA StripesCover ==
  ASSUME Derived, geo.stripes <= 2, NEW peb \in Pebs
  PROVE  \E p \in Portions, s \in StripeIds : peb \in StripePebs(p, s)
<1> DEFINE w == geo.perPortion
           n == geo.stripes
           p == peb \div w
           q == Share(p)
           b == w * p
           o == peb - b
           s == o \div q
           j == o % q
<1>1. w \in Nat \ {0} /\ n \in Nat \ {0} /\ lay.pebs \in Nat
  BY DerivedIs
<1>2. peb \in Nat /\ peb < lay.pebs /\ p \in Portions /\ p \in Nat /\ b \in Nat /\ o \in 0 .. w - 1
  BY PortionIs
<1>3. RestPebs(p) = IF lay.pebs >= b THEN Least(lay.pebs - b, w) ELSE w
  BY DEF RestPebs
<1> HIDE DEF w, n, p
<1>4. RestPebs(p) \in Nat /\ o < RestPebs(p)
  <2> HIDE DEF b
  <2> QED BY <1>1, <1>2, <1>3 DEF Least
<1>5. q \in Nat /\ RestPebs(p) <= q * n /\ q * n \in Nat
  <2>1. q \in 0 .. PebDescPerStripe(lay) /\ RestPebs(p) <= q * n /\ q * n \in 0 .. w
    BY <1>2, RestIs DEF n, w
  <2> QED BY <2>1
<1>6. b = w * p /\ o = peb - b
  OBVIOUS
<1> HIDE DEF q, b, o
<1>7. q # 0
  <2>1. q = 0 => q * n = 0
    BY <1>1, SMT
  <2> QED BY <1>1, <1>2, <1>4, <1>5, <2>1
<1>8. s \in Nat /\ j \in 0 .. q - 1 /\ o = q * s + j /\ o \in Nat
  <2>1. o \in Nat /\ q \in Nat \ {0}
    BY <1>1, <1>2, <1>5, <1>7
  <2> QED BY <2>1, DivMod
<1> HIDE DEF s, j
<1>9. s < n
  <2>1. s >= n => q * s >= q * n
    BY <1>1, <1>5, <1>8, SMT
  <2>2. q * s \in Nat
    BY <1>5, <1>8, SMT
  <2> QED BY <1>1, <1>4, <1>5, <1>8, <2>1, <2>2
<1>10. s \in 0 .. n - 1
  BY <1>1, <1>8, <1>9
<1> DEFINE st == StartPeb(p, s)
           ct == PebsCount(p, s)
<1>11. st \in Nat /\ st = b + q * s /\ q * s \in Nat
       /\ (st < lay.pebs => ct = Least(q, lay.pebs - st))
  BY <1>2, <1>10, StripeIs DEF n, q, b, w
<1>12. StripePebs(p, s) = { st + i : i \in 0 .. ct - 1 }
  BY DEF StripePebs
<1>13. StripeIds = 0 .. n - 1
  BY DEF StripeIds, n
<1> HIDE DEF st, ct
<1>14. peb = st + j
  BY <1>1, <1>2, <1>6, <1>8, <1>11
<1>15. j \in 0 .. ct - 1
  BY <1>1, <1>2, <1>5, <1>8, <1>11, <1>14 DEF Least
<1>16. peb \in StripePebs(p, s)
  BY <1>12, <1>14, <1>15
<1> QED BY <1>2, <1>10, <1>13, <1>16

(* With up to two stripes a portion's LEBs lie in one page. *)
LEMMA OnePage ==
  ASSUME Derived, geo.stripes <= 2
  PROVE  geo.mempages = 1 /\ geo.perPortion <= LebDesc
<1> DEFINE w == geo.perPortion
           n == geo.stripes
           d == PebDescPerStripe(lay)
<1>1. w \in Nat \ {0} /\ n \in Nat \ {0} /\ n <= 2 /\ w = d * n /\ d \in 1 .. PebDesc
      /\ geo.mempages = CeilDiv(w, LebDesc) /\ PebDesc \in Nat
  BY DerivedIs, LayoutIs DEF Derived
<1> HIDE DEF w, n, d
<1>2. n = 1 \/ n = 2
  BY <1>1
<1>3. w <= 2 * PebDesc
  BY <1>1, <1>2, SMT
<1>4. w <= LebDesc
  BY <1>1, <1>3, LebDescIs
<1>5. CeilDiv(w, LebDesc) <= 1
  <2>1. w <= 1 * LebDesc
    BY <1>1, <1>4, LebDescIs
  <2> QED BY <1>1, <2>1, LebDescIs, CeilDivLeast
<1>6. CeilDiv(w, LebDesc) \in Nat \ {0}
  BY <1>1, LebDescIs, Positive
<1>7. geo.mempages = 1
  <2> DEFINE c == CeilDiv(w, LebDesc)
  <2>1. c <= 1 /\ c \in Nat \ {0} /\ geo.mempages = c
    BY <1>1, <1>5, <1>6
  <2> HIDE DEF c
  <2> QED BY <2>1
<1> QED BY <1>4, <1>7 DEF w

(* A LEB belongs to the page of its portion, and to no other. *)
LEMMA PageIs ==
  ASSUME Derived, geo.stripes <= 2, NEW leb \in Pebs, NEW p \in Nat
  PROVE  leb \in StartLeb(p, 0) .. StartLeb(p, 0) + LebsCount(p, 0) - 1
           <=> p = leb \div geo.perPortion
<1> DEFINE w == geo.perPortion
           b == w * p
           st == StartLeb(p, 0)
           ct == LebsCount(p, 0)
<1>1. w \in Nat \ {0} /\ lay.pebs \in Nat /\ w <= LebDesc /\ LebDesc \in Nat
  BY DerivedIs, OnePage, LebDescIs
<1>2. leb \in Nat /\ leb < lay.pebs
  BY PortionIs
<1>3. w * (leb \div w) \in Nat /\ leb - w * (leb \div w) \in 0 .. w - 1
  BY PortionIs
<1>4. st = b + LebDesc * 0 /\ ct = IF lay.pebs <= st THEN 0 ELSE Least(lay.pebs - st, Least(w, LebDesc))
  BY DEF StartLeb, LebsCount
<1> HIDE DEF w, st, ct
<1>5. b \in Nat /\ w * p = p * w
  BY <1>1, SMT
<1>6. LebDesc * 0 = 0
  BY <1>1
<1>7. b = w * p
  OBVIOUS
<1> HIDE DEF b
<1>8. st = b /\ ct = IF lay.pebs <= b THEN 0 ELSE Least(lay.pebs - b, w)
  BY <1>1, <1>4, <1>5, <1>6 DEF Least
<1>9. ASSUME leb \in st .. st + ct - 1 PROVE p = leb \div w
  <2>1. leb - b \in 0 .. w - 1 /\ leb = b + (leb - b)
    BY <1>1, <1>2, <1>5, <1>8, <1>9 DEF Least
  <2>2. leb = p * w + (leb - b)
    BY <1>5, <1>7, <2>1
  <2> QED BY <1>1, <1>2, <2>1, <2>2, Quotient
<1>10. ASSUME p = leb \div w PROVE leb \in st .. st + ct - 1
  <2>1. leb - b \in 0 .. w - 1
    BY <1>3, <1>7, <1>10
  <2> QED BY <1>1, <1>2, <1>5, <1>8, <2>1 DEF Least
<1> QED BY <1>9, <1>10 DEF w, st, ct

LEMMA PagesTile ==
  ASSUME Derived, geo.stripes <= 2, NEW leb \in Pebs
  PROVE  Cardinality({ x \in Portions \X (0 .. geo.mempages - 1) :
             leb \in StartLeb(x[1], x[2]) .. StartLeb(x[1], x[2]) + LebsCount(x[1], x[2]) - 1 }) = 1
<1> DEFINE p == leb \div geo.perPortion
           P(x) == leb \in StartLeb(x[1], x[2]) .. StartLeb(x[1], x[2]) + LebsCount(x[1], x[2]) - 1
<1>1. p \in Portions
  BY PortionIs
<1>2. 0 .. geo.mempages - 1 = {0}
  BY OnePage
<1>3. \A k \in Portions : P(<<k, 0>>) <=> k = p
  <2> SUFFICES ASSUME NEW k \in Portions PROVE P(<<k, 0>>) <=> k = p
    OBVIOUS
  <2>1. k \in Nat
    BY DerivedIs DEF Portions
  <2>2. leb \in StartLeb(k, 0) .. StartLeb(k, 0) + LebsCount(k, 0) - 1 <=> k = p
    BY <2>1, PageIs
  <2> QED BY <2>2
<1> HIDE DEF P, p
<1>4. { x \in Portions \X {0} : P(x) } = {<<p, 0>>}
  BY <1>1, <1>3
<1>5. Cardinality({<<p, 0>>}) = 1
  BY FS_Singleton
<1>6. Cardinality({ x \in Portions \X (0 .. geo.mempages - 1) : P(x) }) = 1
  BY <1>2, <1>4, <1>5
<1> QED BY <1>6 DEF P

LEMMA Tiled ==
  ASSUME Derived
  PROVE  TablesTile
<1> DEFINE S == Portions \X StripeIds
<1>1. \A x \in S : x[1] \in Nat /\ x[2] \in 0 .. geo.stripes - 1
  BY DerivedIs DEF Portions, StripeIds
<1>2. ASSUME NEW x \in S, NEW y \in S, NEW peb \in StripePebs(x[1], x[2]) \cap StripePebs(y[1], y[2])
      PROVE  x = y
  <2>1. peb \div geo.perPortion = x[1] /\ (peb - geo.perPortion * x[1]) \div Share(x[1]) = x[2]
    BY <1>1, StripeOwner
  <2>2. peb \div geo.perPortion = y[1] /\ (peb - geo.perPortion * y[1]) \div Share(y[1]) = y[2]
    BY <1>1, StripeOwner
  <2>3. x[1] = y[1] /\ x[2] = y[2]
    BY <2>1, <2>2
  <2> QED BY <2>3
<1>3. \A x, y \in S : x # y => StripePebs(x[1], x[2]) \cap StripePebs(y[1], y[2]) = {}
  BY <1>2
<1>4. \A x \in S : StripePebs(x[1], x[2]) \subseteq Pebs
  BY <1>1, StripeOwner
<1>5. UNION { StripePebs(x[1], x[2]) : x \in S } \subseteq Pebs
  BY <1>4
<1>6. geo.stripes <= 2 => Pebs \subseteq UNION { StripePebs(x[1], x[2]) : x \in S }
  <2> SUFFICES ASSUME geo.stripes <= 2, NEW peb \in Pebs
               PROVE  \E x \in S : peb \in StripePebs(x[1], x[2])
    OBVIOUS
  <2>1. PICK p \in Portions, s \in StripeIds : peb \in StripePebs(p, s)
    BY StripesCover
  <2>2. <<p, s>> \in S /\ peb \in StripePebs(<<p, s>>[1], <<p, s>>[2])
    BY <2>1
  <2> QED BY <2>2
<1>7. geo.stripes <= 2 => \A leb \in Pebs :
        Cardinality({ x \in Portions \X (0 .. geo.mempages - 1) :
          leb \in StartLeb(x[1], x[2]) .. StartLeb(x[1], x[2]) + LebsCount(x[1], x[2]) - 1 }) = 1
  BY PagesTile
<1> QED BY <1>3, <1>5, <1>6, <1>7 DEF TablesTile

-----------------------------------------------------------------------------
(* The invariant. *)

(* The quotas of the table and of all metadata. *)
WithinQuota(l) == TableFits(l) /\ MetadataFits(l)

Running ==
  {"cache", "map", "pair", "mark_leb", "mark_stripe", "header", "sb_segs", "done"}

Behind == {"mark_leb", "mark_stripe", "header", "sb_segs", "done"}

(* A running mkfs has a geometry within the quota; its tables exist behind *)
(* maptbl_mkfs_prepare.                                                    *)
LayInv ==
  /\ lay \in Layouts
  /\ pc \in Running \cup {"policy", "prepare", "failed", "abort", "crash"}
  /\ pc \in Running \cup {"prepare"} \/ phys # << >> => Derived /\ WithinQuota(lay)
  /\ pc \in Running => phys # << >>
  /\ pc \in {"policy", "prepare"} => phys = << >>

Pair == [leb : Nat, peb : Nat]
Fragment == [pairs : Seq(Pair), items : Nat, start : Nat, end : Nat]

(* A fragment holds as many pairs as it counts, up to its capacity. *)
CacheInv ==
  /\ move.leb \in Nat /\ move.peb \in Nat
  /\ pc \in {"policy", "prepare", "cache"} => cache = << >>
  /\ cache \in [DOMAIN cache -> Fragment]
  /\ \A f \in DOMAIN cache : /\ Len(cache[f].pairs) = Least(cache[f].items, lay.pairs)
                             /\ cache[f].items <= lay.pairs + 1

CurInv ==
  /\ cur \in Nat \X Nat /\ cur[2] < lay.perSeg
  /\ pc \in {"policy", "prepare", "cache"} => cur = <<0, 0>>
  /\ pc = "pair" => cur \in SegPebs

TableTypes ==
  /\ phys \in [Pebs -> Nat]
  /\ state \in [Pebs -> {"unknown", "using", "pre_erase"}]
  /\ segPeb \in [SegPebs -> Pebs \cup {NoIndex}]

Assigned == { x \in SegPebs : segPeb[x] # NoIndex }

Before(x, y) == x[1] < y[1] \/ (x[1] = y[1] /\ x[2] < y[2])

(* The PEBs of segments that have got theirs. *)
Reached ==
  /\ pc \in {"cache", "map"} => Assigned = { x \in LebsTotal : Before(x, cur) }
  /\ pc = "pair" => Assigned = { x \in LebsTotal : Before(x, cur) \/ x = cur }
  /\ pc \in Behind => Assigned = LebsTotal

Leb(x) == LebId(x[1], x[2])

(* Each got a PEB of its own, and nothing else is mapped or in use. *)
MapInv ==
  /\ \A x \in Assigned : Leb(x) \in Pebs /\ state[segPeb[x]] = "using"
  /\ \A x, y \in Assigned : segPeb[x] = segPeb[y] => x = y
  /\ \A leb \in Mapped : \E x \in Assigned : Leb(x) = leb
  /\ \A peb \in Pebs : state[peb] = "using" => \E x \in Assigned : segPeb[x] = peb
  /\ LebsApart => \A x \in Assigned : Leb(x) \in Mapped /\ Resolved(Leb(x)) = segPeb[x]

SbPebs ==
  [x \in (0 .. 2) \X (0 .. SbCopies - 1) |->
     [leb |-> Leb(<<SbSeg(x[1], x[2]), 0>>), peb |-> segPeb[<<SbSeg(x[1], x[2]), 0>>]]]

SbInv ==
  /\ sb = [preErase |-> sb.preErase, perFragment |-> sb.perFragment,
           perStripe |-> sb.perStripe, extent |-> sb.extent, pebs |-> sb.pebs]
  /\ pc \in {"sb_segs", "done"} =>
       /\ sb.extent = <<SegsCapacity - geo.segs, geo.segs>>
       /\ geo.segs = CeilDiv(geo.portions, lay.perSeg * geo.perFragment)
       /\ sb.perFragment = PebsPerFragment
       /\ sb.perStripe = CeilDiv(PebsPerFragment, geo.stripes)
  /\ pc = "done" => sb.pebs = SbPebs

TablesInv == phys # << >> => TableTypes /\ Reached /\ MapInv

Inv == LayInv /\ CacheInv /\ CurInv /\ TablesInv /\ SbInv

-----------------------------------------------------------------------------
(* The first of the unused items, the last of the smaller pairs. *)

LEMMA LeastOfIs ==
  ASSUME NEW S \in SUBSET Nat, S # {}
  PROVE  LeastOf(S) \in S /\ \A y \in S : LeastOf(S) <= y
<1>1. PICK d \in S : \A y \in S : ~(<<y, d>> \in OpToRel(<, Nat))
  BY WFMin, NatLessThanWellFounded
<1>2. \A y \in S : d <= y
  <2> TAKE y \in S
  <2>1. y \in Nat /\ d \in Nat
    OBVIOUS
  <2>2. ~(y < d)
    BY <1>1, <2>1 DEF OpToRel
  <2> QED BY <2>1, <2>2
<1> QED BY <1>2, Zenon DEF LeastOf

LEMMA LargestIs ==
  ASSUME NEW n \in Nat, NEW S \in SUBSET (1 .. n), S # {}
  PROVE  (CHOOSE k \in S : \A x \in S : x <= k) \in S
<1> DEFINE T == { n - k : k \in S }
<1>1. T \in SUBSET Nat /\ T # {}
  <2>1. \A k \in S : k \in 1 .. n /\ n - k \in Nat
    OBVIOUS
  <2>2. T \in SUBSET Nat
    BY <2>1
  <2>3. T # {}
    OBVIOUS
  <2> QED BY <2>2, <2>3
<1>2. PICK d \in T : \A y \in T : ~(<<y, d>> \in OpToRel(<, Nat))
  <2> HIDE DEF T
  <2> QED BY <1>1, WFMin, NatLessThanWellFounded
<1>3. PICK k \in S : d = n - k
  OBVIOUS
<1>4. \A x \in S : x <= k
  <2> TAKE x \in S
  <2>1. n - x \in T /\ n - x \in Nat /\ d \in Nat /\ x \in Nat /\ k \in Nat
    BY <1>3
  <2>2. ~(n - x < d)
    BY <1>2, <2>1 DEF OpToRel
  <2> QED BY <1>3, <2>1, <2>2
<1> QED BY <1>4, Zenon

LEMMA ItemIndexIs ==
  ASSUME NEW f \in Fragment, NEW leb
  PROVE  ItemIndex(f, leb) \in 0 .. Len(f.pairs) /\ Len(f.pairs) \in Nat
<1> DEFINE n == Len(f.pairs)
           S == { k \in DOMAIN f.pairs : f.pairs[k].leb <= leb }
           m == CHOOSE k \in S : \A x \in S : x <= k
<1>1. f.pairs \in Seq(Pair)
  BY DEF Fragment
<1>2. n \in Nat /\ DOMAIN f.pairs = 1 .. n
  BY <1>1
<1>3. S \in SUBSET (1 .. n)
  BY <1>2
<1>4. ItemIndex(f, leb) = IF S = {} THEN 0 ELSE m
  BY DEF ItemIndex
<1> HIDE DEF S
<1>5. S # {} => m \in S
  BY <1>2, <1>3, LargestIs
<1> HIDE DEF m
<1>6. S # {} => m \in 1 .. n
  BY <1>3, <1>5
<1> HIDE DEF n
<1>7. ItemIndex(f, leb) \in 0 .. n
  BY <1>2, <1>4, <1>6
<1> QED BY <1>2, <1>7 DEF n

LEMMA InsertAtIs ==
  ASSUME NEW T, NEW s \in Seq(T), NEW i \in 1 .. Len(s) + 1, NEW e \in T
  PROVE  InsertAt(s, i, e) \in Seq(T) /\ Len(InsertAt(s, i, e)) = Len(s) + 1
<1> DEFINE a == SubSeq(s, 1, i - 1)
           b == SubSeq(s, i, Len(s))
<1>1. Len(s) \in Nat /\ i \in Nat
  OBVIOUS
<1>2. a \in Seq(T) /\ Len(a) = i - 1
  BY <1>1
<1>3. b \in Seq(T) /\ Len(b) = Len(s) - i + 1
  BY <1>1
<1>4. <<e>> \in Seq(T) /\ Len(<<e>>) = 1
  OBVIOUS
<1>5. InsertAt(s, i, e) = a \o <<e>> \o b
  BY DEF InsertAt
<1> HIDE DEF a, b
<1>6. a \o <<e>> \o b \in Seq(T) /\ Len(a \o <<e>> \o b) = Len(a) + 1 + Len(b)
  BY <1>2, <1>3, <1>4
<1> QED BY <1>1, <1>2, <1>3, <1>5, <1>6

(* A fragment of the cache takes a pair, a full one gives its last away. *)
LEMMA AddedIs ==
  ASSUME NEW f \in Fragment, NEW pair \in Pair, lay.pairs \in Nat \ {0}, U64Max \in Nat \ {0},
         Len(f.pairs) = Least(f.items, lay.pairs), f.items <= lay.pairs
  PROVE  /\ Added(f, pair) \in Fragment
         /\ Added(f, pair).items = f.items + 1
         /\ Len(Added(f, pair).pairs) = Least(f.items + 1, lay.pairs)
<1> DEFINE n == Len(f.pairs)
           i == ItemIndex(f, pair.leb) + 1
           pairs == InsertAt(f.pairs, i, pair)
           full == f.items = lay.pairs
           cut == IF full THEN SubSeq(pairs, 1, lay.pairs) ELSE pairs
           end == IF full THEN U64Max - 1 ELSE pairs[Len(pairs)].leb
           m == f.items
           c == lay.pairs
<1>1. f.pairs \in Seq(Pair) /\ m \in Nat
  BY DEF Fragment
<1>2. ItemIndex(f, pair.leb) \in 0 .. n /\ n \in Nat
  BY ItemIndexIs
<1>3. i \in 1 .. n + 1
  BY <1>2
<1>4. pairs \in Seq(Pair) /\ Len(pairs) = n + 1
  BY <1>1, <1>3, InsertAtIs
<1>5. Added(f, pair) = [pairs |-> cut, items |-> m + 1, start |-> pairs[1].leb, end |-> end]
  BY DEF Added
<1>6. n = Least(m, c) /\ m <= c /\ c \in Nat \ {0}
  OBVIOUS
<1>7. full <=> m = c
  OBVIOUS
<1>8. cut = IF m = c THEN SubSeq(pairs, 1, c) ELSE pairs
  OBVIOUS
<1>9. end = IF m = c THEN U64Max - 1 ELSE pairs[Len(pairs)].leb
  OBVIOUS
<1> HIDE DEF n, pairs, cut, end, m, c, i
<1>10. n = m
  BY <1>1, <1>6 DEF Least
<1>11. pairs[1] \in Pair /\ pairs[Len(pairs)] \in Pair
  BY <1>2, <1>4
<1>12. pairs[1].leb \in Nat /\ end \in Nat
  BY <1>9, <1>11 DEF Pair
<1>13. m = c => SubSeq(pairs, 1, c) \in Seq(Pair) /\ Len(SubSeq(pairs, 1, c)) = c
  BY <1>4, <1>6, <1>10
<1>14. cut \in Seq(Pair) /\ Len(cut) = Least(m + 1, c)
  <2>1. CASE m = c
    BY <1>1, <1>6, <1>8, <1>13, <2>1 DEF Least
  <2>2. CASE m < c
    BY <1>1, <1>4, <1>6, <1>8, <1>10, <2>2 DEF Least
  <2> QED BY <1>1, <1>6, <2>1, <2>2
<1>15. Added(f, pair).pairs = cut /\ Added(f, pair).items = m + 1
  BY <1>5
<1>16. Added(f, pair) \in Fragment
  BY <1>1, <1>5, <1>12, <1>14 DEF Fragment
<1> QED BY <1>14, <1>15, <1>16 DEF m, c

-----------------------------------------------------------------------------
(* LEBs and their PEBs. *)

LEMMA LeastQuotient ==
  ASSUME NEW a \in Nat, NEW b \in Nat \ {0}, NEW n \in Nat, a < b * n
  PROVE  a \div b \in 0 .. n - 1
<1> DEFINE q == a \div b
<1>1. q \in Nat /\ a = b * q + (a % b) /\ a % b \in 0 .. b - 1
  BY DivMod
<1> HIDE DEF q
<1>2. q >= n => b * q >= b * n
  BY <1>1, SMT
<1>3. b * q \in Nat /\ b * n \in Nat
  BY <1>1, SMT
<1>4. q < n
  BY <1>1, <1>2, <1>3
<1> QED BY <1>1, <1>4 DEF q

LEMMA GetStripeIndexIs ==
  ASSUME Derived, NEW leb \in Pebs
  PROVE  GetStripeIndex(leb) \in 0 .. geo.stripes - 1
<1> DEFINE n == geo.stripes
           k == lay.perSeg
           w == geo.perPortion
           index == leb % k
           p == PortionOf(leb)
           c == CeilDiv(k, n)
<1>1. n \in Nat \ {0} /\ k \in Nat \ {0} /\ w \in Nat \ {0} /\ lay.pebs \in Nat
      /\ PebDescPerStripe(lay) \in 1 .. PebDesc /\ w = PebDescPerStripe(lay) * n
  BY DerivedIs
<1>2. leb \in Nat /\ leb < lay.pebs /\ w * (leb \div w) \in Nat
      /\ leb - w * (leb \div w) \in 0 .. w - 1
  BY PortionIs
<1>3. PebDesc \in Nat \ {0} /\ LebDesc \in Nat \ {0} /\ 2 * PebDesc <= LebDesc
  BY LebDescIs, LayoutIs DEF Derived
<1>4. index \in 0 .. k - 1
  BY <1>1, <1>2, DivMod
<1>5. GetStripeIndex(leb) = IF n = 1 THEN (leb - StartLeb(p, PageOf(leb))) \div PebDesc
                            ELSE IF k > n THEN index \div c ELSE index \div k
  BY DEF GetStripeIndex
<1>6. CASE n = 1
  <2> DEFINE d == PebDescPerStripe(lay)
             r == leb - w * (leb \div w)
  <2>1. w = d
    BY <1>1, <1>6
  <2>2. leb % w \in 0 .. w - 1
    BY <1>1, <1>2, DivMod
  <2>3. PageOf(leb) = 0
    <3>1. PageOf(leb) = (leb % w) \div LebDesc
      BY DEF PageOf
    <3> DEFINE t == leb % w
    <3>2. t \in Nat /\ t \in 0 .. LebDesc - 1 /\ t = 0 * LebDesc + t
      <4>1. t \in 0 .. w - 1 /\ w = d /\ d \in 1 .. PebDesc
        BY <1>1, <2>1, <2>2
      <4> HIDE DEF t, w, d
      <4> QED BY <1>1, <1>3, <4>1
    <3> HIDE DEF t
    <3>3. t \div LebDesc = 0
      BY <1>3, <3>2, Quotient
    <3> QED BY <3>1, <3>3 DEF t
  <2>4. StartLeb(p, 0) = w * (leb \div w) + LebDesc * 0
    BY DEF StartLeb, PortionOf
  <2>5. StartLeb(p, 0) = w * (leb \div w)
    <3> DEFINE z == w * (leb \div w)
    <3>1. StartLeb(p, 0) = z + LebDesc * 0 /\ z \in Nat
      BY <1>2, <2>4
    <3> HIDE DEF z
    <3>2. StartLeb(p, 0) = z
      BY <1>3, <3>1
    <3> QED BY <3>2 DEF z
  <2>6. r \in Nat /\ r \in 0 .. PebDesc - 1
    <3>1. r \in 0 .. w - 1
      BY <1>2
    <3>2. w = d /\ d \in 1 .. PebDesc
      BY <1>1, <2>1
    <3> HIDE DEF r, w, d
    <3> QED BY <1>1, <1>3, <3>1, <3>2
  <2>7. r \div PebDesc = 0
    <3> HIDE DEF r
    <3>1. r = 0 * PebDesc + r
      BY <1>3, <2>6
    <3> QED BY <1>3, <2>6, <3>1, Quotient
  <2>8. GetStripeIndex(leb) = r \div PebDesc
    BY <1>5, <1>6, <2>3, <2>5
  <2> QED BY <1>6, <2>7, <2>8
<1>7. CASE n # 1 /\ k > n
  <2>1. c \in Nat \ {0}
    BY <1>1, Positive
  <2>2. k <= c * n /\ c * n \in Nat
    <3>1. k \in Nat /\ n \in Nat \ {0} /\ c * n \in Nat
      BY <1>1, <2>1, SMT
    <3> QED BY <3>1, CeilDivIs
  <2> HIDE DEF c, index, k, n
  <2>3. index < c * n /\ index \in Nat /\ n \in Nat
    BY <1>1, <1>4, <2>2
  <2>4. index \div c \in 0 .. n - 1
    BY <2>1, <2>3, LeastQuotient
  <2> QED BY <1>5, <1>7, <2>4 DEF n
<1>8. CASE n # 1 /\ ~(k > n)
  <2> HIDE DEF index, k, n
  <2>1. index = 0 * k + index /\ index \in Nat
    BY <1>1, <1>4
  <2>2. index \div k = 0
    BY <1>1, <1>4, <2>1, Quotient
  <2>3. 0 \in 0 .. n - 1
    BY <1>1
  <2> QED BY <1>5, <1>8, <2>2, <2>3 DEF n
<1> QED BY <1>6, <1>7, <1>8

(* The physical index of a PEB in a portion leads back to it. *)
LEMMA PhysicalIndexIs ==
  ASSUME Derived, NEW p \in Nat, NEW s \in 0 .. geo.stripes - 1,
         NEW item \in 0 .. PebsCount(p, s) - 1
  PROVE  /\ PhysicalIndex(s, item) \in Nat
         /\ PhysicalIndex(s, item) \div PebDesc = s
         /\ PhysicalIndex(s, item) % PebDesc = item
         /\ StartPeb(p, s) + item \in Pebs
<1> DEFINE n == geo.stripes
           ct == PebsCount(p, s)
           q == Share(p)
           d == PebDescPerStripe(lay)
           D == PebDesc
<1>1. n \in Nat \ {0} /\ D \in Nat \ {0}
  <2>1. lay \in Layouts
    BY DEF Derived
  <2> QED BY <2>1, LayoutIs, DerivedIs
<1>2. ct \in 0 .. q /\ q \in 0 .. d /\ d \in 1 .. D
  BY StripeIs, RestIs, DerivedIs
<1>3. item \in 0 .. ct - 1
  OBVIOUS
<1>4. StartPeb(p, s) + item \in StripePebs(p, s)
  BY DEF StripePebs
<1>5. StartPeb(p, s) + item \in Pebs
  BY <1>4, StripeOwner
<1> HIDE DEF n, ct, q, d, D
<1>6. item \in 0 .. D - 1 /\ s \in Nat /\ s <= n - 1
  BY <1>1, <1>2, <1>3 DEF n
<1>7. D * s \in Nat /\ D * s = s * D /\ D * s + D <= D * n
  <2>1. \A i, j \in Nat : i <= j - 1 => D * i + D <= D * j /\ D * i \in Nat /\ D * i = i * D
    BY <1>1, SMT
  <2> QED BY <1>1, <1>6, <2>1
<1> DEFINE x == D * s + item
<1>8. x \in Nat /\ x = s * D + item
  BY <1>1, <1>6, <1>7
<1> HIDE DEF x
<1>9. x \div D = s /\ x % D = item
  BY <1>1, <1>6, <1>8, Quotient
<1>10. PhysicalIndex(s, item) = x
  BY DEF PhysicalIndex, x, D
<1> QED BY <1>1, <1>5, <1>8, <1>9, <1>10 DEF D

LEMMA SegPebsAre ==
  ASSUME Derived
  PROVE  /\ SegsCapacity \in Nat \ {0} /\ SbSegs \in Nat /\ SbCopies \in Nat \ {0}
         /\ SegsCapacity = 1 + SbSegs + lay.bmapSegs + geo.segs
         /\ lay.bmapSegs \in Nat /\ geo.segs \in Nat /\ SbSegs = 3 * SbCopies
         /\ \A x : x \in SegPebs <=>
              x = <<x[1], x[2]>> /\ x[1] \in 0 .. SegsCapacity - 1 /\ x[2] \in 0 .. lay.perSeg - 1
<1>1. lay \in Layouts
  BY DEF Derived
<1>2. SbCopies \in Nat \ {0} /\ lay.bmapSegs \in Nat /\ geo.segs \in Nat
  BY <1>1, LayoutIs, DerivedIs
<1>3. SbSegs = 3 * SbCopies /\ SbSegs \in Nat
  BY <1>2 DEF SbSegs
<1>4. SegsCapacity = 1 + SbSegs + lay.bmapSegs + geo.segs /\ SegsCapacity \in Nat \ {0}
  BY <1>2, <1>3 DEF SegsCapacity
<1>5. \A x : x \in SegPebs <=>
        x = <<x[1], x[2]>> /\ x[1] \in 0 .. SegsCapacity - 1 /\ x[2] \in 0 .. lay.perSeg - 1
  <2> DEFINE I == 0 .. SegsCapacity - 1
             J == 0 .. lay.perSeg - 1
  <2>1. SegPebs = { <<s, j>> : s \in I, j \in J }
    BY DEF SegPebs, Segs
  <2> HIDE DEF I, J
  <2>2. \A x : x \in { <<s, j>> : s \in I, j \in J } <=> x = <<x[1], x[2]>> /\ x[1] \in I /\ x[2] \in J
    OBVIOUS
  <2> QED BY <2>1, <2>2 DEF I, J
<1> QED BY <1>2, <1>3, <1>4, <1>5

LEMMA LebIs ==
  ASSUME Derived, NEW x \in SegPebs
  PROVE  /\ Leb(x) \in Nat
         /\ LebsPerPebIndex \in Nat
         /\ x \in LebsTotal <=> Leb(x) # NoIndex
         /\ Leb(x) # NoIndex => Leb(x) = (IF LebsPerPebIndex = 1 THEN x[1] * lay.perSeg ELSE x[1])
                                         + x[2] * LebsPerPebIndex
<1> DEFINE m == LebsPerPebIndex
           k == lay.perSeg
           i == x[1]
           j == x[2]
<1>1. lay \in Layouts
  BY DEF Derived
<1>2. lay.dies \in Nat \ {0} /\ lay.pebs \in Nat /\ lay.tail \in Nat /\ U64Max \in Nat
      /\ k \in Nat \ {0}
  BY <1>1, LayoutIs
<1>3. m \in Nat
  <2> DEFINE v == lay.pebs + lay.tail
  <2>1. v \in Nat
    BY <1>2
  <2> HIDE DEF v
  <2>2. v \div lay.dies \in Nat
    BY <1>2, <2>1, DivMod
  <2> QED BY <2>2 DEF LebsPerPebIndex, v
<1>4. i \in Nat /\ j \in Nat
  <2>1. i \in 0 .. SegsCapacity - 1 /\ j \in 0 .. k - 1 /\ SegsCapacity \in Nat
    BY SegPebsAre
  <2> QED BY <1>2, <2>1
<1>5. Leb(x) = IF j >= LebsOfSeg(i) THEN NoIndex ELSE (IF m = 1 THEN i * k ELSE i) + j * m
  BY DEF Leb, LebId
<1>6. x \in LebsTotal <=> Leb(x) # NoIndex
  BY DEF LebsTotal, Leb
<1> HIDE DEF m, k, i, j
<1>7. i * k \in Nat /\ j * m \in Nat
  BY <1>2, <1>3, <1>4, SMT
<1>8. (IF m = 1 THEN i * k ELSE i) + j * m \in Nat
  BY <1>4, <1>7
<1>9. Leb(x) \in Nat
  BY <1>2, <1>5, <1>8 DEF NoIndex
<1> QED BY <1>3, <1>5, <1>6, <1>9 DEF m, k, i, j

LEMMA LebsDistinct ==
  ASSUME Derived, LebsApart, NEW x \in LebsTotal, NEW y \in LebsTotal, Leb(x) = Leb(y)
  PROVE  x = y
<1> DEFINE m == LebsPerPebIndex
           k == lay.perSeg
<1>1. x \in SegPebs /\ y \in SegPebs
  BY DEF LebsTotal
<1>2. /\ x = <<x[1], x[2]>> /\ x[1] \in 0 .. SegsCapacity - 1 /\ x[2] \in 0 .. k - 1
      /\ y = <<y[1], y[2]>> /\ y[1] \in 0 .. SegsCapacity - 1 /\ y[2] \in 0 .. k - 1
      /\ SegsCapacity \in Nat \ {0} /\ k \in Nat \ {0}
  BY <1>1, SegPebsAre, DerivedIs
<1>3. /\ m \in Nat
      /\ Leb(x) = (IF m = 1 THEN x[1] * k ELSE x[1]) + x[2] * m
      /\ Leb(y) = (IF m = 1 THEN y[1] * k ELSE y[1]) + y[2] * m
  <2>1. Leb(x) # NoIndex /\ Leb(y) # NoIndex
    BY <1>1, LebIs
  <2> QED BY <1>1, <2>1, LebIs
<1>4. m = 1 \/ SegsCapacity <= m
  BY DEF LebsApart
<1> DEFINE a == x[1]
           b == x[2]
           c == y[1]
           d == y[2]
           n == SegsCapacity
<1>5. a \in 0 .. n - 1 /\ b \in 0 .. k - 1 /\ c \in 0 .. n - 1 /\ d \in 0 .. k - 1
  BY <1>2
<1>6. n \in Nat \ {0} /\ k \in Nat \ {0} /\ m \in Nat /\ (m = 1 \/ n <= m)
  BY <1>2, <1>3, <1>4
<1>7. (IF m = 1 THEN a * k ELSE a) + b * m = (IF m = 1 THEN c * k ELSE c) + d * m
  BY <1>3
<1> HIDE DEF a, b, c, d, n, m, k
<1>8. CASE m = 1
  <2>1. a * k \in Nat /\ c * k \in Nat /\ b * m = b /\ d * m = d
    BY <1>5, <1>6, <1>8, SMT
  <2>2. a * k + b = c * k + d
    BY <1>7, <1>8, <2>1
  <2> DEFINE v == a * k + b
  <2>3. v \in Nat /\ v = a * k + b /\ v = c * k + d
    BY <1>5, <1>6, <2>1, <2>2
  <2> HIDE DEF v
  <2>4. v \div k = a /\ v % k = b
    BY <1>5, <1>6, <2>3, Quotient
  <2>5. v \div k = c /\ v % k = d
    BY <1>5, <1>6, <2>3, Quotient
  <2> QED BY <1>2, <2>4, <2>5 DEF a, b, c, d
<1>9. CASE m # 1
  <2>1. m \in Nat \ {0} /\ n <= m
    BY <1>6, <1>9
  <2>2. b * m \in Nat /\ d * m \in Nat
    BY <1>5, <1>6, SMT
  <2>3. a \in 0 .. m - 1 /\ c \in 0 .. m - 1 /\ a + b * m = c + d * m
    BY <1>5, <1>6, <1>7, <1>9, <2>1
  <2> DEFINE v == b * m + a
  <2>4. v \in Nat /\ v = b * m + a /\ v = d * m + c
    BY <2>1, <2>2, <2>3
  <2> HIDE DEF v
  <2>5. v \div m = b /\ v % m = a
    BY <1>5, <1>6, <2>1, <2>3, <2>4, Quotient
  <2>6. v \div m = d /\ v % m = c
    BY <1>5, <1>6, <2>1, <2>3, <2>4, Quotient
  <2> QED BY <1>2, <2>5, <2>6 DEF a, b, c, d
<1> QED BY <1>8, <1>9

(* The segments of the superblock: each has a LEB, and they are distinct. *)
LEMMA SbSegIs ==
  ASSUME Derived, WithinQuota(lay), NEW x \in (0 .. 2) \X (0 .. SbCopies - 1)
  PROVE  <<SbSeg(x[1], x[2]), 0>> \in LebsTotal
<1> DEFINE i == SbSeg(x[1], x[2])
           t == <<i, 0>>
           k == lay.perSeg
           m == LebsPerPebIndex
           segs == lay.pebs \div k
<1>1. /\ SegsCapacity \in Nat \ {0} /\ SbCopies \in Nat \ {0} /\ k \in Nat \ {0}
      /\ SegsCapacity = 1 + SbSegs + lay.bmapSegs + geo.segs /\ SbSegs \in Nat
      /\ lay.bmapSegs \in Nat /\ geo.segs \in Nat /\ SbSegs = 3 * SbCopies
  BY SegPebsAre, DerivedIs
<1>2. x[1] \in 0 .. 2 /\ x[2] \in 0 .. SbCopies - 1
  OBVIOUS
<1>3. i \in 1 .. SbSegs
  <2>1. i = 1 + x[1] * SbCopies + x[2]
    BY DEF SbSeg
  <2>2. x[1] = 0 \/ x[1] = 1 \/ x[1] = 2
    BY <1>2
  <2> HIDE DEF i
  <2> QED BY <1>1, <1>2, <2>1, <2>2
<1> HIDE DEF i
<1>4. t \in SegPebs
  <2>1. t = <<t[1], t[2]>> /\ t[1] \in 0 .. SegsCapacity - 1 /\ t[2] \in 0 .. lay.perSeg - 1
    BY <1>1, <1>3 DEF k
  <2> HIDE DEF t
  <2> QED BY <2>1, SegPebsAre
<1>5. LebsOfSeg(i) = k
  <2>1. i # 0 /\ i \notin 1 + SbSegs .. SbSegs + lay.bmapSegs
    BY <1>1, <1>3
  <2> QED BY <2>1 DEF LebsOfSeg
<1>6. SegsCapacity <= segs /\ segs \in Nat /\ segs * k <= lay.pebs /\ lay.pebs < U64Max
      /\ lay.pebs \in Nat /\ U64Max \in Nat
  <2>1. lay.pebs \in Nat /\ U64Max \in Nat /\ lay.pebs < U64Max
    BY LayoutIs DEF Derived
  <2>2. segs \in Nat /\ lay.pebs = segs * k + (lay.pebs % k) /\ lay.pebs % k \in 0 .. k - 1
    BY <1>1, <2>1, DivMod
  <2>3. SegsCapacity <= segs \div 2
    BY <1>1 DEF WithinQuota, MetadataFits, Derived
  <2> HIDE DEF segs, k
  <2>4. segs * k \in Nat
    BY <1>1, <2>2, SMT
  <2>5. SegsCapacity <= segs
    BY <1>1, <2>2, <2>3
  <2> QED BY <1>1, <2>1, <2>2, <2>4, <2>5
<1>7. Leb(t) = (IF m = 1 THEN i * k ELSE i) + 0 * m
  <2>1. Leb(t) = LebId(i, 0) /\ ~(0 >= k)
    BY <1>1 DEF Leb
  <2> QED BY <1>5, <2>1 DEF LebId
<1>8. m \in Nat
  BY <1>4, LebIs
<1> HIDE DEF m, k, segs
<1>9. i \in Nat /\ i < segs
  BY <1>1, <1>3, <1>6
<1>10. i * k \in Nat /\ i <= i * k /\ i * k <= segs * k /\ segs * k \in Nat /\ 0 * m = 0
  BY <1>1, <1>6, <1>8, <1>9, SMT
<1>11. Leb(t) < U64Max /\ Leb(t) \in Nat
  BY <1>6, <1>7, <1>9, <1>10
<1>12. Leb(t) # NoIndex
  BY <1>6, <1>11 DEF NoIndex
<1>13. t \in LebsTotal
  BY <1>4, <1>12, LebIs
<1> QED BY <1>13 DEF i

LEMMA SbSegsDistinct ==
  ASSUME NEW x \in (0 .. 2) \X (0 .. SbCopies - 1), NEW y \in (0 .. 2) \X (0 .. SbCopies - 1),
         SbSeg(x[1], x[2]) = SbSeg(y[1], y[2])
  PROVE  x = y
<1> DEFINE k == SbCopies
           a == x[1]
           b == x[2]
           c == y[1]
           d == y[2]
<1>1. k \in Nat \ {0}
  BY MaptblAssumption
<1>2. a \in 0 .. 2 /\ b \in 0 .. k - 1 /\ c \in 0 .. 2 /\ d \in 0 .. k - 1
      /\ x = <<a, b>> /\ y = <<c, d>>
  OBVIOUS
<1>3. 1 + a * k + b = 1 + c * k + d
  BY DEF SbSeg
<1> HIDE DEF a, b, c, d, k
<1>4. a * k \in Nat /\ c * k \in Nat /\ a \in Nat /\ c \in Nat
  BY <1>1, <1>2, SMT
<1> DEFINE v == a * k + b
<1>5. v \in Nat /\ v = a * k + b /\ v = c * k + d
  BY <1>1, <1>2, <1>3, <1>4
<1> HIDE DEF v
<1>6. v \div k = a /\ v % k = b
  BY <1>1, <1>2, <1>4, <1>5, Quotient
<1>7. v \div k = c /\ v % k = d
  BY <1>1, <1>2, <1>4, <1>5, Quotient
<1> QED BY <1>2, <1>6, <1>7

(* Walking over the PEBs of the segments. *)
LEMMA NextPebIs ==
  ASSUME Derived, cur \in Nat \X Nat, cur[2] < lay.perSeg
  PROVE  /\ NextPeb \in Nat \X Nat /\ NextPeb[2] < lay.perSeg
         /\ \A x \in SegPebs : Before(x, NextPeb) <=> Before(x, cur) \/ x = cur
<1> DEFINE k == lay.perSeg
           a == cur[1]
           b == cur[2]
           n == NextPeb
<1>1. k \in Nat \ {0} /\ a \in Nat /\ b \in Nat /\ b < k /\ cur = <<a, b>>
  BY DerivedIs
<1>2. n = IF b + 1 < k THEN <<a, b + 1>> ELSE <<a + 1, 0>>
  BY DEF NextPeb
<1> HIDE DEF k, a, b, n
<1>3. n \in Nat \X Nat /\ n[2] < k
  BY <1>1, <1>2
<1>4. ASSUME NEW x \in SegPebs
      PROVE  Before(x, n) <=> Before(x, cur) \/ x = cur
  <2>1. x = <<x[1], x[2]>> /\ x[1] \in 0 .. SegsCapacity - 1 /\ x[2] \in 0 .. k - 1
        /\ SegsCapacity \in Nat
    BY SegPebsAre DEF k
  <2> DEFINE i == x[1]
             j == x[2]
  <2>2. x = <<i, j>> /\ i \in Nat /\ j \in Nat /\ j < k
    BY <1>1, <2>1
  <2> HIDE DEF i, j
  <2>3. Before(x, cur) <=> i < a \/ (i = a /\ j < b)
    BY <1>1, <2>2 DEF Before
  <2>4. x = cur <=> i = a /\ j = b
    BY <1>1, <2>2
  <2>5. CASE b + 1 < k
    <3>1. n = <<a, b + 1>>
      BY <1>2, <2>5
    <3>2. Before(x, n) <=> i < a \/ (i = a /\ j < b + 1)
      BY <2>2, <3>1 DEF Before
    <3> QED BY <1>1, <2>2, <2>3, <2>4, <3>2
  <2>6. CASE ~(b + 1 < k)
    <3>1. n = <<a + 1, 0>>
      BY <1>2, <2>6
    <3>2. Before(x, n) <=> i < a + 1 \/ (i = a + 1 /\ j < 0)
      BY <2>2, <3>1 DEF Before
    <3> QED BY <1>1, <2>2, <2>3, <2>4, <2>6, <3>2
  <2> QED BY <2>5, <2>6
<1> QED BY <1>3, <1>4 DEF n, k

LEMMA CurBehind ==
  ASSUME Derived, cur \in Nat \X Nat, cur[2] < lay.perSeg, cur \notin SegPebs, NEW x \in SegPebs
  PROVE  Before(x, cur)
<1> DEFINE k == lay.perSeg
           c == SegsCapacity
<1>1. cur = <<cur[1], cur[2]>> /\ cur[1] \in Nat /\ cur[2] \in Nat /\ k \in Nat /\ c \in Nat
  BY DerivedIs, SegPebsAre
<1>2. ~(cur[1] \in 0 .. c - 1 /\ cur[2] \in 0 .. k - 1)
  BY <1>1, SegPebsAre
<1>3. x[1] \in 0 .. c - 1
  BY SegPebsAre
<1>4. x[1] < cur[1]
  BY <1>1, <1>2, <1>3
<1> QED BY <1>4 DEF Before

-----------------------------------------------------------------------------
(* What the layout alone determines. *)

LEMMA SameLayout ==
  ASSUME lay' = lay, geo' = geo
  PROVE  /\ SegPebs' = SegPebs /\ SegsCapacity' = SegsCapacity /\ Pebs' = Pebs
         /\ LebsPerPebIndex' = LebsPerPebIndex /\ LebsTotal' = LebsTotal
         /\ PebsPerFragment' = PebsPerFragment
         /\ LebsApart' <=> LebsApart
         /\ Derived' <=> Derived
         /\ WithinQuota(lay)' <=> WithinQuota(lay)
         /\ \A x : Leb(x)' = Leb(x)
         /\ \A p, s : StartPeb(p, s)' = StartPeb(p, s) /\ PebsCount(p, s)' = PebsCount(p, s)
         /\ \A leb : PortionOf(leb)' = PortionOf(leb)
<1>1. SegsCapacity' = SegsCapacity
  BY DEF SegsCapacity
<1>2. SegPebs' = SegPebs
  BY <1>1 DEF SegPebs, Segs
<1>3. Pebs' = Pebs
  BY DEF Pebs
<1>4. LebsPerPebIndex' = LebsPerPebIndex
  BY DEF LebsPerPebIndex
<1>5. \A x : Leb(x)' = Leb(x)
  BY <1>4 DEF Leb, LebId, LebsOfSeg
<1>6. LebsTotal' = LebsTotal
  <2>1. LebsTotal = { x \in SegPebs : Leb(x) # NoIndex }
    BY DEF LebsTotal, Leb
  <2>2. LebsTotal' = { x \in SegPebs' : Leb(x)' # NoIndex }
    BY DEF LebsTotal, Leb, NoIndex
  <2> QED BY <1>2, <1>5, <2>1, <2>2
<1>7. LebsApart' <=> LebsApart
  BY <1>1, <1>4 DEF LebsApart
<1>8. Derived' <=> Derived
  BY DEF Derived
<1>9. WithinQuota(lay)' <=> WithinQuota(lay)
  OBVIOUS
<1>10. \A p : RestPebs(p)' = RestPebs(p)
  BY DEF RestPebs
<1>11. \A p, s : StartPeb(p, s)' = StartPeb(p, s)
  BY <1>10 DEF StartPeb
<1>12. \A p, s : PebsCount(p, s)' = PebsCount(p, s)
  BY <1>10, <1>11 DEF PebsCount
<1>13. \A leb : PortionOf(leb)' = PortionOf(leb)
  BY DEF PortionOf
<1>14. PebsPerFragment' = PebsPerFragment
  BY DEF PebsPerFragment
<1> QED BY <1>1, <1>2, <1>3, <1>4, <1>5, <1>6, <1>7, <1>8, <1>9, <1>11, <1>12, <1>13, <1>14

LEMMA InitInv == Init => Inv
<1> SUFFICES ASSUME Init PROVE Inv
  OBVIOUS
<1> USE DEF Init
<1>1. lay \in Layouts
  OBVIOUS
<1>2. LayInv
  BY DEF LayInv, Running
<1>3. U64Max \in Nat /\ lay.perSeg \in Nat \ {0}
  BY <1>1, LayoutIs
<1>4. CacheInv
  BY <1>3 DEF CacheInv, NoMove
<1>5. CurInv
  BY <1>3 DEF CurInv
<1>6. TablesInv
  BY DEF TablesInv
<1>7. SbInv
  BY DEF SbInv
<1> QED BY <1>2, <1>4, <1>5, <1>6, <1>7 DEF Inv

LEMMA OthersKeepLayout ==
  ASSUME Next, ~AllocationPolicy
  PROVE  lay' = lay /\ geo' = geo
  BY DEF Next, Step, Idle, vars, Prepare, PrepareCache, PrepareBug, PrepareFails, SkipPeb, MapLeb, MapLebFails,
         CachePair, CacheBug, MarkStart, MarkLeb, MarkStripe, MarkNextPage, InitSbHeader, InitSbSegs

LEMMA PebsExist ==
  ASSUME Derived
  PROVE  \A f : DOMAIN f = Pebs => f # << >>
<1>1. 0 \in Pebs
  BY DerivedIs DEF Pebs
<1> QED BY <1>1

LEMMA LayNext ==
  ASSUME Inv, Next
  PROVE  LayInv'
<1>1. LayInv /\ TablesInv
  BY DEF Inv
<1>2. CASE AllocationPolicy
  <2>1. pc = "policy" /\ phys = << >> /\ phys' = phys /\ lay' = lay /\ lay \in Layouts
    BY <1>1, <1>2 DEF LayInv, AllocationPolicy, tables
  <2>2. CASE TooManyStripes \/ PortionTooLarge \/ TooManyPortions
    <3>1. pc' \in {"failed", "abort"}
      BY <1>2, <2>2 DEF AllocationPolicy
    <3> QED BY <2>1, <3>1 DEF LayInv, Running
  <2>3. CASE ~TooManyStripes /\ ~PortionTooLarge /\ ~TooManyPortions
    <3>1. geo' = Geometry(lay) /\ pc' \in {"prepare", "failed", "abort"}
          /\ (pc' = "prepare" => WithinQuota(lay))
      BY <1>2, <2>3 DEF AllocationPolicy, WithinQuota
    <3>2. PortionPages(lay) <= ErasePages
      <4>1. PortionPages(lay) \in Nat /\ ErasePages \in Nat
        BY <2>1, PerStripeIs, LayoutIs
      <4> QED BY <2>3, <4>1 DEF PortionTooLarge
    <3>3. Derived'
      BY <2>1, <3>1, <3>2 DEF Derived
    <3>4. WithinQuota(lay)' <=> WithinQuota(lay)
      BY <2>1
    <3> QED BY <2>1, <3>1, <3>3, <3>4 DEF LayInv, Running
  <2> QED BY <2>2, <2>3
<1>3. CASE ~AllocationPolicy
  <2>1. lay' = lay /\ geo' = geo
    BY <1>3, OthersKeepLayout
  <2>2. (Derived' <=> Derived) /\ (WithinQuota(lay)' <=> WithinQuota(lay)) /\ Pebs' = Pebs
    BY <2>1, SameLayout
  <2>3. CASE Prepare
    <3>1. pc = "prepare" /\ pc' = "cache" /\ phys' = [leb \in Pebs |-> NoIndex]
      BY <2>3 DEF Prepare
    <3>2. Derived /\ WithinQuota(lay)
      BY <1>1, <3>1 DEF LayInv
    <3>3. phys' # << >>
      BY <3>1, <3>2, PebsExist
    <3> QED BY <1>1, <2>1, <2>2, <3>1, <3>2, <3>3 DEF LayInv, Running
  <2>4. CASE MapLeb
    <3>1. pc = "map" /\ pc' = "pair"
      BY <2>4 DEF MapLeb
    <3>2. Derived /\ WithinQuota(lay) /\ phys # << >>
      BY <1>1, <3>1 DEF LayInv, Running
    <3>3. DOMAIN phys = Pebs
      BY <1>1, <3>2 DEF TablesInv, TableTypes
    <3>4. DOMAIN phys' = DOMAIN phys
      BY <2>4 DEF MapLeb
    <3>5. phys' # << >>
      BY <3>2, <3>3, <3>4, PebsExist
    <3> QED BY <1>1, <2>1, <2>2, <3>1, <3>2, <3>5 DEF LayInv, Running
  <2>5. CASE ~Prepare /\ ~MapLeb
    <3>1. phys' = phys
      BY <1>3, <2>5
      DEF Next, Step, Idle, vars, tables, PrepareCache, PrepareBug, PrepareFails, SkipPeb, MapLebFails,
          CachePair, CacheBug, MarkStart, MarkLeb, MarkStripe, MarkNextPage, InitSbHeader, InitSbSegs
    <3>2. \/ pc' = pc
          \/ pc' \in {"failed", "abort", "crash"}
          \/ pc \in Running /\ pc' \in Running
      BY <1>3, <2>5
      DEF Next, Step, Idle, vars, PrepareCache, PrepareBug, PrepareFails, SkipPeb, MapLebFails, Running,
          CachePair, CacheBug, MarkStart, MarkLeb, MarkStripe, MarkNextPage, InitSbHeader, InitSbSegs
    <3>3. CASE pc' = pc
      BY <1>1, <2>1, <2>2, <3>1, <3>3 DEF LayInv
    <3>4. CASE pc' \in {"failed", "abort", "crash"}
      BY <1>1, <2>1, <2>2, <3>1, <3>4 DEF LayInv, Running
    <3>5. CASE pc \in Running /\ pc' \in Running
      BY <1>1, <2>1, <2>2, <3>1, <3>5 DEF LayInv, Running
    <3> QED BY <3>2, <3>3, <3>4, <3>5
  <2> QED BY <2>3, <2>4, <2>5
<1> QED BY <1>2, <1>3

(* map_leb2peb finds a PEB of the LEB's stripe that is not used yet. *)
LEMMA MapLebIs ==
  ASSUME Inv, MapLeb
  PROVE  \E s \in 0 .. geo.stripes - 1 :
         \E item \in 0 .. PebsCount(PortionOf(Leb(cur)), s) - 1 :
         \E peb \in Pebs :
           /\ Derived /\ TableTypes /\ cur \in SegPebs /\ cur \in LebsTotal
           /\ Leb(cur) \in Pebs /\ PortionOf(Leb(cur)) \in Nat
           /\ s = GetStripeIndex(Leb(cur))
           /\ peb = StartPeb(PortionOf(Leb(cur)), s) + item
           /\ state[peb] = "unknown"
           /\ \A j \in 0 .. item - 1 : state[StartPeb(PortionOf(Leb(cur)), s) + j] # "unknown"
           /\ state' = [state EXCEPT ![peb] = "using"]
           /\ phys' = [phys EXCEPT ![Leb(cur)] = PhysicalIndex(s, item)]
           /\ PhysicalIndex(s, item) < U16Limit
           /\ segPeb' = [segPeb EXCEPT ![cur] = peb]
           /\ move'.leb = Leb(cur) /\ move'.peb = peb
<1> DEFINE leb == LebId(cur[1], cur[2])
           s == GetStripeIndex(leb)
           p == PortionOf(leb)
           unused == UnusedItems(p, s)
           item == LeastOf(unused)
           peb == StartPeb(p, s) + item
<1>1. /\ pc = "map" /\ cur \in SegPebs /\ leb \in Pebs /\ unused # {}
      /\ state' = [state EXCEPT ![peb] = "using"]
      /\ phys' = [phys EXCEPT ![leb] = PhysicalIndex(s, item)]
      /\ PhysicalIndex(s, item) < U16Limit
      /\ segPeb' = [segPeb EXCEPT ![cur] = peb]
      /\ move' = [to |-> FindFragment(leb), leb |-> leb, peb |-> peb]
  BY DEF MapLeb
<1>2. Derived /\ TableTypes
  <2>1. LayInv /\ TablesInv
    BY DEF Inv
  <2> QED BY <1>1, <2>1 DEF LayInv, TablesInv, Running
<1>3. leb = Leb(cur)
  BY DEF Leb
<1>4. unused = { j \in 0 .. PebsCount(p, s) - 1 : state[StartPeb(p, s) + j] = "unknown" }
  BY DEF UnusedItems
<1> HIDE DEF leb, s, unused
<1>5. s \in 0 .. geo.stripes - 1
  BY <1>1, <1>2, GetStripeIndexIs DEF s
<1>6. p \in Nat
  BY <1>1, <1>2, PortionIs DEF PortionOf
<1> HIDE DEF p
<1>7. /\ item \in 0 .. PebsCount(p, s) - 1 /\ state[peb] = "unknown"
      /\ \A j \in 0 .. item - 1 : state[StartPeb(p, s) + j] # "unknown"
  <2>1. unused \in SUBSET Nat
    BY <1>4
  <2>2. item \in unused /\ \A y \in unused : item <= y
    BY <1>1, <2>1, LeastOfIs
  <2> HIDE DEF item
  <2> DEFINE c == PebsCount(p, s)
  <2>3. c \in Nat
    <3>1. c \in 0 .. Share(p) /\ Share(p) \in 0 .. PebDescPerStripe(lay)
      BY <1>2, <1>5, <1>6, StripeIs, RestIs
    <3> QED BY <3>1
  <2>4. item \in 0 .. c - 1
    BY <1>4, <2>2
  <2> HIDE DEF c
  <2>5. \A j \in 0 .. item - 1 : j \in 0 .. c - 1 /\ ~(item <= j)
    BY <2>3, <2>4
  <2> QED BY <1>4, <2>2, <2>4, <2>5 DEF c
<1> HIDE DEF item
<1>8. peb \in Pebs
  BY <1>2, <1>5, <1>6, <1>7, PhysicalIndexIs
<1>9. cur \in LebsTotal
  <2>1. NoIndex \notin Pebs
    BY <1>2, LayoutIs DEF NoIndex, Pebs, Derived
  <2> QED BY <1>1, <1>2, <1>3, <2>1, LebIs
<1>10. move'.leb = leb /\ move'.peb = peb
  BY <1>1
<1>11. p = PortionOf(Leb(cur))
  BY <1>3 DEF p
<1> HIDE DEF peb
<1>12. peb = StartPeb(p, s) + item
  BY DEF peb
<1>13. s = GetStripeIndex(Leb(cur))
  BY <1>3 DEF s
<1> QED BY <1>1, <1>2, <1>3, <1>5, <1>6, <1>7, <1>8, <1>9, <1>10, <1>11, <1>12, <1>13

LEMMA CacheNext ==
  ASSUME Inv, Next
  PROVE  CacheInv'
<1>1. LayInv /\ CacheInv
  BY DEF Inv
<1>2. lay \in Layouts /\ lay' = lay /\ lay.pairs \in Nat \ {0} /\ U64Max \in Nat \ {0}
  <2>1. lay' = lay
    BY OthersKeepLayout DEF AllocationPolicy
  <2>2. lay \in Layouts
    BY <1>1 DEF LayInv
  <2>3. U64Max # 0
    BY <2>2, LayoutIs
  <2> QED BY <2>1, <2>2, <2>3, LayoutIs
<1>3. CASE PrepareCache
  <2>1. pc = "cache" /\ pc' = "map" /\ move' = move
        /\ \E n : cache' = [f \in 1 .. n |-> EmptyFragment]
    BY <1>3 DEF PrepareCache
  <2>2. EmptyFragment \in Fragment
    BY <1>2 DEF EmptyFragment, Fragment
  <2>3. cache' \in [DOMAIN cache' -> Fragment]
    BY <2>1, <2>2
  <2>4. EmptyFragment.items = 0 /\ Len(EmptyFragment.pairs) = 0
    BY DEF EmptyFragment
  <2>5. \A f \in DOMAIN cache' : Len(cache'[f].pairs) = 0 /\ cache'[f].items = 0
    BY <2>1, <2>4
  <2>6. Least(0, lay.pairs) = 0
    BY <1>2 DEF Least
  <2>7. \A f \in DOMAIN cache' :
          Len(cache'[f].pairs) = Least(cache'[f].items, lay.pairs) /\ cache'[f].items <= lay.pairs + 1
    BY <1>2, <2>5, <2>6
  <2> QED BY <1>1, <1>2, <2>1, <2>3, <2>7 DEF CacheInv
<1>4. CASE MapLeb
  <2>1. cache' = cache /\ pc' = "pair"
    BY <1>4 DEF MapLeb
  <2>2. Derived /\ move'.leb \in Pebs /\ move'.peb \in Pebs
    BY <1>4, MapLebIs
  <2>3. move'.leb \in Nat /\ move'.peb \in Nat
    BY <2>2, PortionIs
  <2> QED BY <1>1, <1>2, <2>1, <2>3 DEF CacheInv
<1>5. CASE CachePair
  <2> DEFINE f == cache[move.to]
             pair == [leb |-> move.leb, peb |-> move.peb]
             last == f.pairs[Len(f.pairs)]
             g == Added(f, pair)
  <2>1. move.to \in DOMAIN cache /\ f.items <= lay.pairs /\ pc = "pair"
        /\ pc' \in {"pair", "map"} /\ cache' = [cache EXCEPT ![move.to] = g]
    BY <1>5 DEF CachePair
  <2>2. f \in Fragment /\ Len(f.pairs) = Least(f.items, lay.pairs)
    BY <1>1, <2>1 DEF CacheInv
  <2>3. pair \in Pair
    BY <1>1 DEF CacheInv, Pair
  <2>4. g \in Fragment /\ g.items = f.items + 1 /\ Len(g.pairs) = Least(f.items + 1, lay.pairs)
    <3> HIDE DEF f, pair
    <3> QED BY <1>2, <2>1, <2>2, <2>3, AddedIs
  <2>5. f.items \in Nat
    BY <2>2 DEF Fragment
  <2>6. move'.leb \in Nat /\ move'.peb \in Nat
    <3>1. CASE f.items = lay.pairs
      <4>1. move' = [to |-> move.to + 1, leb |-> last.leb, peb |-> last.peb]
        BY <1>5, <3>1 DEF CachePair
      <4>2. Len(f.pairs) \in Nat \ {0}
        BY <1>2, <2>2, <3>1 DEF Least
      <4>3. f.pairs \in Seq(Pair)
        BY <2>2 DEF Fragment
      <4> HIDE DEF f
      <4>4. last \in Pair
        BY <4>2, <4>3
      <4> HIDE DEF last
      <4> QED BY <4>1, <4>4 DEF Pair
    <3>2. CASE f.items # lay.pairs
      <4>1. move' = NoMove
        BY <1>5, <3>2 DEF CachePair
      <4> QED BY <1>2, <4>1 DEF NoMove
    <3> QED BY <3>1, <3>2
  <2> HIDE DEF f, g
  <2>7. g.items <= lay.pairs + 1 /\ Len(g.pairs) = Least(g.items, lay.pairs)
    BY <1>2, <2>1, <2>4, <2>5
  <2>8. DOMAIN cache' = DOMAIN cache /\ \A k \in DOMAIN cache : cache'[k] = IF k = move.to THEN g ELSE cache[k]
    BY <1>1, <2>1 DEF CacheInv
  <2>9. cache' \in [DOMAIN cache' -> Fragment]
    BY <1>1, <2>1, <2>4 DEF CacheInv
  <2>10. \A k \in DOMAIN cache' :
           Len(cache'[k].pairs) = Least(cache'[k].items, lay.pairs) /\ cache'[k].items <= lay.pairs + 1
    BY <1>1, <2>7, <2>8 DEF CacheInv
  <2> QED BY <1>2, <2>1, <2>6, <2>9, <2>10 DEF CacheInv
<1>6. CASE ~PrepareCache /\ ~MapLeb /\ ~CachePair
  <2>1. cache' = cache /\ move' = move
    BY <1>6
    DEF Next, Step, Idle, vars, cacheVars, AllocationPolicy, Prepare, PrepareBug, PrepareFails, SkipPeb,
        MapLebFails, CacheBug, MarkStart, MarkLeb, MarkStripe, MarkNextPage, InitSbHeader, InitSbSegs
  <2>2. pc' \in {"policy", "prepare", "cache"} => pc \in {"policy", "prepare", "cache"}
    BY <1>6
    DEF Next, Step, Idle, vars, AllocationPolicy, Prepare, PrepareBug, PrepareFails, SkipPeb,
        MapLebFails, CacheBug, MarkStart, MarkLeb, MarkStripe, MarkNextPage, InitSbHeader, InitSbSegs
  <2> QED BY <1>1, <1>2, <2>1, <2>2 DEF CacheInv
<1> QED BY <1>3, <1>4, <1>5, <1>6

LEMMA CurNext ==
  ASSUME Inv, Next
  PROVE  CurInv'
<1>1. LayInv /\ CurInv
  BY DEF Inv
<1>2. lay' = lay
  BY OthersKeepLayout DEF AllocationPolicy
<1>3. CASE cur' = NextPeb /\ pc \in {"map", "pair"} /\ pc' = "map"
  <2>1. Derived
    BY <1>1, <1>3 DEF LayInv, Running
  <2>2. NextPeb \in Nat \X Nat /\ NextPeb[2] < lay.perSeg
    BY <1>1, <2>1, NextPebIs DEF CurInv
  <2> QED BY <1>2, <1>3, <2>2 DEF CurInv
<1>4. CASE cur' = cur /\ ~AllocationPolicy
  <2>1. lay' = lay /\ geo' = geo
    BY <1>4, OthersKeepLayout
  <2>2. SegPebs' = SegPebs
    BY <2>1, SameLayout
  <2>3. /\ pc' \in {"policy", "prepare", "cache"} => pc \in {"policy", "prepare", "cache"}
        /\ pc' = "pair" => pc = "pair" \/ cur \in SegPebs
    BY <1>4
    DEF Next, Step, Idle, vars, Prepare, PrepareCache, PrepareBug, PrepareFails, SkipPeb, MapLeb, MapLebFails,
        CachePair, CacheBug, MarkStart, MarkLeb, MarkStripe, MarkNextPage, InitSbHeader, InitSbSegs
  <2> QED BY <1>1, <1>4, <2>1, <2>2, <2>3 DEF CurInv
<1>5. CASE AllocationPolicy
  <2>1. cur' = cur /\ pc = "policy" /\ pc' # "pair"
    BY <1>5 DEF AllocationPolicy
  <2> QED BY <1>1, <1>2, <2>1 DEF CurInv
<1>6. \/ cur' = NextPeb /\ pc \in {"map", "pair"} /\ pc' = "map"
      \/ cur' = cur
  BY DEF Next, Step, Idle, vars, AllocationPolicy, Prepare, PrepareCache, PrepareBug, PrepareFails, SkipPeb, MapLeb,
         MapLebFails, CachePair, CacheBug, MarkStart, MarkLeb, MarkStripe, MarkNextPage, InitSbHeader,
         InitSbSegs
<1> QED BY <1>3, <1>4, <1>5, <1>6

LEMMA ResolvedNext ==
  ASSUME lay' = lay, geo' = geo, NEW leb, NEW x, phys'[leb] = x
  PROVE  Resolved(leb)' = StartPeb(PortionOf(leb), x \div PebDesc) + (x % PebDesc)
  BY DEF Resolved, StartPeb, RestPebs, PortionOf

LEMMA SameResolved ==
  ASSUME lay' = lay, geo' = geo, NEW leb, phys'[leb] = phys[leb]
  PROVE  Resolved(leb)' = Resolved(leb)
<1>1. Resolved(leb)' = StartPeb(PortionOf(leb), phys[leb] \div PebDesc) + (phys[leb] % PebDesc)
  BY ResolvedNext
<1> QED BY <1>1 DEF Resolved

(* A step that maps nothing and uses no other PEB. *)
LEMMA SameMap ==
  ASSUME lay' = lay, geo' = geo, segPeb' = segPeb, phys' = phys, TableTypes, MapInv,
         state' \in [Pebs -> {"unknown", "using", "pre_erase"}],
         \A peb \in Pebs : state'[peb] = "using" <=> state[peb] = "using"
  PROVE  TableTypes' /\ MapInv' /\ Assigned' = Assigned
<1>1. /\ SegPebs' = SegPebs /\ Pebs' = Pebs /\ LebsTotal' = LebsTotal
      /\ (LebsApart' <=> LebsApart) /\ \A x : Leb(x)' = Leb(x)
  BY SameLayout
<1>2. NoIndex' = NoIndex
  BY DEF NoIndex
<1>3. TableTypes'
  BY <1>1, <1>2 DEF TableTypes
<1>4. Assigned' = Assigned
  BY <1>1, <1>2 DEF Assigned
<1>5. Mapped' = Mapped
  BY <1>2 DEF Mapped
<1>6. \A leb : Resolved(leb)' = Resolved(leb)
  BY SameResolved
<1>7. \A x \in Assigned : segPeb[x] \in Pebs
  BY DEF Assigned, TableTypes
<1>8. \A x \in Assigned : Leb(x) \in Pebs /\ state'[segPeb[x]] = "using"
  BY <1>7 DEF MapInv
<1>9. \A peb \in Pebs : state'[peb] = "using" => \E x \in Assigned : segPeb[x] = peb
  BY DEF MapInv
<1>10. MapInv'
  BY <1>1, <1>4, <1>5, <1>6, <1>8, <1>9 DEF MapInv
<1> QED BY <1>3, <1>4, <1>10

LEMMA PrepareTables ==
  ASSUME Inv, Prepare
  PROVE  TablesInv'
<1>1. lay' = lay /\ geo' = geo /\ pc' = "cache" /\ cur' = <<0, 0>>
      /\ segPeb' = [x \in SegPebs |-> NoIndex] /\ phys' = [leb \in Pebs |-> NoIndex]
      /\ state' = [peb \in Pebs |-> "unknown"] /\ Derived
  BY DEF Prepare, Inv, CurInv, LayInv
<1>2. /\ SegPebs' = SegPebs /\ Pebs' = Pebs /\ LebsTotal' = LebsTotal
  BY <1>1, SameLayout
<1>3. NoIndex \in Nat /\ NoIndex' = NoIndex
  BY MaptblAssumption DEF NoIndex
<1>4. TableTypes'
  BY <1>1, <1>2, <1>3 DEF TableTypes
<1>5. Assigned' = {}
  BY <1>1, <1>2, <1>3 DEF Assigned
<1>6. \A x \in LebsTotal : ~Before(x, <<0, 0>>)
  <2> TAKE x \in LebsTotal
  <2>1. x \in SegPebs
    BY DEF LebsTotal
  <2>2. x[1] \in 0 .. SegsCapacity - 1 /\ x[2] \in 0 .. lay.perSeg - 1
        /\ SegsCapacity \in Nat /\ lay.perSeg \in Nat
    BY <1>1, <2>1, SegPebsAre, DerivedIs
  <2> QED BY <2>2 DEF Before
<1>7. Reached'
  <2>1. \A x \in LebsTotal' : ~Before(x, cur')
    BY <1>1, <1>2, <1>6
  <2> QED BY <1>1, <1>5, <2>1 DEF Reached, Behind, Before
<1>8. Mapped' = {}
  BY <1>1, <1>3 DEF Mapped
<1>9. \A peb \in Pebs : state'[peb] # "using"
  BY <1>1
<1>10. MapInv'
  BY <1>2, <1>5, <1>8, <1>9 DEF MapInv
<1> QED BY <1>4, <1>7, <1>10 DEF TablesInv

LEMMA MapLebTables ==
  ASSUME Inv, MapLeb
  PROVE  TablesInv'
<1>1. lay' = lay /\ geo' = geo /\ pc = "map" /\ pc' = "pair" /\ cur' = cur
  BY DEF MapLeb
<1> DEFINE leb == Leb(cur)
           p == PortionOf(leb)
<1>2. PICK s \in 0 .. geo.stripes - 1 :
        \E item \in 0 .. PebsCount(p, s) - 1 :
        \E peb \in Pebs :
          /\ Derived /\ TableTypes /\ cur \in SegPebs /\ cur \in LebsTotal
          /\ leb \in Pebs /\ p \in Nat
          /\ peb = StartPeb(p, s) + item
          /\ state[peb] = "unknown"
          /\ state' = [state EXCEPT ![peb] = "using"]
          /\ phys' = [phys EXCEPT ![leb] = PhysicalIndex(s, item)]
          /\ PhysicalIndex(s, item) < U16Limit
          /\ segPeb' = [segPeb EXCEPT ![cur] = peb]
          /\ move'.leb = leb /\ move'.peb = peb
  BY MapLebIs
<1>3. PICK item \in 0 .. PebsCount(p, s) - 1 :
        \E peb \in Pebs :
          /\ Derived /\ TableTypes /\ cur \in SegPebs /\ cur \in LebsTotal
          /\ leb \in Pebs /\ p \in Nat
          /\ peb = StartPeb(p, s) + item
          /\ state[peb] = "unknown"
          /\ state' = [state EXCEPT ![peb] = "using"]
          /\ phys' = [phys EXCEPT ![leb] = PhysicalIndex(s, item)]
          /\ PhysicalIndex(s, item) < U16Limit
          /\ segPeb' = [segPeb EXCEPT ![cur] = peb]
          /\ move'.leb = leb /\ move'.peb = peb
  BY <1>2
<1>4. PICK peb \in Pebs :
          /\ Derived /\ TableTypes /\ cur \in SegPebs /\ cur \in LebsTotal
          /\ leb \in Pebs /\ p \in Nat
          /\ peb = StartPeb(p, s) + item
          /\ state[peb] = "unknown"
          /\ state' = [state EXCEPT ![peb] = "using"]
          /\ phys' = [phys EXCEPT ![leb] = PhysicalIndex(s, item)]
          /\ PhysicalIndex(s, item) < U16Limit
          /\ segPeb' = [segPeb EXCEPT ![cur] = peb]
          /\ move'.leb = leb /\ move'.peb = peb
  BY <1>3
<1> DEFINE x0 == PhysicalIndex(s, item)
<1>5. /\ SegPebs' = SegPebs /\ Pebs' = Pebs /\ LebsTotal' = LebsTotal
      /\ (LebsApart' <=> LebsApart) /\ (\A x : Leb(x)' = Leb(x)) /\ NoIndex' = NoIndex
  BY <1>1, SameLayout DEF NoIndex
<1>6. Reached /\ MapInv /\ cur \in Nat \X Nat
  <2>1. LayInv /\ TablesInv /\ CurInv
    BY DEF Inv
  <2> QED BY <1>1, <2>1 DEF LayInv, TablesInv, CurInv, Running
<1>7. x0 \in Nat /\ x0 # NoIndex /\ x0 \div PebDesc = s /\ x0 % PebDesc = item
  <2>1. x0 \in Nat /\ x0 \div PebDesc = s /\ x0 % PebDesc = item /\ x0 < U16Limit
    BY <1>4, PhysicalIndexIs
  <2>2. U16Limit \in Nat /\ U64Max \in Nat /\ U16Limit < U64Max
    BY MaptblAssumption
  <2> HIDE DEF x0
  <2> QED BY <2>1, <2>2 DEF NoIndex
<1>8. NoIndex \notin Pebs
  BY <1>4, LayoutIs DEF NoIndex, Pebs, Derived
<1> HIDE DEF x0, leb
<1>9. phys \in [Pebs -> Nat] /\ state \in [Pebs -> {"unknown", "using", "pre_erase"}]
      /\ segPeb \in [SegPebs -> Pebs \cup {NoIndex}]
  BY <1>4 DEF TableTypes
<1>10. phys' = [phys EXCEPT ![leb] = x0] /\ leb \in Pebs
  BY <1>4 DEF x0
<1>11. TableTypes'
  BY <1>4, <1>5, <1>7, <1>9, <1>10 DEF TableTypes
<1>12. Assigned = { x \in LebsTotal : Before(x, cur) }
  BY <1>1, <1>6 DEF Reached
<1>13. cur \notin Assigned
  BY <1>6, <1>12 DEF Before
<1>14. Assigned' = Assigned \cup {cur}
  BY <1>4, <1>5, <1>8, <1>9 DEF Assigned
<1>15. /\ segPeb'[cur] = peb /\ state'[peb] = "using"
       /\ \A x \in Assigned : segPeb'[x] = segPeb[x]
       /\ \A b \in Pebs : b # peb => state'[b] = state[b]
  BY <1>4, <1>9, <1>13 DEF Assigned
<1>16. \A x \in Assigned : segPeb[x] \in Pebs /\ segPeb[x] # peb
  BY <1>4, <1>6, <1>9 DEF Assigned, MapInv
<1>17. Reached'
  <2>1. Assigned' = { x \in LebsTotal : Before(x, cur) \/ x = cur }
    BY <1>4, <1>12, <1>14
  <2> QED BY <1>1, <1>5, <2>1 DEF Reached, Behind, Before
<1>18. Mapped' = Mapped \cup {leb}
  BY <1>5, <1>7, <1>9, <1>10 DEF Mapped
<1>19. \A x \in Assigned' : Leb(x)' \in Pebs' /\ state'[segPeb'[x]] = "using"
  BY <1>5, <1>6, <1>10, <1>14, <1>15, <1>16 DEF MapInv, leb
<1>20. \A x, y \in Assigned' : segPeb'[x] = segPeb'[y] => x = y
  BY <1>6, <1>14, <1>15, <1>16 DEF MapInv
<1>21. \A l \in Mapped' : \E x \in Assigned' : Leb(x)' = l
  BY <1>5, <1>6, <1>14, <1>18 DEF MapInv, leb
<1>22. \A b \in Pebs' : state'[b] = "using" => \E x \in Assigned' : segPeb'[x] = b
  BY <1>5, <1>6, <1>14, <1>15 DEF MapInv
<1>23. ASSUME LebsApart, NEW x \in Assigned'
       PROVE  Leb(x)' \in Mapped' /\ Resolved(Leb(x))' = segPeb'[x]
  <2>1. CASE x = cur
    <3>1. Leb(x)' = Leb(x) /\ Leb(x) = leb
      BY <1>5, <2>1 DEF leb
    <3>2. phys'[Leb(x)] = x0
      BY <1>9, <1>10, <3>1
    <3>3. Resolved(Leb(x))' = StartPeb(PortionOf(Leb(x)), x0 \div PebDesc) + (x0 % PebDesc)
      BY <1>1, <3>1, <3>2 DEF Resolved, StartPeb, RestPebs, PortionOf
    <3>4. Resolved(Leb(x))' = StartPeb(PortionOf(Leb(x)), s) + item
      BY <1>7, <3>3
    <3>5. PortionOf(Leb(x)) = p
      BY <3>1
    <3>6. Resolved(Leb(x))' = peb
      BY <1>4, <3>4, <3>5
    <3> QED BY <1>15, <1>18, <2>1, <3>1, <3>6
  <2>2. CASE x \in Assigned
    <3>1. Leb(x) \in Mapped /\ Resolved(Leb(x)) = segPeb[x]
      BY <1>6, <1>23, <2>2 DEF MapInv
    <3>2. Leb(x) # leb
      <4>1. x \in LebsTotal /\ cur \in LebsTotal /\ x # cur
        BY <1>4, <1>12, <1>13, <2>2
      <4> QED BY <1>4, <1>23, <4>1, LebsDistinct DEF leb
    <3>3. phys'[Leb(x)] = phys[Leb(x)]
      BY <1>9, <1>10, <3>1, <3>2 DEF Mapped
    <3> DEFINE l == Leb(x)
    <3>4. Leb(x)' = l
      BY <1>5
    <3>5. phys'[l] = phys[l] /\ Resolved(l) = segPeb[x] /\ l \in Mapped
      BY <3>1, <3>3
    <3>6. Resolved(Leb(x))' = StartPeb(PortionOf(Leb(x)), phys[Leb(x)] \div PebDesc) + (phys[Leb(x)] % PebDesc)
      BY <1>1, <3>3, <3>4 DEF Resolved, StartPeb, RestPebs, PortionOf
    <3>7. Resolved(Leb(x))' = segPeb[x]
      BY <3>1, <3>6 DEF Resolved
    <3> QED BY <1>15, <1>18, <2>2, <3>4, <3>5, <3>7
  <2> QED BY <1>14, <2>1, <2>2
<1>24. MapInv'
  BY <1>5, <1>19, <1>20, <1>21, <1>22, <1>23 DEF MapInv
<1> QED BY <1>11, <1>17, <1>24 DEF TablesInv

(* The walk over the segments' PEBs: a PEB was cached or has no LEB, the   *)
(* walk has ended, or nothing of it changes.                               *)
LEMMA ReachedNext ==
  ASSUME Inv, Next, phys # << >>, ~AllocationPolicy, ~Prepare, ~MapLeb, segPeb' = segPeb
  PROVE  Reached'
<1>1. LayInv /\ CurInv /\ TablesInv
  BY DEF Inv
<1>2. Derived /\ Reached /\ cur \in Nat \X Nat /\ cur[2] < lay.perSeg
  BY <1>1 DEF LayInv, TablesInv, CurInv
<1>3. lay' = lay /\ geo' = geo
  BY OthersKeepLayout
<1>4. SegPebs' = SegPebs /\ LebsTotal' = LebsTotal /\ NoIndex' = NoIndex
  BY <1>3, SameLayout DEF NoIndex
<1>5. Assigned' = Assigned
  BY <1>4 DEF Assigned
<1>6. \A x \in LebsTotal : x \in SegPebs
  BY DEF LebsTotal
<1>7. CASE pc' = "map" /\ cur' = NextPeb /\ pc = "pair"
  <2>1. Assigned = { x \in LebsTotal : Before(x, cur) \/ x = cur }
    BY <1>2, <1>7 DEF Reached
  <2>2. \A x \in LebsTotal : Before(x, NextPeb) <=> Before(x, cur) \/ x = cur
    BY <1>2, <1>6, NextPebIs
  <2>3. Assigned = { x \in LebsTotal : Before(x, NextPeb) }
    BY <2>1, <2>2
  <2> QED BY <1>4, <1>5, <1>7, <2>3 DEF Reached, Behind, Before
<1>8. CASE SkipPeb
  <2>1. pc = "map" /\ pc' = pc /\ cur' = NextPeb /\ cur \notin LebsTotal
    BY <1>8 DEF SkipPeb, LebsTotal
  <2>2. Assigned = { x \in LebsTotal : Before(x, cur) }
    BY <1>2, <2>1 DEF Reached
  <2>3. \A x \in LebsTotal : Before(x, NextPeb) <=> Before(x, cur) \/ x = cur
    BY <1>2, <1>6, NextPebIs
  <2>4. Assigned = { x \in LebsTotal : Before(x, NextPeb) }
    BY <2>1, <2>2, <2>3
  <2> QED BY <1>4, <1>5, <2>1, <2>4 DEF Reached, Behind, Before
<1>9. CASE MarkStart
  <2>1. pc = "map" /\ cur \notin SegPebs /\ pc' \in {"header", "mark_leb"}
    BY <1>9 DEF MarkStart
  <2>2. Assigned = { x \in LebsTotal : Before(x, cur) }
    BY <1>2, <2>1 DEF Reached
  <2>3. \A x \in LebsTotal : Before(x, cur)
    BY <1>2, <1>6, <2>1, CurBehind
  <2>4. Assigned = LebsTotal
    BY <2>2, <2>3
  <2> QED BY <1>4, <1>5, <2>1, <2>4 DEF Reached
<1>10. CASE cur' = cur /\ (pc' = pc \/ pc' \in {"failed", "abort", "crash"} \/ PrepareCache
                           \/ (pc \in Behind /\ pc' \in Behind))
  <2>1. \/ pc' = pc
        \/ pc' \in {"failed", "abort", "crash"}
        \/ pc = "cache" /\ pc' = "map"
        \/ pc \in Behind /\ pc' \in Behind
    BY <1>10 DEF PrepareCache
  <2> QED BY <1>2, <1>4, <1>5, <1>10, <2>1 DEF Reached, Behind, Before
<1>11. \/ pc' = "map" /\ cur' = NextPeb /\ pc = "pair"
       \/ SkipPeb \/ MarkStart
       \/ cur' = cur /\ (pc' = pc \/ pc' \in {"failed", "abort", "crash"} \/ PrepareCache
                         \/ (pc \in Behind /\ pc' \in Behind))
  <2>1. CASE CachePair
    BY <2>1 DEF CachePair
  <2>2. CASE PrepareCache
    BY <2>2 DEF PrepareCache
  <2>3. CASE PrepareBug \/ PrepareFails \/ MapLebFails \/ CacheBug
    BY <2>3 DEF PrepareBug, PrepareFails, MapLebFails, CacheBug
  <2>4. CASE MarkLeb \/ MarkStripe \/ MarkNextPage
    BY <2>4 DEF MarkLeb, MarkStripe, MarkNextPage, Behind
  <2>5. CASE InitSbHeader \/ InitSbSegs
    BY <2>5 DEF InitSbHeader, InitSbSegs, Behind
  <2>6. CASE Idle
    BY <2>6 DEF Idle, vars
  <2> QED BY <2>1, <2>2, <2>3, <2>4, <2>5, <2>6 DEF Next, Step
<1> QED BY <1>7, <1>8, <1>9, <1>10, <1>11

(* mark_unallocated_pebs_as_pre_erased takes unknown PEBs only. *)
LEMMA MarkStripeUses ==
  ASSUME MarkStripe, TableTypes
  PROVE  /\ state' \in [Pebs -> {"unknown", "using", "pre_erase"}]
         /\ \A peb \in Pebs : state'[peb] = "using" <=> state[peb] = "using"
<1> DEFINE p == PortionOf(mark.leb)
           start == StartPeb(p, mark.stripe)
           count == PebsCount(p, mark.stripe)
           rest == mark.peb .. start + count - 1
<1>1. \/ state' = state
      \/ /\ state' = [peb \in Pebs |-> IF peb \in rest THEN "pre_erase" ELSE state[peb]]
         /\ \A peb \in rest : state[peb] = "unknown"
  BY DEF MarkStripe
<1>2. state \in [Pebs -> {"unknown", "using", "pre_erase"}]
  BY DEF TableTypes
<1> HIDE DEF rest
<1> QED BY <1>1, <1>2

LEMMA TablesNext ==
  ASSUME Inv, Next
  PROVE  TablesInv'
<1>1. LayInv /\ TablesInv
  BY DEF Inv
<1>2. CASE AllocationPolicy
  <2>1. phys' = << >>
    BY <1>1, <1>2 DEF AllocationPolicy, tables, LayInv
  <2> QED BY <2>1 DEF TablesInv
<1>3. CASE Prepare
  BY <1>3, PrepareTables
<1>4. CASE MapLeb
  BY <1>4, MapLebTables
<1>5. CASE ~AllocationPolicy /\ ~Prepare /\ ~MapLeb
  <2>1. lay' = lay /\ geo' = geo
    BY <1>5, OthersKeepLayout
  <2>2. segPeb' = segPeb /\ phys' = phys /\ (MarkStripe \/ state' = state)
    BY <1>5
    DEF Next, Step, Idle, vars, tables, PrepareCache, PrepareBug, PrepareFails, SkipPeb, MapLebFails,
        CachePair, CacheBug, MarkStart, MarkLeb, MarkStripe, MarkNextPage, InitSbHeader, InitSbSegs
  <2>3. CASE phys = << >>
    BY <2>2, <2>3 DEF TablesInv
  <2>4. CASE phys # << >>
    <3>1. TableTypes /\ MapInv
      BY <1>1, <2>4 DEF TablesInv
    <3>2. /\ state' \in [Pebs -> {"unknown", "using", "pre_erase"}]
          /\ \A peb \in Pebs : state'[peb] = "using" <=> state[peb] = "using"
      <4>1. CASE MarkStripe
        BY <3>1, <4>1, MarkStripeUses
      <4>2. CASE state' = state
        BY <3>1, <4>2 DEF TableTypes
      <4> QED BY <2>2, <4>1, <4>2
    <3>3. TableTypes' /\ MapInv'
      BY <2>1, <2>2, <3>1, <3>2, SameMap
    <3>4. Reached'
      BY <1>5, <2>2, <2>4, ReachedNext
    <3> QED BY <3>3, <3>4 DEF TablesInv
  <2> QED BY <2>3, <2>4
<1> QED BY <1>2, <1>3, <1>4, <1>5

LEMMA SbNext ==
  ASSUME Inv, Next
  PROVE  SbInv'
<1>1. LayInv /\ SbInv
  BY DEF Inv
<1>2. CASE InitSbHeader
  <2> DEFINE perCopy == CeilDiv(geo.portions, lay.perSeg * geo.perFragment)
  <2>1. lay' = lay /\ geo' = geo
    BY <1>2 DEF InitSbHeader
  <2>2. SegsCapacity' = SegsCapacity
    BY <2>1, SameLayout
  <2>3. CASE PortionsPerSeg >= U16Limit \/ perCopy # geo.segs
    <3>1. pc' \in {"failed", "abort"} /\ sb' = sb
      BY <1>2, <2>3 DEF InitSbHeader, PortionsPerSeg
    <3> QED BY <1>1, <3>1 DEF SbInv
  <2>4. CASE ~(PortionsPerSeg >= U16Limit) /\ perCopy = geo.segs
    <3> DEFINE extent == <<SegsCapacity - geo.segs, perCopy>>
               count == Least(mark.preErased, U16Limit)
               stripe == CeilDiv(PebsPerFragment, geo.stripes)
    <3>1. /\ sb' = [sb EXCEPT !.preErase = count, !.perFragment = PebsPerFragment,
                              !.perStripe = stripe, !.extent = extent]
          /\ pc' = "sb_segs"
      BY <1>2, <2>4 DEF InitSbHeader, PortionsPerSeg
    <3> HIDE DEF extent, count, stripe
    <3>2. sb = [preErase |-> sb.preErase, perFragment |-> sb.perFragment,
                perStripe |-> sb.perStripe, extent |-> sb.extent, pebs |-> sb.pebs]
      BY <1>1 DEF SbInv
    <3>3. sb' = [preErase |-> count, perFragment |-> PebsPerFragment,
                 perStripe |-> stripe, extent |-> extent, pebs |-> sb.pebs]
      BY <3>1, <3>2
    <3>4. sb' = [preErase |-> sb'.preErase, perFragment |-> sb'.perFragment,
                 perStripe |-> sb'.perStripe, extent |-> sb'.extent, pebs |-> sb'.pebs]
          /\ sb'.extent = extent /\ sb'.perFragment = PebsPerFragment /\ sb'.perStripe = stripe
      BY <3>3
    <3>5. PebsPerFragment' = PebsPerFragment
      BY <2>1, SameLayout
    <3> QED BY <2>1, <2>2, <2>4, <3>1, <3>4, <3>5 DEF SbInv, extent, stripe
  <2> QED BY <2>3, <2>4
<1>3. CASE InitSbSegs
  <2>1. lay' = lay /\ geo' = geo /\ segPeb' = segPeb /\ pc = "sb_segs" /\ pc' = "done"
        /\ sb' = [sb EXCEPT !.pebs =
                    [x \in (0 .. 2) \X (0 .. SbCopies - 1) |->
                       [leb |-> LebId(SbSeg(x[1], x[2]), 0),
                        peb |-> segPeb[<<SbSeg(x[1], x[2]), 0>>]]]]
    BY <1>3 DEF InitSbSegs, tables
  <2>2. SegsCapacity' = SegsCapacity /\ PebsPerFragment' = PebsPerFragment /\ \A x : Leb(x)' = Leb(x)
    BY <2>1, SameLayout
  <2>3. sb' = [sb EXCEPT !.pebs = SbPebs]
    BY <2>1 DEF SbPebs, Leb
  <2>4. SbPebs' = SbPebs
    BY <2>1, <2>2 DEF SbPebs, SbSeg
  <2>5. sb = [preErase |-> sb.preErase, perFragment |-> sb.perFragment,
              perStripe |-> sb.perStripe, extent |-> sb.extent, pebs |-> sb.pebs]
    BY <1>1 DEF SbInv
  <2>6. sb' = [preErase |-> sb.preErase, perFragment |-> sb.perFragment,
               perStripe |-> sb.perStripe, extent |-> sb.extent, pebs |-> SbPebs]
    BY <2>3, <2>5
  <2>7. sb' = [preErase |-> sb'.preErase, perFragment |-> sb'.perFragment,
               perStripe |-> sb'.perStripe, extent |-> sb'.extent, pebs |-> sb'.pebs]
        /\ sb'.extent = sb.extent /\ sb'.pebs = SbPebs
        /\ sb'.perFragment = sb.perFragment /\ sb'.perStripe = sb.perStripe
    BY <2>6
  <2> QED BY <1>1, <2>1, <2>2, <2>4, <2>7 DEF SbInv
<1>4. CASE ~InitSbHeader /\ ~InitSbSegs
  <2>1. sb' = sb
    BY <1>4
    DEF Next, Step, Idle, vars, AllocationPolicy, Prepare, PrepareCache, PrepareBug, PrepareFails, SkipPeb, MapLeb,
        MapLebFails, CachePair, CacheBug, MarkStart, MarkLeb, MarkStripe, MarkNextPage
  <2>2. CASE pc' \in {"sb_segs", "done"}
    <3>1. lay' = lay /\ geo' = geo /\ segPeb' = segPeb /\ pc' = pc
      BY <1>4, <2>2
      DEF Next, Step, Idle, vars, tables, AllocationPolicy, Prepare, PrepareCache, PrepareBug, PrepareFails, SkipPeb,
          MapLeb, MapLebFails, CachePair, CacheBug, MarkStart, MarkLeb, MarkStripe, MarkNextPage
    <3>2. SegsCapacity' = SegsCapacity /\ PebsPerFragment' = PebsPerFragment
          /\ \A x : Leb(x)' = Leb(x)
      BY <3>1, SameLayout
    <3>3. SbPebs' = SbPebs
      BY <3>1, <3>2 DEF SbPebs, SbSeg
    <3> QED BY <1>1, <2>1, <3>1, <3>2, <3>3 DEF SbInv
  <2>3. CASE pc' \notin {"sb_segs", "done"}
    BY <1>1, <2>1, <2>3 DEF SbInv
  <2> QED BY <2>2, <2>3
<1> QED BY <1>2, <1>3, <1>4

LEMMA SameVars ==
  ASSUME UNCHANGED vars
  PROVE  lay' = lay /\ geo' = geo /\ pc' = pc /\ cur' = cur /\ segPeb' = segPeb /\ phys' = phys
         /\ state' = state /\ cache' = cache /\ move' = move /\ sb' = sb
  BY DEF vars, tables, cacheVars

LEMMA InvNext == Inv /\ [Next]_vars => Inv'
<1>1. ASSUME Inv, Next PROVE Inv'
  BY <1>1, LayNext, CacheNext, CurNext, TablesNext, SbNext DEF Inv
<1>2. ASSUME Inv, UNCHANGED vars PROVE Inv'
  <2>1. lay' = lay /\ geo' = geo /\ pc' = pc /\ cur' = cur /\ segPeb' = segPeb /\ phys' = phys
         /\ state' = state /\ cache' = cache /\ move' = move /\ sb' = sb
    BY <1>2, SameVars
  <2>2. LayInv /\ CacheInv /\ CurInv /\ TablesInv /\ SbInv
    BY <1>2 DEF Inv
  <2>3. /\ SegPebs' = SegPebs /\ LebsTotal' = LebsTotal /\ NoIndex' = NoIndex
        /\ SegsCapacity' = SegsCapacity /\ Pebs' = Pebs /\ (Derived' <=> Derived)
        /\ (WithinQuota(lay)' <=> WithinQuota(lay)) /\ \A x : Leb(x)' = Leb(x)
        /\ PebsPerFragment' = PebsPerFragment
    BY <2>1, SameLayout DEF NoIndex
  <2>4. LayInv'
    BY <2>1, <2>2, <2>3 DEF LayInv
  <2>5. CacheInv'
    BY <2>1, <2>2 DEF CacheInv
  <2>6. CurInv'
    BY <2>1, <2>2, <2>3 DEF CurInv
  <2>7. TablesInv'
    <3>1. CASE phys = << >>
      BY <2>1, <3>1 DEF TablesInv
    <3>2. CASE phys # << >>
      <4>1. TableTypes /\ Reached /\ MapInv
        BY <2>2, <3>2 DEF TablesInv
      <4>2. state' \in [Pebs -> {"unknown", "using", "pre_erase"}]
        BY <2>1, <4>1 DEF TableTypes
      <4>3. TableTypes' /\ MapInv' /\ Assigned' = Assigned
        BY <2>1, <4>1, <4>2, SameMap
      <4>4. Reached'
        BY <2>1, <2>3, <4>1, <4>3 DEF Reached, Before
      <4> QED BY <4>3, <4>4 DEF TablesInv
    <3> QED BY <3>1, <3>2
  <2>8. SbInv'
    <3>1. SbPebs' = SbPebs
      BY <2>1, <2>3 DEF SbPebs, SbSeg
    <3> QED BY <2>1, <2>2, <2>3, <3>1 DEF SbInv
  <2> QED BY <2>4, <2>5, <2>6, <2>7, <2>8 DEF Inv
<1> QED BY <1>1, <1>2

LEMMA MaptblInv == Spec => []Inv
<1>1. Init => Inv
  BY InitInv
<1>2. Inv /\ [Next]_vars => Inv'
  BY InvNext
<1> QED BY <1>1, <1>2, PTL DEF Spec

-----------------------------------------------------------------------------
(* The types of the tables; a fragment of the cache never holds more pairs *)
(* than fit into it.                                                       *)
THEOREM MaptblTypeOK == Spec => []TypeOK
<1>1. Inv => TypeOK
  <2> SUFFICES ASSUME Inv PROVE TypeOK
    OBVIOUS
  <2>1. LayInv /\ CacheInv /\ CurInv /\ TablesInv
    BY DEF Inv
  <2>2. pc \in {"policy", "prepare", "cache", "map", "pair", "mark_leb", "mark_stripe",
                "header", "sb_segs", "done", "failed", "abort", "crash"}
    BY <2>1 DEF LayInv, Running
  <2>3. phys # << >> => TableTypes
    BY <2>1 DEF TablesInv
  <2>4. lay.pairs \in Nat
    BY <2>1, LayoutIs DEF LayInv
  <2>5. ASSUME NEW f \in DOMAIN cache
        PROVE  Len(cache[f].pairs) <= lay.pairs /\ cache[f].items <= lay.pairs + 1
    <3>1. cache[f] \in Fragment /\ Len(cache[f].pairs) = Least(cache[f].items, lay.pairs)
          /\ cache[f].items <= lay.pairs + 1
      BY <2>1 DEF CacheInv
    <3>2. cache[f].items \in Nat
      BY <3>1 DEF Fragment
    <3> QED BY <2>4, <3>1, <3>2 DEF Least
  <2> QED BY <2>1, <2>2, <2>3, <2>5 DEF TypeOK, CurInv, TableTypes
<1> QED BY <1>1, MaptblInv, PTL

(* maptbl_prepare_portion: no PEB is described by two stripes, and with up *)
(* to two stripes in a portion every PEB and every LEB is described once.  *)
THEOREM MaptblTablesTile == Spec => []TablesTile
<1>1. Inv => TablesTile
  <2> SUFFICES ASSUME Inv, pc = "cache" PROVE TablesTile
    BY DEF TablesTile
  <2>1. Derived
    BY DEF Inv, LayInv, Running
  <2> QED BY <2>1, Tiled
<1> QED BY <1>1, MaptblInv, PTL

(* map_leb2peb: the physical index of a LEB leads to the PEB its segment   *)
(* is written to, no two LEBs share a PEB, and no other PEB is in use.     *)
THEOREM MaptblMappingResolves == Spec => []MappingResolves
<1>1. Inv => MappingResolves
  <2> SUFFICES ASSUME Inv, Prepared, LebsApart PROVE MappingResolves
    BY DEF MappingResolves
  <2>1. TableTypes /\ MapInv
    BY DEF Inv, TablesInv, Prepared
  <2>2. \A x \in Assigned : segPeb[x] \in Pebs
    BY <2>1 DEF Assigned, TableTypes
  <2>3. \A x \in Assigned : Leb(x) \in Mapped /\ Resolved(Leb(x)) = segPeb[x]
    BY <2>1 DEF MapInv
  <2>4. \A a \in Mapped : \E x \in Assigned : a = Leb(x) /\ Resolved(a) = segPeb[x]
    BY <2>1, <2>3 DEF MapInv
  <2>5. \A a, b \in Mapped : Resolved(a) = Resolved(b) => a = b
    <3> SUFFICES ASSUME NEW a \in Mapped, NEW b \in Mapped, Resolved(a) = Resolved(b)
                 PROVE  a = b
      OBVIOUS
    <3>1. PICK x \in Assigned : a = Leb(x) /\ Resolved(a) = segPeb[x]
      BY <2>4
    <3>2. PICK y \in Assigned : b = Leb(y) /\ Resolved(b) = segPeb[y]
      BY <2>4
    <3>3. x = y
      BY <2>1, <3>1, <3>2 DEF MapInv
    <3> QED BY <3>1, <3>2, <3>3
  <2>6. \A leb \in Mapped : Resolved(leb) \in Pebs /\ state[Resolved(leb)] = "using"
    BY <2>1, <2>2, <2>4 DEF MapInv
  <2>7. \A peb \in Pebs : state[peb] = "using" => \E leb \in Mapped : Resolved(leb) = peb
    BY <2>1, <2>3 DEF MapInv
  <2>8. { Resolved(leb) : leb \in Mapped } = { peb \in Pebs : state[peb] = "using" }
    BY <2>6, <2>7
  <2>9. \A x \in Assigned : Resolved(LebId(x[1], x[2])) = segPeb[x]
    BY <2>3 DEF Leb
  <2> QED BY <2>5, <2>8, <2>9 DEF MappingResolves, Assigned
<1> QED BY <1>1, MaptblInv, PTL

(* The extent of the mapping table holds the descriptors of all PEBs. *)
(* The PEBs of a fragment that the superblock records lead to portions. *)
LEMMA FragmentsFound ==
  ASSUME Derived, lay.pebs <= U16Limit
  PROVE  /\ \A leb \in Pebs : leb \div PebsPerFragment = PortionOf(leb)
         /\ \A s \in 0 .. geo.stripes - 1 :
              CeilDiv(PebsPerFragment, geo.stripes) * s = StartPeb(0, s)
<1> DEFINE w == geo.perPortion
           n == lay.pebs
           f == PebsPerFragment
<1>1. w \in Nat \ {0} /\ n \in Nat \ {0} /\ U16Limit \in Nat
  BY DerivedIs, MaptblAssumption
<1>2. n % (U16Limit + 1) = n
  <2>1. U16Limit + 1 \in Nat \ {0} /\ n \in 0 .. U16Limit
    BY <1>1
  <2> HIDE DEF n
  <2>2. \A k \in Nat \ {0} : \A x \in 0 .. k - 1 : x % k = x
    BY SMT
  <2> QED BY <1>1, <2>1, <2>2
<1>3. f = Least(w, n)
  BY <1>2 DEF PebsPerFragment
<1>4. ASSUME NEW leb \in Pebs PROVE leb \div f = PortionOf(leb)
  <2>1. leb \in Nat /\ leb < n
    BY PortionIs
  <2>2. CASE w < n
    BY <1>3, <2>2 DEF Least, PortionOf
  <2>3. CASE ~(w < n)
    <3>1. f = n /\ n <= w
      BY <1>1, <1>3, <2>3 DEF Least
    <3>2. \A k \in Nat \ {0} : \A x \in 0 .. k - 1 : x \div k = 0
      BY SMT
    <3>3. leb \in 0 .. n - 1 /\ leb \in 0 .. w - 1
      BY <1>1, <2>1, <3>1
    <3> HIDE DEF w, n, f
    <3>4. leb \div n = 0 /\ leb \div w = 0
      BY <1>1, <3>2, <3>3
    <3> QED BY <3>1, <3>4 DEF PortionOf, w
  <2> QED BY <2>2, <2>3
<1>5. RestPebs(0) = f
  <2>1. geo.perPortion * 0 = 0
    BY <1>1
  <2>2. RestPebs(0) = Least(n, w)
    BY <1>1, <2>1 DEF RestPebs
  <2>3. Least(n, w) = Least(w, n)
    BY <1>1 DEF Least
  <2> QED BY <1>3, <2>2, <2>3
<1>6. \A s \in 0 .. geo.stripes - 1 : CeilDiv(f, geo.stripes) * s = StartPeb(0, s)
  <2> SUFFICES ASSUME NEW s \in 0 .. geo.stripes - 1
               PROVE  CeilDiv(f, geo.stripes) * s = StartPeb(0, s)
    OBVIOUS
  <2> DEFINE c == CeilDiv(f, geo.stripes)
  <2>1. StartPeb(0, s) = geo.perPortion * 0 + c * s
    BY <1>5 DEF StartPeb
  <2>2. geo.perPortion * 0 = 0
    BY <1>1
  <2>3. c \in Nat /\ s \in Nat
    <3>1. Share(0) \in 0 .. PebDescPerStripe(lay) /\ Share(0) = c
      BY <1>5, RestIs DEF Share
    <3>2. PebDescPerStripe(lay) \in Nat /\ geo.stripes \in Nat
      BY DerivedIs
    <3> QED BY <3>1, <3>2
  <2> HIDE DEF c
  <2>4. c * s \in Nat
    BY <2>3, SMT
  <2> QED BY <2>1, <2>2, <2>4 DEF c
<1> QED BY <1>4, <1>6

LEMMA ExtentHolds ==
  ASSUME Derived, geo.segs = CeilDiv(geo.portions, lay.perSeg * geo.perFragment)
  PROVE  geo.segs * lay.perSeg * geo.perFragment * geo.perPortion >= lay.pebs
<1> DEFINE k == lay.perSeg
           per == geo.perFragment
           w == geo.perPortion
           m == geo.portions
           n == geo.segs
           z == k * per
<1>1. k \in Nat \ {0} /\ per \in Nat \ {0} /\ w \in Nat \ {0} /\ m \in Nat /\ n \in Nat
      /\ lay.pebs \in Nat /\ lay.pebs <= m * w /\ n = CeilDiv(m, z)
  BY DerivedIs
<1> HIDE DEF k, per, w, m, n
<1>2. z \in Nat \ {0}
  BY <1>1, Positive
<1>3. m <= n * z /\ n * z \in Nat
  BY <1>1, <1>2, CeilDivIs
<1>4. n * k * per = n * z
  <2>1. \A i, a, b \in Nat : i * a * b = i * (a * b)
    BY SMT
  <2> QED BY <1>1, <2>1
<1> HIDE DEF z
<1> DEFINE y == n * z
<1>5. y \in Nat /\ m <= y /\ n * k * per = y
  BY <1>3, <1>4
<1> HIDE DEF y
<1>6. m * w <= y * w /\ m * w \in Nat /\ y * w \in Nat
  BY <1>1, <1>5, SMT
<1>7. n * k * per * w = y * w
  BY <1>5
<1>8. y * w >= lay.pebs
  BY <1>1, <1>6
<1> QED BY <1>7, <1>8 DEF n, k, per, w

(* init_sb_segs and init_maptbl_sb_header: the superblock names distinct   *)
(* PEBs, where the mapping table finds its segments too, and an extent     *)
(* that is all the mapping table's segments and holds every descriptor.    *)
THEOREM MaptblSuperblockResolves == Spec => []SuperblockResolves
<1>1. Inv => SuperblockResolves
  <2> SUFFICES ASSUME Inv, pc = "done" PROVE SuperblockResolves
    BY DEF SuperblockResolves
  <2> DEFINE S == (0 .. 2) \X (0 .. SbCopies - 1)
             T(x) == <<SbSeg(x[1], x[2]), 0>>
  <2>1. LayInv /\ TablesInv /\ SbInv
    BY DEF Inv
  <2>2. Derived /\ WithinQuota(lay) /\ phys # << >>
    BY <2>1 DEF LayInv, Running
  <2>3. Reached /\ MapInv /\ TableTypes
    BY <2>1, <2>2 DEF TablesInv
  <2>4. Assigned = LebsTotal
    BY <2>3 DEF Reached, Behind
  <2>5. \A x \in S : T(x) \in Assigned
    BY <2>2, <2>4, SbSegIs
  <2>6. sb.pebs = [x \in S |-> [leb |-> Leb(T(x)), peb |-> segPeb[T(x)]]]
    BY <2>1 DEF SbInv, SbPebs
  <2>7. \A x, y \in S : T(x) = T(y) => x = y
    <3> SUFFICES ASSUME NEW x \in S, NEW y \in S, T(x) = T(y) PROVE x = y
      OBVIOUS
    <3>1. SbSeg(x[1], x[2]) = SbSeg(y[1], y[2])
      OBVIOUS
    <3> QED BY <3>1, SbSegsDistinct
  <2> HIDE DEF T, S
  <2>8. DOMAIN sb.pebs = S
        /\ \A x \in S : sb.pebs[x].leb = Leb(T(x)) /\ sb.pebs[x].peb = segPeb[T(x)]
    BY <2>6
  <2>9. \A x, y \in DOMAIN sb.pebs : sb.pebs[x].peb = sb.pebs[y].peb => x = y
    BY <2>3, <2>5, <2>7, <2>8 DEF MapInv
  <2>10. LebsApart => \A x \in DOMAIN sb.pebs : sb.pebs[x].peb = Resolved(sb.pebs[x].leb)
    BY <2>3, <2>5, <2>8 DEF MapInv
  <2>11. sb.extent = <<SegsCapacity - geo.segs, geo.segs>>
         /\ geo.segs = CeilDiv(geo.portions, lay.perSeg * geo.perFragment)
    BY <2>1 DEF SbInv
  <2>12. sb.extent[1] + sb.extent[2] = SegsCapacity
    <3>1. SegsCapacity \in Nat /\ geo.segs \in Nat
      BY <2>2, SegPebsAre
    <3> QED BY <2>11, <3>1
  <2>13. sb.extent[2] * lay.perSeg * geo.perFragment * geo.perPortion >= lay.pebs
    <3>1. sb.extent[2] = geo.segs
      BY <2>11
    <3> QED BY <2>2, <2>11, <3>1, ExtentHolds
  <2>14. ASSUME lay.pebs <= U16Limit
         PROVE  /\ \A leb \in Pebs : leb \div sb.perFragment = PortionOf(leb)
                /\ \A s \in StripeIds : sb.perStripe * s = StartPeb(0, s)
    <3>1. sb.perFragment = PebsPerFragment /\ sb.perStripe = CeilDiv(PebsPerFragment, geo.stripes)
      BY <2>1 DEF SbInv
    <3> QED BY <2>2, <2>14, <3>1, FragmentsFound DEF StripeIds
  <2> QED BY <2>9, <2>10, <2>12, <2>13, <2>14 DEF SuperblockResolves
<1> QED BY <1>1, MaptblInv, PTL

-----------------------------------------------------------------------------
(* The marking of pre-erased PEBs. *)

(* Nothing is marked while LEBs are mapped; one PEB per segment is the     *)
(* PEB with the LEB's own number.                                          *)
EarlyInv ==
  phys # << >> =>
    /\ pc \in {"cache", "map", "pair"} => \A peb \in Pebs : state[peb] # "pre_erase"
    /\ lay.perSeg = 1 => \A x \in Assigned : segPeb[x] = Leb(x)

MarkedTo(end) ==
  \A peb \in Pebs : state[peb] = "pre_erase" <=> segPeb[LastPeb] + 1 <= peb /\ peb < end

CountRight == mark.preErased = lay.pebs - (Leb(LastPeb) + 1)

(* All PEBs behind the last mapped one are marked, up to the next to mark. *)
MarkInv ==
  phys # << >> /\ geo.stripes <= 2 /\ SideBySide =>
    /\ pc \in {"mark_leb", "mark_stripe"} =>
         /\ mark.leb \in Nat /\ mark.peb \in Nat /\ mark.stripe \in Nat
         /\ mark.peb <= lay.pebs /\ segPeb[LastPeb] + 1 <= mark.peb
         /\ MarkedTo(mark.peb) /\ CountRight
    /\ pc = "mark_leb" /\ mark.leb >= lay.pebs => mark.peb = lay.pebs
    /\ pc = "mark_stripe" =>
         mark.leb < lay.pebs /\ (mark.stripe >= geo.stripes => mark.peb = NextPage(mark.leb))
    /\ pc \in {"header", "sb_segs", "done"} /\ ~lay.erase => MarkedTo(lay.pebs) /\ CountRight

MarkTypes == mark = [leb |-> mark.leb, peb |-> mark.peb, stripe |-> mark.stripe, preErased |-> mark.preErased]

SbCount == pc \in {"sb_segs", "done"} => sb.preErase = Least(mark.preErased, U16Limit)

FullInv == Inv /\ EarlyInv /\ MarkInv /\ MarkTypes /\ SbCount

LEMMA SegsWithinHalf ==
  ASSUME Derived, WithinQuota(lay)
  PROVE  /\ SegsCapacity <= (lay.pebs \div lay.perSeg) \div 2
         /\ lay.pebs \div lay.perSeg \in Nat
         /\ (lay.pebs \div lay.perSeg) * lay.perSeg = lay.pebs
         /\ geo.segs \in Nat \ {0}
<1> DEFINE k == lay.perSeg
           segs == lay.pebs \div k
<1>1. lay \in Layouts /\ lay.pebs \in Nat \ {0} /\ k \in Nat \ {0} /\ geo.segs \in Nat
      /\ geo.portions \in Nat /\ geo.perPortion \in Nat \ {0} /\ geo.perFragment \in Nat \ {0}
      /\ lay.pebs <= geo.portions * geo.perPortion
  BY DerivedIs DEF Derived
<1>2. lay.pebs % k = 0
  BY <1>1, MaptblAssumption
<1>3. segs \in Nat /\ lay.pebs = segs * k + (lay.pebs % k)
  BY <1>1, DivMod
<1>4. segs * k = lay.pebs
  BY <1>1, <1>2, <1>3
<1>5. SegsCapacity <= segs \div 2
  BY SegPebsAre DEF WithinQuota, MetadataFits, Derived
<1>6. geo.segs # 0
  <2>1. \E n \in Nat : geo.portions = n * k * geo.perFragment
                       /\ geo.segs = IF lay.backup THEN 2 * n ELSE n
    BY GeometryIs DEF Derived
  <2>2. PICK n \in Nat : geo.portions = n * k * geo.perFragment
                         /\ geo.segs = IF lay.backup THEN 2 * n ELSE n
    BY <2>1
  <2>3. geo.segs = 0 => n = 0
    BY <2>2
  <2>4. 0 * k * geo.perFragment = 0 /\ 0 * geo.perPortion = 0
    BY <1>1, SMT
  <2>5. geo.segs = 0 => geo.portions = 0
    BY <2>2, <2>3, <2>4
  <2> QED BY <1>1, <2>4, <2>5
<1> QED BY <1>1, <1>3, <1>4, <1>5, <1>6

(* The last PEB of the metadata has a LEB, before the volume's last. *)
LEMMA LastLebIs ==
  ASSUME Derived, WithinQuota(lay), SideBySide
  PROVE  LastPeb \in LebsTotal /\ Leb(LastPeb) \in Nat /\ Leb(LastPeb) + 1 < lay.pebs
<1> DEFINE k == lay.perSeg
           n == SegsCapacity
           m == LebsPerPebIndex
           segs == lay.pebs \div k
           v == lay.pebs + lay.tail
           d == lay.dies
<1>1. lay \in Layouts /\ lay.pebs \in Nat \ {0} /\ k \in Nat \ {0}
  BY DerivedIs DEF Derived
<1>2. d \in Nat \ {0} /\ lay.tail \in 0 .. k - 1 /\ U64Max \in Nat /\ lay.pebs < U64Max
  BY <1>1, LayoutIs, MaptblAssumption
<1>3. n \in Nat \ {0} /\ n = 1 + SbSegs + lay.bmapSegs + geo.segs /\ SbSegs \in Nat
      /\ lay.bmapSegs \in Nat /\ geo.segs \in Nat \ {0}
  BY SegPebsAre, SegsWithinHalf
<1>4. n <= segs \div 2 /\ segs \in Nat /\ segs * k = lay.pebs
  BY SegsWithinHalf
<1>5. LastPeb = <<n - 1, k - 1>>
  BY DEF LastPeb
<1>6. LebsOfSeg(n - 1) = k
  <2>1. n - 1 # 0 /\ n - 1 \notin 1 + SbSegs .. SbSegs + lay.bmapSegs
    BY <1>3
  <2> QED BY <2>1 DEF LebsOfSeg
<1>7. LastPeb \in SegPebs
  <2>1. LastPeb[1] = n - 1 /\ LastPeb[2] = k - 1 /\ LastPeb = <<LastPeb[1], LastPeb[2]>>
    BY <1>5
  <2> QED BY <1>1, <1>3, <2>1, SegPebsAre
<1>8. Leb(LastPeb) = (IF m = 1 THEN (n - 1) * k ELSE n - 1) + (k - 1) * m
  <2>1. Leb(LastPeb) = LebId(n - 1, k - 1)
    BY <1>5 DEF Leb
  <2>2. ~(k - 1 >= k)
    BY <1>1
  <2> QED BY <1>6, <2>1, <2>2 DEF LebId
<1>9. m \in Nat /\ Leb(LastPeb) \in Nat
  BY <1>7, LebIs
<1>10. m = IF k > 1 /\ d > 1 THEN v \div d ELSE 1
  BY DEF LebsPerPebIndex
<1>11. d = 1 \/ k <= d
  BY DEF SideBySide
<1>12. m = 1 \/ m <= segs
  <2> SUFFICES ASSUME k > 1, d > 1 PROVE v \div d <= segs
    BY <1>10
  <2>1. v \in Nat /\ v < segs * k + k
    BY <1>1, <1>2, <1>4
  <2> HIDE DEF v, k, d, segs
  <2>2. k <= d
    BY <1>2, <1>11
  <2>3. (segs + 1) * k = segs * k + k /\ (segs + 1) * k <= (segs + 1) * d
    BY <1>1, <1>2, <1>4, <2>2, SMT
  <2>4. d * (segs + 1) = (segs + 1) * d /\ (segs + 1) * d \in Nat /\ segs * k \in Nat
    BY <1>1, <1>2, <1>4, SMT
  <2>5. v < d * (segs + 1) /\ segs + 1 \in Nat
    BY <1>1, <1>2, <1>4, <2>1, <2>3, <2>4
  <2>6. \A i \in Nat : v < d * i => v \div d \in 0 .. i - 1
    BY <1>2, <2>1, LeastQuotient
  <2> DEFINE i0 == segs + 1
             x == v \div d
  <2>7. i0 \in Nat /\ v < d * i0
    BY <2>5
  <2>8. i0 = segs + 1
    OBVIOUS
  <2> HIDE DEF i0
  <2>9. x \in 0 .. i0 - 1
    BY <2>6, <2>7
  <2> HIDE DEF x
  <2>10. x <= segs
    BY <1>4, <2>8, <2>9
  <2> QED BY <2>10 DEF x
<1> HIDE DEF k, n, m, segs, v, d
<1>13. Leb(LastPeb) + 1 < lay.pebs
  <2>1. n + n <= segs
    BY <1>3, <1>4
  <2>2. CASE m = 1
    <3>1. Leb(LastPeb) = (n - 1) * k + (k - 1) * 1
      BY <1>8, <2>2
    <3>2. \A i \in Nat \ {0} : (i - 1) * k + (k - 1) * 1 = i * k - 1 /\ i * k \in Nat /\ i <= i * k
      BY <1>1, SMT
    <3>3. \A i, j \in Nat : i + i <= j => i * k + i * k <= j * k
      BY <1>1, SMT
    <3>4. n * k + n * k <= segs * k /\ n * k \in Nat /\ n <= n * k /\ Leb(LastPeb) = n * k - 1
      BY <1>3, <1>4, <2>1, <3>1, <3>2, <3>3
    <3> QED BY <1>1, <1>3, <1>4, <1>9, <3>4
  <2>3. CASE m # 1
    <3>1. m <= segs /\ k > 1
      BY <1>1, <1>10, <1>12, <2>3
    <3>2. Leb(LastPeb) = n - 1 + (k - 1) * m
      BY <1>8, <2>3
    <3>3. (k - 1) * m <= (k - 1) * segs /\ (k - 1) * m \in Nat
      <4>1. \A i \in Nat : i * m <= i * segs /\ i * m \in Nat
        BY <1>4, <1>9, <3>1, SMT
      <4>2. k - 1 \in Nat
        BY <1>1
      <4> QED BY <4>1, <4>2
    <3>4. (k - 1) * segs = segs * k - segs
      BY <1>1, <1>4, SMT
    <3>5. (k - 1) * m <= lay.pebs - segs
      BY <1>4, <3>3, <3>4
    <3>6. n >= 2
      BY <1>3
    <3> QED BY <1>1, <1>3, <1>4, <2>1, <3>2, <3>3, <3>5, <3>6
  <2> QED BY <2>2, <2>3
<1>14. Leb(LastPeb) # NoIndex
  <2> DEFINE x == Leb(LastPeb)
  <2>1. x \in Nat /\ x + 1 < lay.pebs
    BY <1>9, <1>13
  <2> HIDE DEF x
  <2>2. x # U64Max
    BY <1>1, <1>2, <2>1
  <2> QED BY <2>2 DEF NoIndex, x
<1>15. LastPeb \in LebsTotal
  BY <1>7, <1>14, LebIs
<1> QED BY <1>9, <1>13, <1>15

(* With up to two stripes, the next page starts behind the portion. *)
LEMMA NextPageIs ==
  ASSUME Derived, geo.stripes <= 2, NEW leb \in Pebs
  PROVE  /\ NextPage(leb) = geo.perPortion * PortionOf(leb) + RestPebs(PortionOf(leb))
         /\ NextPage(leb) \in Nat /\ NextPage(leb) <= lay.pebs
         /\ RestPebs(PortionOf(leb)) > 0 /\ PortionOf(leb) \in Nat
<1> DEFINE w == geo.perPortion
           p == PortionOf(leb)
           b == w * p
           st == StartLeb(p, 0)
           ct == LebsCount(p, 0)
           r == RestPebs(p)
<1>1. w \in Nat \ {0} /\ lay.pebs \in Nat /\ w <= LebDesc /\ LebDesc \in Nat \ {0}
  BY DerivedIs, OnePage, LebDescIs
<1>2. leb \in Nat /\ leb < lay.pebs /\ p \in Nat /\ b \in Nat /\ leb - b \in 0 .. w - 1
  BY PortionIs DEF PortionOf
<1>3. PageOf(leb) = 0
  <2> DEFINE t == leb % w
  <2>1. t \in 0 .. w - 1
    BY <1>1, <1>2, DivMod
  <2> HIDE DEF w
  <2>2. PageOf(leb) = t \div LebDesc
    BY DEF PageOf, w
  <2> HIDE DEF t
  <2>3. t \in Nat /\ t \in 0 .. LebDesc - 1 /\ t = 0 * LebDesc + t
    BY <1>1, <2>1
  <2>4. t \div LebDesc = 0
    BY <1>1, <2>3, Quotient
  <2> QED BY <2>2, <2>4
<1>4. NextPage(leb) = st + ct
  BY <1>3 DEF NextPage
<1>5. st = b + LebDesc * 0 /\ ct = IF lay.pebs <= st THEN 0 ELSE Least(lay.pebs - st, Least(w, LebDesc))
  BY DEF StartLeb, LebsCount
<1>6. r = IF lay.pebs >= b THEN Least(lay.pebs - b, w) ELSE w
  BY DEF RestPebs
<1> HIDE DEF w, p, b, st, ct, r
<1>7. st = b /\ ct = r /\ r \in Nat /\ r > 0 /\ b + r <= lay.pebs
  BY <1>1, <1>2, <1>5, <1>6 DEF Least
<1>8. NextPage(leb) = b + r
  BY <1>4, <1>7
<1> QED BY <1>1, <1>2, <1>7, <1>8 DEF w, p, b, r

(* Where a stripe that starts in the volume ends. *)
LEMMA StripeEnd ==
  ASSUME Derived, geo.stripes <= 2, NEW leb \in Pebs, NEW s \in 0 .. geo.stripes - 1,
         StartPeb(PortionOf(leb), s) <= lay.pebs
  PROVE  LET start == StartPeb(PortionOf(leb), s)
             count == PebsCount(PortionOf(leb), s)
         IN  /\ start \in Nat /\ count \in Nat
             /\ start + count <= lay.pebs
             /\ count = 0 => start = lay.pebs
             /\ s = geo.stripes - 1 => start + count = NextPage(leb)
<1> DEFINE w == geo.perPortion
           n == geo.stripes
           p == PortionOf(leb)
           b == w * p
           r == RestPebs(p)
           q == Share(p)
           st == StartPeb(p, s)
           ct == PebsCount(p, s)
           np == NextPage(leb)
           o == q * s
           e == q * n
<1>1. w \in Nat \ {0} /\ n \in Nat \ {0} /\ lay.pebs \in Nat
  BY DerivedIs
<1>2. p \in Nat /\ np = b + r /\ np \in Nat /\ np <= lay.pebs /\ r > 0
  BY NextPageIs
<1>3. b \in Nat /\ r \in 0 .. w /\ r <= e /\ e \in 0 .. w
  BY <1>2, RestIs
<1>4. q \in Nat
  <2>1. q \in 0 .. PebDescPerStripe(lay)
    BY <1>2, RestIs
  <2> QED BY <2>1
<1>5. /\ st \in Nat /\ st = b + o /\ o \in Nat /\ ct \in 0 .. q
      /\ (st < lay.pebs => ct = Least(q, lay.pebs - st))
      /\ (ct > 0 => st + ct <= lay.pebs)
  BY <1>2, StripeIs
<1>6. r = IF lay.pebs >= b THEN Least(lay.pebs - b, w) ELSE w
  BY DEF RestPebs
<1>7. st <= lay.pebs /\ s \in 0 .. n - 1
  OBVIOUS
<1> HIDE DEF w, n, p, b, r, q, st, ct, np
<1>8. s = n - 1 => o + q = e
  <2>1. q * (n - 1) + q = q * n
    BY <1>1, <1>4, SMT
  <2> QED BY <2>1
<1>9. q > 0
  <2>1. q = 0 => e = 0
    BY <1>1, SMT
  <2> QED BY <1>2, <1>3, <1>4, <2>1
<1> HIDE DEF o, e
<1>10. ct \in Nat /\ st + ct <= lay.pebs /\ (ct = 0 => st = lay.pebs)
  BY <1>1, <1>4, <1>5, <1>7, <1>9 DEF Least
<1>11. s = n - 1 => st + ct = np
  <2> SUFFICES ASSUME s = n - 1 PROVE st + ct = np
    OBVIOUS
  <2>1. st + q = b + e
    BY <1>3, <1>4, <1>5, <1>8
  <2>2. CASE lay.pebs - b <= w
    <3>1. r = lay.pebs - b
      BY <1>1, <1>2, <1>3, <1>6, <2>2 DEF Least
    <3> QED BY <1>1, <1>2, <1>3, <1>4, <1>5, <1>10, <2>1, <3>1 DEF Least
  <2>3. CASE lay.pebs - b > w
    <3>1. r = w
      BY <1>1, <1>2, <1>3, <1>6, <2>3 DEF Least
    <3> QED BY <1>1, <1>2, <1>3, <1>4, <1>5, <1>10, <2>1, <2>3, <3>1 DEF Least
  <2> QED BY <1>1, <1>3, <2>2, <2>3
<1> QED BY <1>5, <1>10, <1>11 DEF n, st, ct, np, p

(* One PEB per segment: the LEB of a segment is its number. *)
LEMMA OneLeb ==
  ASSUME Derived, lay.perSeg = 1
  PROVE  /\ \A x \in SegPebs : x = <<x[1], 0>> /\ Leb(x) = x[1] /\ x[1] \in Nat
         /\ \A i \in Nat : i < SegsCapacity => <<i, 0>> \in SegPebs
<1>1. lay.bmapLebs \in 1 .. 1 /\ SegsCapacity \in Nat
  BY LayoutIs, SegPebsAre DEF Derived
<1>2. LebsPerPebIndex = 1
  BY DEF LebsPerPebIndex
<1>3. \A i : LebsOfSeg(i) = 1
  BY <1>1 DEF LebsOfSeg
<1>4. \A i \in Nat : LebId(i, 0) = i
  <2> TAKE i \in Nat
  <2>1. LebId(i, 0) = i * 1 + 0 * 1
    BY <1>2, <1>3 DEF LebId
  <2> QED BY <2>1
<1>5. ASSUME NEW x \in SegPebs
      PROVE  x = <<x[1], 0>> /\ Leb(x) = x[1] /\ x[1] \in Nat
  <2>1. x = <<x[1], x[2]>> /\ x[1] \in 0 .. SegsCapacity - 1 /\ x[2] \in 0 .. 1 - 1
    BY SegPebsAre
  <2>2. x[2] = 0 /\ x[1] \in Nat
    BY <1>1, <2>1
  <2>3. Leb(x) = LebId(x[1], 0)
    BY <2>2 DEF Leb
  <2> QED BY <1>4, <2>1, <2>2, <2>3
<1>6. ASSUME NEW i \in Nat, i < SegsCapacity
      PROVE  <<i, 0>> \in SegPebs
  <2> DEFINE x == <<i, 0>>
  <2>1. x = <<x[1], x[2]>> /\ x[1] \in 0 .. SegsCapacity - 1 /\ x[2] \in 0 .. lay.perSeg - 1
    BY <1>1, <1>6
  <2> HIDE DEF x
  <2>2. x \in SegPebs
    BY <2>1, SegPebsAre
  <2> QED BY <2>2 DEF x
<1> QED BY <1>5, <1>6

(* ... and map_leb2peb takes the PEB with the same number. *)
LEMMA OwnPeb ==
  ASSUME Inv, EarlyInv, MapLeb, lay.perSeg = 1
  PROVE  segPeb'[cur] = Leb(cur)
<1> DEFINE leb == Leb(cur)
           p == PortionOf(leb)
           w == geo.perPortion
<1>1. PICK s \in 0 .. geo.stripes - 1 :
        \E item \in 0 .. PebsCount(p, s) - 1 :
        \E peb \in Pebs :
          /\ Derived /\ TableTypes /\ cur \in SegPebs /\ cur \in LebsTotal
          /\ leb \in Pebs /\ p \in Nat
          /\ s = GetStripeIndex(leb)
          /\ peb = StartPeb(p, s) + item
          /\ state[peb] = "unknown"
          /\ \A j \in 0 .. item - 1 : state[StartPeb(p, s) + j] # "unknown"
          /\ segPeb' = [segPeb EXCEPT ![cur] = peb]
  BY MapLebIs
<1>2. PICK item \in 0 .. PebsCount(p, s) - 1 :
        \E peb \in Pebs :
          /\ Derived /\ TableTypes /\ cur \in SegPebs /\ cur \in LebsTotal
          /\ leb \in Pebs /\ p \in Nat
          /\ s = GetStripeIndex(leb)
          /\ peb = StartPeb(p, s) + item
          /\ state[peb] = "unknown"
          /\ \A j \in 0 .. item - 1 : state[StartPeb(p, s) + j] # "unknown"
          /\ segPeb' = [segPeb EXCEPT ![cur] = peb]
  BY <1>1
<1>3. PICK peb \in Pebs :
          /\ Derived /\ TableTypes /\ cur \in SegPebs /\ cur \in LebsTotal
          /\ leb \in Pebs /\ p \in Nat
          /\ s = GetStripeIndex(leb)
          /\ peb = StartPeb(p, s) + item
          /\ state[peb] = "unknown"
          /\ \A j \in 0 .. item - 1 : state[StartPeb(p, s) + j] # "unknown"
          /\ segPeb' = [segPeb EXCEPT ![cur] = peb]
  BY <1>2
<1>4. pc = "map" /\ phys # << >>
  BY DEF MapLeb, Inv, LayInv, Running
<1>5. Reached /\ MapInv /\ TableTypes /\ cur \in Nat \X Nat
  BY <1>4 DEF Inv, TablesInv, CurInv
<1>6. Assigned = { x \in LebsTotal : Before(x, cur) }
  BY <1>4, <1>5 DEF Reached
<1>7. /\ \A x \in Assigned : segPeb[x] = Leb(x)
      /\ \A b \in Pebs : state[b] # "pre_erase"
  BY <1>4 DEF EarlyInv
<1>8. /\ \A x \in SegPebs : x = <<x[1], 0>> /\ Leb(x) = x[1] /\ x[1] \in Nat
      /\ \A i \in Nat : i < SegsCapacity => <<i, 0>> \in SegPebs
  BY <1>3, OneLeb
<1>9. cur = <<leb, 0>> /\ leb \in Nat /\ leb < SegsCapacity /\ leb < lay.pebs
  <2>1. cur = <<cur[1], 0>> /\ leb = cur[1] /\ leb \in Nat
    BY <1>3, <1>8
  <2>2. cur[1] \in 0 .. SegsCapacity - 1 /\ SegsCapacity \in Nat
    BY <1>3, SegPebsAre
  <2>3. leb < lay.pebs
    BY <1>3, PortionIs
  <2> QED BY <2>1, <2>2, <2>3
<1> HIDE DEF leb
<1>10. ASSUME NEW i \in Nat, i < leb
       PROVE  state[i] = "using"
  <2>1. i < SegsCapacity /\ i < lay.pebs /\ SegsCapacity \in Nat
    <3>1. SegsCapacity \in Nat /\ lay.pebs \in Nat
      BY <1>3, SegPebsAre, DerivedIs
    <3> QED BY <1>9, <1>10, <3>1
  <2>2. <<i, 0>> \in SegPebs /\ Leb(<<i, 0>>) = i
    BY <1>8, <2>1
  <2>3. i # NoIndex
    BY <1>3, <2>1, LayoutIs DEF NoIndex, Derived
  <2>4. <<i, 0>> \in LebsTotal
    BY <1>3, <2>2, <2>3, LebIs
  <2>5. Before(<<i, 0>>, cur)
    BY <1>9, <1>10 DEF Before
  <2>6. <<i, 0>> \in Assigned
    BY <1>6, <2>4, <2>5
  <2>7. segPeb[<<i, 0>>] = i
    BY <1>7, <2>2, <2>6
  <2> QED BY <1>5, <2>6, <2>7 DEF MapInv
<1>11. state[leb] = "unknown"
  <2>1. state[leb] # "using"
    <3> SUFFICES ASSUME state[leb] = "using" PROVE FALSE
      OBVIOUS
    <3>1. PICK x \in Assigned : segPeb[x] = leb
      BY <1>3, <1>5 DEF MapInv
    <3>2. x \in SegPebs /\ Leb(x) = leb
      BY <1>7, <3>1 DEF Assigned
    <3>3. x = cur
      BY <1>8, <1>9, <3>2
    <3>4. Before(cur, cur)
      BY <1>6, <3>1, <3>3
    <3> QED BY <1>5, <3>4 DEF Before
  <2> QED BY <1>3, <1>5, <1>7, <2>1 DEF TableTypes
<1>12. s = 0
  <2>1. geo.stripes \in Nat \ {0} /\ leb \in Nat
    BY <1>3, <1>9, DerivedIs
  <2>2. leb % 1 = 0
    <3>1. leb % 1 \in 0 .. 1 - 1
      BY <2>1, DivMod
    <3> QED BY <3>1
  <2>3. CASE geo.stripes = 1
    BY <2>3
  <2>4. CASE geo.stripes # 1
    <3>1. ~(1 > geo.stripes)
      BY <2>1
    <3>2. GetStripeIndex(leb) = (leb % 1) \div 1
      BY <2>4, <3>1 DEF GetStripeIndex
    <3>3. GetStripeIndex(leb) = 0 \div 1
      BY <2>2, <3>2
    <3> QED BY <1>3, <3>3
  <2> QED BY <2>3, <2>4
<1> DEFINE b == w * p
           st == StartPeb(p, s)
<1>13. st = b /\ b \in Nat /\ leb - b \in Nat
  <2>1. st = w * p + Share(p) * s /\ w * p \in Nat /\ Share(p) \in 0 .. PebDescPerStripe(lay)
    BY <1>3, StripeIs, RestIs
  <2>2. Share(p) * 0 = 0
    BY <2>1
  <2>3. leb - w * (leb \div w) \in 0 .. w - 1
    BY <1>3, PortionIs
  <2>4. leb - b \in 0 .. w - 1
    BY <2>3 DEF PortionOf
  <2> HIDE DEF st, b, w
  <2> QED BY <1>12, <2>1, <2>2, <2>4 DEF b
<1>14. peb = st + item /\ item \in Nat /\ peb \in Nat /\ state[peb] = "unknown"
       /\ \A j \in 0 .. item - 1 : state[st + j] # "unknown"
  <2>1. peb \in Nat
    BY <1>3, PortionIs
  <2> QED BY <1>3, <2>1
<1> HIDE DEF st, b, p
<1>15. ~(peb < leb)
  BY <1>10, <1>14
<1>16. ~(leb < peb)
  <2> SUFFICES ASSUME leb < peb PROVE FALSE
    OBVIOUS
  <2>1. leb - b \in 0 .. item - 1 /\ st + (leb - b) = leb
    BY <1>9, <1>13, <1>14
  <2>2. state[leb] # "unknown"
    BY <1>14, <2>1
  <2> QED BY <1>11, <2>2
<1>17. peb = leb
  BY <1>9, <1>14, <1>15, <1>16
<1>18. segPeb'[cur] = peb
  BY <1>3 DEF TableTypes
<1> QED BY <1>17, <1>18 DEF leb

LEMMA EarlyNext ==
  ASSUME Inv, Inv', EarlyInv, Next
  PROVE  EarlyInv'
<1>1. CASE AllocationPolicy
  <2>1. phys' = << >>
    BY <1>1 DEF AllocationPolicy, tables, Inv, LayInv
  <2> QED BY <2>1 DEF EarlyInv
<1>2. CASE Prepare
  <2>1. lay' = lay /\ geo' = geo /\ segPeb' = [x \in SegPebs |-> NoIndex]
        /\ state' = [peb \in Pebs |-> "unknown"]
    BY <1>2 DEF Prepare
  <2>2. SegPebs' = SegPebs /\ Pebs' = Pebs /\ NoIndex' = NoIndex
    BY <2>1, SameLayout DEF NoIndex
  <2>3. Assigned' = {}
    BY <2>1, <2>2 DEF Assigned
  <2> QED BY <2>1, <2>2, <2>3 DEF EarlyInv
<1>3. CASE MapLeb
  <2>1. lay' = lay /\ geo' = geo /\ pc = "map" /\ phys # << >>
    BY <1>3 DEF MapLeb, Inv, LayInv, Running
  <2>2. SegPebs' = SegPebs /\ Pebs' = Pebs /\ NoIndex' = NoIndex /\ \A x : Leb(x)' = Leb(x)
    BY <2>1, SameLayout DEF NoIndex
  <2>3. \E peb : state' = [state EXCEPT ![peb] = "using"] /\ segPeb' = [segPeb EXCEPT ![cur] = peb]
    BY <1>3 DEF MapLeb
  <2>4. TableTypes
    BY <2>1 DEF Inv, TablesInv
  <2>5. \A peb \in Pebs : state'[peb] # "pre_erase"
    BY <2>1, <2>3, <2>4 DEF EarlyInv, TableTypes
  <2>6. lay.perSeg = 1 => \A x \in Assigned' : segPeb'[x] = Leb(x)
    <3> SUFFICES ASSUME lay.perSeg = 1, NEW x \in SegPebs, segPeb'[x] # NoIndex
                 PROVE  segPeb'[x] = Leb(x)
      BY <2>2 DEF Assigned
    <3>1. CASE x = cur
      BY <1>3, <3>1, OwnPeb
    <3>2. CASE x # cur
      <4>1. segPeb'[x] = segPeb[x]
        BY <2>3, <2>4, <3>2 DEF TableTypes
      <4> QED BY <2>1, <4>1 DEF EarlyInv, Assigned
    <3> QED BY <3>1, <3>2
  <2> QED BY <2>1, <2>2, <2>5, <2>6 DEF EarlyInv
<1>4. CASE ~AllocationPolicy /\ ~Prepare /\ ~MapLeb
  <2>1. lay' = lay /\ geo' = geo
    BY <1>4, OthersKeepLayout
  <2>2. SegPebs' = SegPebs /\ Pebs' = Pebs /\ NoIndex' = NoIndex /\ \A x : Leb(x)' = Leb(x)
    BY <2>1, SameLayout DEF NoIndex
  <2>3. segPeb' = segPeb /\ phys' = phys
        /\ (pc' \in {"cache", "map", "pair"} => state' = state /\ pc \in {"cache", "map", "pair"})
    BY <1>4
    DEF Next, Step, Idle, vars, tables, PrepareCache, PrepareBug, PrepareFails, SkipPeb, MapLebFails,
        CachePair, CacheBug, MarkStart, MarkLeb, MarkStripe, MarkNextPage, InitSbHeader, InitSbSegs
  <2>4. Assigned' = Assigned
    BY <2>2, <2>3 DEF Assigned
  <2> QED BY <2>1, <2>2, <2>3, <2>4 DEF EarlyInv
<1> QED BY <1>1, <1>2, <1>3, <1>4

(* The steps of the marking, of a layout of up to two stripes. *)
Marking ==
  /\ Derived /\ WithinQuota(lay) /\ geo.stripes <= 2 /\ SideBySide
  /\ phys # << >> /\ phys' = phys
  /\ lay' = lay /\ geo' = geo /\ segPeb' = segPeb
  /\ Pebs' = Pebs /\ LastPeb' = LastPeb /\ Leb(LastPeb)' = Leb(LastPeb)
  /\ TableTypes /\ segPeb[LastPeb] \in Pebs

LEMMA MarkingIs ==
  ASSUME Inv, Inv', Next, pc' \in Behind, phys' # << >>, geo'.stripes <= 2, SideBySide'
  PROVE  Marking
<1>1. ~AllocationPolicy /\ ~Prepare /\ ~MapLeb
  BY DEF AllocationPolicy, Prepare, MapLeb, Behind
<1>2. lay' = lay /\ geo' = geo
  BY <1>1, OthersKeepLayout
<1>3. segPeb' = segPeb /\ phys' = phys
  BY <1>1
  DEF Next, Step, Idle, vars, tables, PrepareCache, PrepareBug, PrepareFails, SkipPeb, MapLebFails,
      CachePair, CacheBug, MarkStart, MarkLeb, MarkStripe, MarkNextPage, InitSbHeader, InitSbSegs
<1>4. /\ SegPebs' = SegPebs /\ Pebs' = Pebs /\ NoIndex' = NoIndex /\ LebsTotal' = LebsTotal
      /\ SegsCapacity' = SegsCapacity /\ LebsPerPebIndex' = LebsPerPebIndex
  BY <1>2, SameLayout DEF NoIndex
<1>5. LastPeb' = LastPeb
  BY <1>2, <1>4 DEF LastPeb
<1>6. Leb(LastPeb)' = Leb(LastPeb)
  BY <1>2, <1>4, <1>5 DEF Leb, LebId, LebsOfSeg, NoIndex
<1>7. SideBySide
  BY <1>2 DEF SideBySide
<1>8. Derived /\ WithinQuota(lay) /\ TableTypes
  BY <1>3 DEF Inv, LayInv, TablesInv
<1>9. Assigned' = LebsTotal'
  BY DEF Inv, TablesInv, Reached
<1>10. LastPeb \in LebsTotal
  BY <1>7, <1>8, LastLebIs
<1>11. segPeb[LastPeb] \in Pebs
  BY <1>3, <1>4, <1>8, <1>9, <1>10 DEF Assigned, TableTypes
<1> QED BY <1>2, <1>3, <1>4, <1>5, <1>6, <1>7, <1>8, <1>11 DEF Marking

LEMMA MarkStartKeeps ==
  ASSUME Marking, MarkStart, EarlyInv, MarkTypes
  PROVE  MarkInv'
<1>1. CASE lay.erase
  <2>1. pc' = "header" /\ lay'.erase
    BY <1>1 DEF MarkStart, Marking
  <2> QED BY <2>1 DEF MarkInv
<1>2. CASE ~lay.erase
  <2> DEFINE L == segPeb[LastPeb]
             leb == Leb(LastPeb)
  <2>1. /\ pc = "map" /\ pc' = "mark_leb" /\ state' = state
        /\ mark' = [leb |-> leb + 1, peb |-> L + 1, stripe |-> 0, preErased |-> Unallocated(leb)]
    BY <1>2 DEF MarkStart, tables, Leb
  <2>2. L \in Pebs /\ leb \in Nat /\ leb + 1 < lay.pebs /\ lay.pebs \in Nat
    BY LastLebIs, DerivedIs DEF Marking
  <2>3. L \in Nat /\ L + 1 <= lay.pebs
    BY <2>2 DEF Pebs
  <2>4. mark'.leb = leb + 1 /\ mark'.peb = L + 1 /\ mark'.stripe = 0
        /\ mark'.preErased = lay.pebs - (leb + 1)
    BY <2>1 DEF Unallocated
  <2>5. segPeb'[LastPeb'] = L /\ Leb(LastPeb)' = leb /\ Pebs' = Pebs /\ lay' = lay
    BY DEF Marking
  <2>6. \A peb \in Pebs : state[peb] # "pre_erase"
    BY <2>1 DEF EarlyInv, Marking
  <2> HIDE DEF L, leb
  <2>7. \A peb \in Pebs : peb \in Nat
    BY <2>2 DEF Pebs
  <2>8. MarkedTo(mark.peb)'
    <3>1. \A peb \in Pebs : ~(L + 1 <= peb /\ peb < L + 1)
      BY <2>3, <2>7
    <3> QED BY <2>1, <2>4, <2>5, <2>6, <3>1 DEF MarkedTo
  <2>9. CountRight'
    BY <2>4, <2>5 DEF CountRight
  <2>10. mark'.leb \in Nat /\ mark'.peb \in Nat /\ mark'.stripe \in Nat
         /\ mark'.peb <= lay'.pebs /\ segPeb'[LastPeb'] + 1 <= mark'.peb
         /\ ~(mark'.leb >= lay'.pebs)
    BY <2>2, <2>3, <2>4, <2>5
  <2> QED BY <2>1, <2>8, <2>9, <2>10 DEF MarkInv
<1> QED BY <1>1, <1>2

LEMMA MarkLebKeeps ==
  ASSUME Marking, MarkLeb, MarkInv, MarkTypes
  PROVE  MarkInv'
<1>1. pc = "mark_leb" /\ state' = state
  BY DEF MarkLeb, tables
<1>2. /\ mark.leb \in Nat /\ mark.peb \in Nat /\ mark.stripe \in Nat
      /\ mark.peb <= lay.pebs /\ segPeb[LastPeb] + 1 <= mark.peb
      /\ MarkedTo(mark.peb) /\ CountRight
      /\ (mark.leb >= lay.pebs => mark.peb = lay.pebs)
  BY <1>1 DEF MarkInv, Marking
<1>3. segPeb'[LastPeb'] = segPeb[LastPeb] /\ Leb(LastPeb)' = Leb(LastPeb) /\ Pebs' = Pebs /\ lay' = lay
      /\ geo' = geo
  BY DEF Marking
<1>4. CASE mark.leb < lay.pebs
  <2>1. pc' = "mark_stripe" /\ mark' = [mark EXCEPT !.stripe = GetStripeIndex(mark.leb)]
    BY <1>4 DEF MarkLeb
  <2>2. mark.leb \in Pebs /\ geo.stripes \in Nat
    <3>1. Derived
      BY DEF Marking
    <3>2. lay.pebs \in Nat /\ geo.stripes \in Nat
      BY <3>1, DerivedIs
    <3> QED BY <1>2, <1>4, <3>2 DEF Pebs
  <2>3. GetStripeIndex(mark.leb) \in 0 .. geo.stripes - 1
    BY <2>2, GetStripeIndexIs DEF Marking
  <2> DEFINE s == GetStripeIndex(mark.leb)
  <2>4. s \in Nat /\ ~(s >= geo.stripes)
    BY <2>2, <2>3
  <2> HIDE DEF s
  <2>5. mark' = [leb |-> mark.leb, peb |-> mark.peb, stripe |-> s, preErased |-> mark.preErased]
    <3>1. mark' = [mark EXCEPT !.stripe = s]
      BY <2>1 DEF s
    <3>2. mark = [leb |-> mark.leb, peb |-> mark.peb, stripe |-> mark.stripe, preErased |-> mark.preErased]
      BY DEF MarkTypes
    <3> QED BY <3>1, <3>2
  <2>6. mark'.leb = mark.leb /\ mark'.peb = mark.peb /\ mark'.stripe = s
        /\ mark'.preErased = mark.preErased
    BY <2>5
  <2>7. MarkedTo(mark.peb)' /\ CountRight'
    BY <1>1, <1>2, <1>3, <2>6 DEF MarkedTo, CountRight
  <2> QED BY <1>2, <1>3, <1>4, <2>1, <2>4, <2>6, <2>7 DEF MarkInv
<1>5. CASE ~(mark.leb < lay.pebs)
  <2>1. pc' = "header" /\ mark' = mark
    BY <1>5 DEF MarkLeb
  <2>2. lay.pebs \in Nat
    BY DerivedIs DEF Marking
  <2>3. mark.peb = lay.pebs
    BY <1>2, <1>5, <2>2
  <2>4. MarkedTo(lay.pebs)' /\ CountRight'
    BY <1>1, <1>2, <1>3, <2>1, <2>3 DEF MarkedTo, CountRight
  <2> QED BY <2>1, <2>4 DEF MarkInv
<1> QED BY <1>4, <1>5

LEMMA MarkStripeKeeps ==
  ASSUME Marking, MarkStripe, pc' # "abort", MarkInv, MarkTypes
  PROVE  MarkInv'
<1> DEFINE L == segPeb[LastPeb]
           leb == mark.leb
           s == mark.stripe
           p == PortionOf(leb)
           start == StartPeb(p, s)
           count == PebsCount(p, s)
           end == start + count
           rest == mark.peb .. start + count - 1
           n == geo.stripes
           np == NextPage(leb)
<1>1. /\ pc = "mark_stripe" /\ s < n /\ pc' = pc
      /\ ~(mark.peb < start) /\ ~(count > 0 /\ mark.peb >= start + count)
      /\ state' = [peb \in Pebs |-> IF peb \in rest THEN "pre_erase" ELSE state[peb]]
      /\ mark' = [mark EXCEPT !.stripe = @ + 1, !.peb = start + count]
  BY DEF MarkStripe
<1>2. /\ leb \in Nat /\ mark.peb \in Nat /\ s \in Nat
      /\ mark.peb <= lay.pebs /\ L + 1 <= mark.peb
      /\ MarkedTo(mark.peb) /\ CountRight /\ leb < lay.pebs
  BY <1>1 DEF MarkInv, Marking
<1>3. segPeb'[LastPeb'] = L /\ Leb(LastPeb)' = Leb(LastPeb) /\ Pebs' = Pebs /\ lay' = lay
      /\ geo' = geo
  BY DEF Marking
<1>4. Derived /\ n <= 2 /\ n \in Nat \ {0} /\ lay.pebs \in Nat /\ leb \in Pebs
  BY <1>2, DerivedIs DEF Marking, Pebs
<1>5. L \in Nat /\ \A peb \in Pebs : peb \in Nat /\ peb < lay.pebs
  BY <1>4 DEF Marking, Pebs
<1>6. s \in 0 .. n - 1
  BY <1>1, <1>2, <1>4
<1>7. start \in Nat
  BY <1>4, <1>6, StripeIs, PortionIs DEF PortionOf
<1>8. start <= lay.pebs
  <2> HIDE DEF start
  <2> QED BY <1>1, <1>2, <1>4, <1>7
<1>9. start \in Nat /\ count \in Nat /\ start + count <= lay.pebs /\ (count = 0 => start = lay.pebs)
      /\ (s = n - 1 => start + count = np)
  BY <1>4, <1>6, <1>8, StripeEnd
<1>10. mark = [leb |-> leb, peb |-> mark.peb, stripe |-> s, preErased |-> mark.preErased]
  BY DEF MarkTypes
<1>11. mark' = [mark EXCEPT !.stripe = mark.stripe + 1, !.peb = end]
  BY <1>1
<1>12. mark'.leb = leb /\ mark'.peb = end /\ mark'.stripe = s + 1 /\ mark'.preErased = mark.preErased
  <2> HIDE DEF end
  <2> QED BY <1>10, <1>11
<1>13. NextPage(leb)' = np
  <2>1. mark'.leb = mark.leb
    BY <1>12
  <2> QED BY <1>3, <2>1 DEF NextPage, StartLeb, LebsCount, PageOf, PortionOf
<1>14. \A peb \in Pebs : state[peb] = "pre_erase" <=> L + 1 <= peb /\ peb < mark.peb
  BY <1>2 DEF MarkedTo
<1>15. rest = mark.peb .. end - 1
  <2>1. start + (count - 1) = end - 1
    <3> HIDE DEF start, count
    <3> QED BY <1>9
  <2> QED BY <2>1
<1>16. end = start + count
  OBVIOUS
<1> HIDE DEF L, start, count, end, s, n, np, rest, p, leb
<1>17. end \in Nat /\ end <= lay.pebs /\ mark.peb <= end
  BY <1>1, <1>2, <1>4, <1>9, <1>16
<1>18. \A peb \in Pebs : state'[peb] = "pre_erase" <=> L + 1 <= peb /\ peb < end
  <2> TAKE peb \in Pebs
  <2>1. peb \in Nat /\ state'[peb] = IF peb \in rest THEN "pre_erase" ELSE state[peb]
    BY <1>1, <1>5
  <2>2. peb \in rest <=> mark.peb <= peb /\ peb < end
    BY <1>2, <1>15, <1>17, <2>1
  <2> QED BY <1>2, <1>5, <1>14, <1>17, <2>1, <2>2
<1>19. MarkedTo(mark.peb)'
  BY <1>3, <1>12, <1>18 DEF MarkedTo
<1>20. CountRight'
  BY <1>2, <1>3, <1>12 DEF CountRight
<1>21. s + 1 \in Nat /\ (s + 1 >= n => end = np)
  BY <1>2, <1>4, <1>6, <1>9, <1>16
<1>22. L + 1 <= end
  BY <1>2, <1>5, <1>17
<1>23. geo'.stripes = n
  BY <1>3 DEF n
<1>24. mark'.stripe >= geo'.stripes => mark'.peb = NextPage(mark.leb)'
  BY <1>12, <1>13, <1>21, <1>23 DEF leb
<1> QED BY <1>1, <1>2, <1>3, <1>12, <1>17, <1>19, <1>20, <1>21, <1>22, <1>24 DEF MarkInv

LEMMA MarkNextPageKeeps ==
  ASSUME Marking, MarkNextPage, MarkInv, MarkTypes
  PROVE  MarkInv'
<1> DEFINE np == NextPage(mark.leb)
<1>1. /\ pc = "mark_stripe" /\ mark.stripe >= geo.stripes /\ pc' = "mark_leb" /\ state' = state
      /\ mark' = [mark EXCEPT !.leb = np]
  BY DEF MarkNextPage, tables
<1>2. /\ mark.leb \in Nat /\ mark.peb \in Nat /\ mark.stripe \in Nat
      /\ mark.peb <= lay.pebs /\ segPeb[LastPeb] + 1 <= mark.peb
      /\ MarkedTo(mark.peb) /\ CountRight /\ mark.leb < lay.pebs /\ mark.peb = np
  BY <1>1 DEF MarkInv, Marking
<1>3. segPeb'[LastPeb'] = segPeb[LastPeb] /\ Leb(LastPeb)' = Leb(LastPeb) /\ Pebs' = Pebs /\ lay' = lay
      /\ geo' = geo
  BY DEF Marking
<1>4. lay.pebs \in Nat /\ mark.leb \in Pebs
  BY <1>2, DerivedIs DEF Marking, Pebs
<1>5. np \in Nat /\ np <= lay.pebs
  BY <1>4, NextPageIs DEF Marking
<1> HIDE DEF np
<1>6. mark' = [leb |-> np, peb |-> mark.peb, stripe |-> mark.stripe, preErased |-> mark.preErased]
  BY <1>1 DEF MarkTypes
<1>7. mark'.leb = np /\ mark'.peb = mark.peb /\ mark'.stripe = mark.stripe
      /\ mark'.preErased = mark.preErased
  BY <1>6
<1>8. MarkedTo(mark.peb)' /\ CountRight'
  BY <1>1, <1>2, <1>3, <1>7 DEF MarkedTo, CountRight
<1>9. mark'.leb >= lay'.pebs => mark'.peb = lay'.pebs
  BY <1>2, <1>3, <1>4, <1>5, <1>7
<1> QED BY <1>1, <1>2, <1>3, <1>5, <1>7, <1>8, <1>9 DEF MarkInv

LEMMA MarkNext ==
  ASSUME Inv, Inv', EarlyInv, MarkInv, MarkTypes, Next
  PROVE  MarkInv'
<1> SUFFICES ASSUME phys' # << >>, geo'.stripes <= 2, SideBySide' PROVE MarkInv'
  BY DEF MarkInv
<1>1. CASE pc' \notin Behind
  BY <1>1 DEF MarkInv, Behind
<1>2. CASE pc' \in Behind
  <2>1. Marking
    BY <1>2, MarkingIs
  <2>2. CASE MarkStart
    BY <2>1, <2>2, MarkStartKeeps
  <2>3. CASE MarkLeb
    BY <2>1, <2>3, MarkLebKeeps
  <2>4. CASE MarkStripe
    <3>1. pc' # "abort"
      BY <1>2 DEF Behind
    <3> QED BY <2>1, <2>4, <3>1, MarkStripeKeeps
  <2>5. CASE MarkNextPage
    BY <2>1, <2>5, MarkNextPageKeeps
  <2>6. CASE pc \in {"header", "sb_segs", "done"} /\ pc' \in {"header", "sb_segs", "done"}
             /\ state' = state /\ mark' = mark
    <3>1. ~lay.erase => MarkedTo(lay.pebs) /\ CountRight
      BY <2>1, <2>6 DEF MarkInv, Marking
    <3>2. segPeb'[LastPeb'] = segPeb[LastPeb] /\ Leb(LastPeb)' = Leb(LastPeb) /\ Pebs' = Pebs
          /\ lay' = lay
      BY <2>1 DEF Marking
    <3>3. ~lay.erase => MarkedTo(lay.pebs)' /\ CountRight'
      BY <2>6, <3>1, <3>2 DEF MarkedTo, CountRight
    <3> QED BY <2>6, <3>2, <3>3 DEF MarkInv
  <2>7. \/ MarkStart \/ MarkLeb \/ MarkStripe \/ MarkNextPage
        \/ /\ pc \in {"header", "sb_segs", "done"} /\ pc' \in {"header", "sb_segs", "done"}
           /\ state' = state /\ mark' = mark
    BY <1>2
    DEF Next, Step, Idle, Ended, vars, tables, Behind, AllocationPolicy, Prepare, PrepareCache,
        PrepareBug, PrepareFails, SkipPeb, MapLeb, MapLebFails, CachePair, CacheBug, InitSbHeader, InitSbSegs
  <2> QED BY <2>2, <2>3, <2>4, <2>5, <2>6, <2>7
<1> QED BY <1>1, <1>2

LEMMA CountNext ==
  ASSUME Inv, MarkTypes, SbCount, Next
  PROVE  MarkTypes' /\ SbCount'
<1>1. MarkTypes'
  <2>1. \/ mark' = mark
        \/ \E a, b, c, d : mark' = [leb |-> a, peb |-> b, stripe |-> c, preErased |-> d]
        \/ \E a : mark' = [mark EXCEPT !.stripe = a]
        \/ \E a : mark' = [mark EXCEPT !.leb = a]
        \/ \E a, b : mark' = [mark EXCEPT !.stripe = a, !.peb = b]
    <3>1. CASE MarkStart
      BY <3>1 DEF MarkStart
    <3>2. CASE MarkLeb
      BY <3>2 DEF MarkLeb
    <3>3. CASE MarkNextPage
      BY <3>3 DEF MarkNextPage
    <3>4. CASE MarkStripe
      <4>1. \/ mark' = mark
            \/ \E b : mark' = [mark EXCEPT !.stripe = @ + 1, !.peb = b]
        BY <3>4 DEF MarkStripe
      <4>2. \A b : [mark EXCEPT !.stripe = @ + 1, !.peb = b] = [mark EXCEPT !.stripe = mark.stripe + 1, !.peb = b]
        OBVIOUS
      <4> QED BY <4>1, <4>2
    <3>5. CASE ~MarkStart /\ ~MarkLeb /\ ~MarkNextPage /\ ~MarkStripe
      BY <3>5
      DEF Next, Step, Idle, vars, AllocationPolicy, Prepare, PrepareCache, PrepareBug, PrepareFails, SkipPeb, MapLeb,
          MapLebFails, CachePair, CacheBug, InitSbHeader, InitSbSegs
    <3> QED BY <3>1, <3>2, <3>3, <3>4, <3>5
  <2> QED BY <2>1 DEF MarkTypes
<1>2. SbCount'
  <2>1. CASE InitSbHeader /\ pc' = "sb_segs"
    <3> DEFINE count == Least(mark.preErased, U16Limit)
    <3>1. \E e, f, g : sb' = [sb EXCEPT !.preErase = count, !.perFragment = f, !.perStripe = g,
                                        !.extent = e]
      BY <2>1 DEF InitSbHeader
    <3> HIDE DEF count
    <3>2. sb = [preErase |-> sb.preErase, perFragment |-> sb.perFragment,
                perStripe |-> sb.perStripe, extent |-> sb.extent, pebs |-> sb.pebs]
      BY DEF Inv, SbInv
    <3>3. sb'.preErase = count /\ mark' = mark
      BY <2>1, <3>1, <3>2 DEF InitSbHeader
    <3> QED BY <3>3 DEF SbCount, count
  <2>2. CASE InitSbSegs
    <3>1. \E e : sb' = [sb EXCEPT !.pebs = e]
      BY <2>2 DEF InitSbSegs
    <3>2. sb = [preErase |-> sb.preErase, perFragment |-> sb.perFragment,
                perStripe |-> sb.perStripe, extent |-> sb.extent, pebs |-> sb.pebs]
      BY DEF Inv, SbInv
    <3>3. sb'.preErase = sb.preErase /\ mark' = mark /\ pc = "sb_segs"
      BY <2>2, <3>1, <3>2 DEF InitSbSegs
    <3> QED BY <3>3 DEF SbCount
  <2>3. CASE ~(InitSbHeader /\ pc' = "sb_segs") /\ ~InitSbSegs
    <3>1. pc' \in {"sb_segs", "done"} => pc = pc' /\ sb' = sb /\ mark' = mark
      BY <2>3
      DEF Next, Step, Idle, vars, AllocationPolicy, Prepare, PrepareCache, PrepareBug, PrepareFails, SkipPeb, MapLeb,
          MapLebFails, CachePair, CacheBug, MarkStart, MarkLeb, MarkStripe, MarkNextPage, InitSbHeader
    <3> QED BY <3>1 DEF SbCount
  <2> QED BY <2>1, <2>2, <2>3
<1> QED BY <1>1, <1>2

LEMMA InitFull == Init => FullInv
<1> SUFFICES ASSUME Init PROVE FullInv
  OBVIOUS
<1>1. Inv
  BY InitInv
<1>2. phys = << >> /\ pc = "policy"
      /\ mark = [leb |-> 0, peb |-> 0, stripe |-> 0, preErased |-> 0]
  BY DEF Init
<1>3. MarkTypes
  BY <1>2 DEF MarkTypes
<1> QED BY <1>1, <1>2, <1>3 DEF FullInv, EarlyInv, MarkInv, SbCount

LEMMA FullNext == FullInv /\ [Next]_vars => FullInv'
<1>1. ASSUME FullInv, Next PROVE FullInv'
  <2>1. Inv /\ EarlyInv /\ MarkInv /\ MarkTypes /\ SbCount
    BY <1>1 DEF FullInv
  <2>2. Inv'
    BY <1>1, <2>1, InvNext
  <2> QED BY <1>1, <2>1, <2>2, EarlyNext, MarkNext, CountNext DEF FullInv
<1>2. ASSUME FullInv, UNCHANGED vars PROVE FullInv'
  <2>1. /\ lay' = lay /\ geo' = geo /\ pc' = pc /\ segPeb' = segPeb /\ phys' = phys
        /\ state' = state /\ mark' = mark /\ sb' = sb
    BY <1>2 DEF vars, tables
  <2>2. Inv /\ EarlyInv /\ MarkInv /\ MarkTypes /\ SbCount
    BY <1>2 DEF FullInv
  <2>3. Inv'
    BY <1>2, <2>2, InvNext
  <2>4. /\ SegPebs' = SegPebs /\ Pebs' = Pebs /\ NoIndex' = NoIndex /\ SegsCapacity' = SegsCapacity
        /\ LebsPerPebIndex' = LebsPerPebIndex /\ \A x : Leb(x)' = Leb(x)
    BY <2>1, SameLayout DEF NoIndex
  <2>5. Assigned' = Assigned
    BY <2>1, <2>4 DEF Assigned
  <2>6. EarlyInv'
    BY <2>1, <2>2, <2>4, <2>5 DEF EarlyInv
  <2>7. LastPeb' = LastPeb
    BY <2>1, <2>4 DEF LastPeb
  <2>8. Leb(LastPeb)' = Leb(LastPeb)
    BY <2>1, <2>4, <2>7 DEF Leb, LebId, LebsOfSeg, NoIndex
  <2>9. /\ MarkedTo(lay.pebs)' <=> MarkedTo(lay.pebs)
        /\ MarkedTo(mark.peb)' <=> MarkedTo(mark.peb)
    BY <2>1, <2>4, <2>7 DEF MarkedTo
  <2>10. CountRight' <=> CountRight
    BY <2>1, <2>8 DEF CountRight
  <2>11. NextPage(mark.leb)' = NextPage(mark.leb) /\ (SideBySide' <=> SideBySide)
    BY <2>1 DEF NextPage, StartLeb, LebsCount, PageOf, PortionOf, SideBySide
  <2>12. MarkInv'
    BY <2>1, <2>2, <2>7, <2>9, <2>10, <2>11 DEF MarkInv
  <2>13. MarkTypes' /\ SbCount'
    BY <2>1, <2>2 DEF MarkTypes, SbCount
  <2> QED BY <2>3, <2>6, <2>12, <2>13 DEF FullInv
<1> QED BY <1>1, <1>2

LEMMA MaptblFullInv == Spec => []FullInv
<1>1. Init => FullInv
  BY InitFull
<1>2. FullInv /\ [Next]_vars => FullInv'
  BY FullNext
<1> QED BY <1>1, <1>2, PTL DEF Spec

(***************************************************************************)
(* On a volume that mkfs does not erase, with portions of up to two        *)
(* stripes, exactly the PEBs behind the last mapped one end pre-erased,    *)
(* and with one PEB per segment the superblock counts them right, up to    *)
(* the most that its 16 bits hold.                                         *)
(***************************************************************************)
THEOREM MaptblPreErased == Spec => [](geo.stripes <= 2 => PreErasedBehind)
<1>1. FullInv => (geo.stripes <= 2 => PreErasedBehind)
  <2> SUFFICES ASSUME FullInv, geo.stripes <= 2, pc = "done", ~lay.erase, SideBySide
               PROVE  /\ { peb \in Pebs : state[peb] = "pre_erase" } = segPeb[LastPeb] + 1 .. lay.pebs - 1
                      /\ lay.perSeg = 1 =>
                           sb.preErase =
                             Least(Cardinality({ peb \in Pebs : state[peb] = "pre_erase" }), U16Limit)
    BY DEF PreErasedBehind
  <2> DEFINE L == segPeb[LastPeb]
             S == { peb \in Pebs : state[peb] = "pre_erase" }
             leb == Leb(LastPeb)
  <2>1. Inv /\ EarlyInv /\ MarkInv /\ SbCount
    BY DEF FullInv
  <2>2. phys # << >> /\ Derived /\ WithinQuota(lay)
    BY <2>1 DEF Inv, LayInv, Running
  <2>3. MarkedTo(lay.pebs) /\ CountRight
    BY <2>1, <2>2 DEF MarkInv
  <2>4. lay.pebs \in Nat
    BY <2>2, DerivedIs
  <2>5. LastPeb \in LebsTotal /\ leb \in Nat /\ leb + 1 < lay.pebs
    BY <2>2, LastLebIs
  <2>6. TableTypes /\ Assigned = LebsTotal
    BY <2>1, <2>2 DEF Inv, TablesInv, Reached, Behind
  <2>7. LastPeb \in Assigned
    BY <2>5, <2>6
  <2>8. L \in Nat /\ L < lay.pebs
    <3>1. L \in Pebs
      BY <2>6, <2>7 DEF Assigned, TableTypes
    <3> QED BY <2>4, <3>1 DEF Pebs
  <2>9. \A peb \in Pebs : state[peb] = "pre_erase" <=> L + 1 <= peb /\ peb < lay.pebs
    BY <2>3 DEF MarkedTo
  <2>10. lay.perSeg = 1 => L = leb
    BY <2>1, <2>2, <2>7 DEF EarlyInv
  <2>11. sb.preErase = Least(lay.pebs - (leb + 1), U16Limit)
    BY <2>1, <2>3 DEF SbCount, CountRight
  <2>12. \A peb : peb \in Pebs <=> peb \in Int /\ 0 <= peb /\ peb <= lay.pebs - 1
    BY <2>4 DEF Pebs
  <2> HIDE DEF L, leb
  <2>13. S = L + 1 .. lay.pebs - 1
    BY <2>4, <2>8, <2>9, <2>12
  <2>14. Cardinality(L + 1 .. lay.pebs - 1) = lay.pebs - (L + 1)
    <3> DEFINE a == L + 1
               b == lay.pebs - 1
    <3>1. a \in Int /\ b \in Int /\ a <= b + 1 /\ b - a + 1 = lay.pebs - (L + 1)
      BY <2>4, <2>8
    <3> HIDE DEF a, b
    <3>2. Cardinality(a .. b) = IF a > b THEN 0 ELSE b - a + 1
      BY <3>1, FS_Interval
    <3>3. Cardinality(a .. b) = b - a + 1
      BY <3>1, <3>2
    <3> QED BY <3>1, <3>3 DEF a, b
  <2>15. lay.perSeg = 1 => sb.preErase = Least(Cardinality(S), U16Limit)
    BY <2>10, <2>11, <2>13, <2>14
  <2> QED BY <2>13, <2>15 DEF L
<1> QED BY <1>1, MaptblFullInv, PTL
=============================================================================
