------------------------------ MODULE Rounding ------------------------------
(***************************************************************************)
(* The integer arithmetic that sizes the structures of a volume.           *)
(***************************************************************************)
EXTENDS Naturals

CeilDiv(a, b) == (a + b - 1) \div b
RoundUp(a, b) == CeilDiv(a, b) * b
Least(a, b) == IF a < b THEN a ELSE b
Most(a, b) == IF a < b THEN b ELSE a

U16Max == 65535
U16(v) == v % 65536    \* a cast to u16, of a negative value too
=============================================================================
