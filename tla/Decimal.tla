------------------------------ MODULE Decimal ------------------------------
(***************************************************************************)
(* Exact decimal numbers, as the mappings use them through BigDecimal and  *)
(* helpers/number (toDecimal, ZERO, ONE).  helpers/number.ts is imported   *)
(* by src/ but is not part of it, so this module is written from the       *)
(* specification (section 4.6): toDecimal(raw, decimals) is raw * 10^-d,   *)
(* exactly.                                                                *)
(*                                                                         *)
(* A decimal is the record [mant, scale] that stands for mant * 10^-scale. *)
(* Every operator returns the canonical form (no trailing zero digit in    *)
(* mant while scale > 0), so that two decimals are the same number exactly *)
(* when they are the same record.                                          *)
(***************************************************************************)
EXTENDS Integers

Decimals == [mant : Int, scale : Nat]

RECURSIVE Pow10(_)
Pow10(n) == IF n = 0 THEN 1 ELSE 10 * Pow10(n - 1)

RECURSIVE Canonical(_)
Canonical(d) ==
    IF d.scale > 0 /\ d.mant % 10 = 0
    THEN Canonical([mant |-> d.mant \div 10, scale |-> d.scale - 1])
    ELSE d

IsCanonical(d) == d.scale > 0 => d.mant % 10 # 0

\* ZERO.toBigDecimal()
ZeroDec == [mant |-> 0, scale |-> 0]

\* mant of d when written with `scale` fractional digits (scale >= d.scale)
Rescaled(d, scale) == d.mant * Pow10(scale - d.scale)

CommonScale(a, b) == IF a.scale >= b.scale THEN a.scale ELSE b.scale

\* toDecimal(value, decimals) of helpers/number
ToDecimal(value, decimals) == Canonical([mant |-> value, scale |-> decimals])

\* BigDecimal.plus
DecPlus(a, b) ==
    LET scale == CommonScale(a, b)
    IN  Canonical([mant  |-> Rescaled(a, scale) + Rescaled(b, scale),
                   scale |-> scale])

\* BigDecimal.minus
DecMinus(a, b) == DecPlus(a, [b EXCEPT !.mant = -@])

=============================================================================
