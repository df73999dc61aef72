---------------------------- MODULE ShareFields ----------------------------
(***************************************************************************)
(* The two fields of crypto/src/mpc/field.rs: a prime field, in which the  *)
(* values are shared, and a field of characteristic 2, in which bits are.  *)
(* The code's fields are those of BN254 and GF(2^8); here the prime, the   *)
(* width and the reduction polynomial are parameters.                      *)
(***************************************************************************)
EXTENDS Integers

CONSTANTS
  Prime,
  Width,        \* elements of the boolean field have Width bits
  Polynomial    \* its reduction polynomial without the leading term

ASSUME FieldAssumption ==
  /\ Prime \in Nat /\ Prime > 2 /\ \A d \in 2..(Prime - 1) : Prime % d # 0
  /\ Width \in 1..8 /\ Polynomial \in 0..(2^Width - 1)

Fp == 0..(Prime - 1)
FpPlus(a, b) == (a + b) % Prime
FpNegate(a) == (Prime - a) % Prime
FpTimes(a, b) == (a * b) % Prime
FpInverses == [a \in Fp \ {0} |-> CHOOSE b \in Fp : FpTimes(a, b) = 1]
FpInverse(a) == FpInverses[a]
FpFromNat(n) == n % Prime

F2 == 0..(2^Width - 1)

BitOf(a, k) == (a \div 2^k) % 2

XorTable ==
  [a, b \in F2 |->
     LET xor[k \in 0..Width] ==
           IF k = 0 THEN 0
           ELSE xor[k - 1] + 2^(k - 1) * ((BitOf(a, k - 1) + BitOf(b, k - 1)) % 2)
     IN xor[Width]]
Xor(a, b) == XorTable[a, b]

\* One step of the multiplication: shift, and reduce if a bit was lost.
Doubled(a) ==
  LET shifted == (2 * a) % 2^Width IN
  IF a >= 2^(Width - 1) THEN Xor(shifted, Polynomial) ELSE shifted

\* gf2_mul
GfMul ==
  LET product[a, b \in F2] ==
        IF a = 0 \/ b = 0 THEN 0
        ELSE Xor(IF b % 2 = 1 THEN a ELSE 0, product[Doubled(a), b \div 2])
  IN product

\* gf2_pow
GfPow(base, exponent) ==
  LET power[b \in F2, e \in 0..exponent] ==
        IF e = 0 THEN 1
        ELSE GfMul[IF e % 2 = 1 THEN b ELSE 1, power[GfMul[b, b], e \div 2]]
  IN power[base, exponent]

F2Times(a, b) == GfMul[a, b]
F2Negate(a) == a
F2Inverses == [a \in F2 \ {0} |-> GfPow(a, 2^Width - 2)]
F2Inverse(a) == F2Inverses[a]
F2FromNat(n) == n % 2^Width     \* a cast that keeps the low bits
=============================================================================
