--------------------------- MODULE SecureGadgets ---------------------------
(***************************************************************************)
(* The protocols of crypto/src/mpc on top of sharing: s2b.rs and           *)
(* comparison.rs, which share bits in the boolean field, auth.rs, and      *)
(* conversion.rs.  A committee is given as the pair of its arithmetic and  *)
(* its boolean form.  What an operation draws is an argument, and the      *)
(* conjunctions of one call draw the same mask.                            *)
(***************************************************************************)
EXTENDS ShareFields, Sequences
LOCAL INSTANCE SequencesExt

CONSTANTS Scale     \* the public scale of a ciphertext

A == INSTANCE SecretSharing WITH
       Elements <- Fp, Zero <- 0, One <- 1, Plus <- FpPlus, Negate <- FpNegate,
       Times <- FpTimes, Inverted <- FpInverse, FromNat <- FpFromNat
B == INSTANCE SecretSharing WITH
       Elements <- F2, Zero <- 0, One <- 1, Plus <- Xor, Negate <- F2Negate,
       Times <- F2Times, Inverted <- F2Inverse, FromNat <- F2FromNat

Sharewise(op(_, _), x, y) == [i \in DOMAIN x |-> op(x[i], y[i])]
Add(x, y) == Sharewise(FpPlus, x, y)
Subtract(x, y) == Sharewise(A!Minus, x, y)
Not(bit) == [i \in DOMAIN bit |-> Xor(bit[i], 1)]

-----------------------------------------------------------------------------
(* s2b.rs *)

BitLength == CHOOSE l \in 1..Prime : 2^(l - 1) <= Prime /\ Prime < 2^l

\* The lowest n bits, from the lowest
BitsOf(x, n) == [k \in 1..n |-> BitOf(x, k - 1)]

\* draws: coins and bitCoins of new sharings, and the mask of a conjunction
BitExtractPair(r, n, cf, cb, draws) ==
  [arithmetic |-> A!Split(r, draws.coins, cf.points),
   bits |-> [k \in 1..n |-> B!Split(BitOf(r, k - 1), draws.bitCoins, cb.points)]]

SecretAnd(a, b, cb, draws) == B!MultiplyAndHandoff(a, b, draws.bitMask, cb)

FullAdder(a, b, c, cb, draws) ==
  LET and == SecretAnd(b, c, cb, draws) IN
  [sum |-> [i \in DOMAIN b |-> Xor(a, Xor(b[i], c[i]))],
   carry |-> [i \in DOMAIN b |-> Xor(F2Times(a, Xor(b[i], c[i])), and[i])]]

\* Slip: the borrow forgets the subtracted bit.
FullSubtractorShort(a, b, borrow, cb, draws) ==
  LET and == SecretAnd(a, borrow, cb, draws) IN
  [sum |-> [i \in DOMAIN a |-> Xor(a[i], Xor(b, borrow[i]))],
   carry |-> [i \in DOMAIN a |->
     Xor(F2Times(b, a[i]), Xor(borrow[i], Xor(and[i], F2Times(b, borrow[i]))))]]

FullSubtractor(a, b, borrow, cb, draws) ==
  LET and == SecretAnd(a, borrow, cb, draws) IN
  [sum |-> [i \in DOMAIN a |-> Xor(a[i], Xor(b, borrow[i]))],
   carry |-> [i \in DOMAIN a |->
     Xor(Xor(b, F2Times(b, a[i])), Xor(borrow[i], Xor(and[i], F2Times(b, borrow[i]))))]]

\* A step for each bit from the lowest, with the carry of the one before
Ripple(n, step(_, _), cb, draws) ==
  LET extend(done, k) ==
        LET stage == step(k, done.carry) IN
        [sum |-> Append(done.sum, stage.sum), carry |-> stage.carry]
  IN FoldLeft(extend, [sum |-> <<>>, carry |-> B!Split(0, draws.bitCoins, cb.points)],
              [k \in 1..n |-> k])

RippleAdd(public, bits, cb, draws) ==
  Ripple(Len(public), LAMBDA k, carry : FullAdder(public[k], bits[k], carry, cb, draws), cb, draws)

RippleSub(bits, public, cb, draws) ==
  Ripple(Len(bits), LAMBDA k, borrow : FullSubtractor(bits[k], public[k], borrow, cb, draws), cb, draws)

MayConvert(cf, cb) ==
  /\ A!Size(cf) = B!Size(cb) /\ cf.threshold = cb.threshold
  /\ B!MayMultiply(cb)

\* The sum of the opened difference and the mask, less the modulus if it fits
S2B(x, pair, cf, cb, draws) ==
  LET delta == A!Reconstruct(cf.points, A!MaskedDifference(x, pair.arithmetic))
      added == RippleAdd(BitsOf(delta, BitLength), pair.bits, cb, draws)
      s == Append(added.sum, added.carry)
      reduced == RippleSub(s, BitsOf(Prime, BitLength + 1), cb, draws)
      select == Not(reduced.carry)
  IN [k \in 1..BitLength |->
        Sharewise(Xor, s[k],
          SecretAnd(select, Sharewise(Xor, reduced.sum[k], s[k]), cb, draws))]

CenteredLift(f) == IF f > Prime \div 2 THEN f - Prime ELSE f

TwoComplementBits(d, n) == BitsOf(IF d < 0 THEN 2^n + d ELSE d, n)

S2BBounded(x, pair, cf, cb, draws) ==
  LET delta == A!Reconstruct(cf.points, A!MaskedDifference(x, pair.arithmetic)) IN
  RippleAdd(TwoComplementBits(CenteredLift(delta), Len(pair.bits)), pair.bits, cb, draws).sum

-----------------------------------------------------------------------------
(* comparison.rs, and node/src/comparison_runtime.rs *)

\* The top bit of the difference is its sign.
GreaterThanOrEqual(a, b, pair, cf, cb, draws) ==
  Not(S2B(Subtract(a, b), pair, cf, cb, draws)[BitLength])

\* Bit n of a - b + 2^n
GreaterThanOrEqualBounded(a, b, n, pair, cf, cb, draws) ==
  S2BBounded([i \in DOMAIN a |-> FpPlus(A!Minus(a[i], b[i]), FpFromNat(2^n))],
             pair, cf, cb, draws)[n + 1]

RandomBit(r, cf, cb, draws) ==
  [arithmetic |-> A!Split(r, draws.coins, cf.points),
   boolean |-> B!Split(r, draws.bitCoins, cb.points)]

B2A(bit, random, cb) ==
  LET c == B!Reconstruct(cb.points, Sharewise(Xor, bit, random.boolean))
      one == IF c = 1 THEN 1 ELSE 0
  IN [i \in DOMAIN bit |->
        A!Minus(FpPlus(random.arithmetic[i], one), FpTimes(2 * one, random.arithmetic[i]))]

ConditionalSelect(bit, x, y, random, mask, cf, cb) ==
  Add(y, A!MultiplyAndHandoff(B2A(bit, random, cb), Subtract(x, y), mask, cf))

MoveIf(gt, sender, receiver, amount, cf, cb, draws) ==
  LET random == RandomBit(draws.bit, cf, cb, draws) IN
  [sender |-> ConditionalSelect(gt, Subtract(sender, amount), sender, random, draws.mask, cf, cb),
   receiver |-> ConditionalSelect(gt, Add(receiver, amount), receiver, random, draws.mask, cf, cb)]

\* sender > minimum is the negation of minimum >= sender.
ConditionalTransferStrictlyGreater(sender, receiver, minimum, amount, pair, cf, cb, draws) ==
  MoveIf(Not(GreaterThanOrEqual(minimum, sender, pair, cf, cb, draws)),
         sender, receiver, amount, cf, cb, draws)

ConditionalTransferNetwork(sender, receiver, minimum, amount, n, pair, cf, cb, draws) ==
  MoveIf(Not(GreaterThanOrEqualBounded(minimum, sender, n, pair, cf, cb, draws)),
         sender, receiver, amount, cf, cb, draws)

-----------------------------------------------------------------------------
(* auth.rs: an authenticated sharing is a sharing and one of its tag. *)

AuthAdd(x, y) == [value |-> Add(x.value, y.value), mac |-> Add(x.mac, y.mac)]

AuthScalarMul(c, x) ==
  [value |-> [i \in DOMAIN x.value |-> FpTimes(c, x.value[i])],
   mac |-> [i \in DOMAIN x.mac |-> FpTimes(c, x.mac[i])]]

AuthHandoff(x, maskValue, maskMac, src) ==
  [value |-> A!BasicHandoff(x.value, maskValue, src), mac |-> A!BasicHandoff(x.mac, maskMac, src)]

AuthMultiply(x, y, maskValue, maskMac, src) ==
  [value |-> A!MultiplyAndHandoff(x.value, y, maskValue, src),
   mac |-> A!MultiplyAndHandoff(x.mac, y, maskMac, src)]

\* The tag is computed again by the next committee, and the difference opened
\* under a random factor.
VerifyMac(x, alpha, maskMul, maskTag, check, src, dst) ==
  LET z == A!MultiplyAndHandoff(x.value, alpha, maskMul, src)
      tag == A!BasicHandoff(x.mac, maskTag, src)
  IN A!Reconstruct(dst.points,
       [i \in DOMAIN z |-> FpTimes(A!Minus(z[i], tag[i]), check[i])]) = 0

-----------------------------------------------------------------------------
(* conversion.rs *)

Encrypt(x, key, noise, a) ==
  [a |-> a, b |-> FpPlus(FpTimes(a, key), FpPlus(FpTimes(x, FpFromNat(Scale)), noise))]

Decrypt(ct, key) == A!Divide(A!Minus(ct.b, FpTimes(ct.a, key)), FpFromNat(Scale))

\* Slip: the division by the scale rounds towards zero.
DecodeMaskTruncating(c) ==
  LET d == CenteredLift(c) IN
  (IF d < 0 THEN Prime - ((0 - d) \div Scale) ELSE d \div Scale) % Prime

\* The quotient is rounded down.
DecodeMask(c) == (CenteredLift(c) \div Scale) % Prime

H2SMask(src, dst, number) ==
  LET pair == A!ResharePair(src, src.threshold, dst, dst.threshold, number) IN
  [source |-> [i \in DOMAIN pair.source |-> FpTimes(FpFromNat(Scale), pair.source[i])],
   destination |-> pair.destination]

OpenedH2S(ct, key, mask, src) ==
  DecodeMask(A!Reconstruct(src.points,
    [i \in DOMAIN key |-> A!Minus(A!Minus(ct.b, FpTimes(ct.a, key[i])), mask.source[i])]))

H2S(ct, key, mask, src) == A!ApplyDifference(OpenedH2S(ct, key, mask, src), mask.destination)

AuthH2S(ct, key, mask, macMask, alpha, src) ==
  LET d == OpenedH2S(ct, key, mask, src) IN
  [value |-> A!ApplyDifference(d, mask.destination),
   mac |-> [i \in DOMAIN alpha |-> FpPlus(macMask[i], FpTimes(d, alpha[i]))]]

\* Slip: the difference is added without the scale.
ShiftedUnscaled(ct, d) == [ct EXCEPT !.b = FpPlus(@, d)]

\* The ciphertext of the mask becomes that of the value.
Shifted(ct, d) == [ct EXCEPT !.b = FpPlus(@, FpTimes(d, FpFromNat(Scale)))]

S2H(x, mask, src) ==
  Shifted(mask.ciphertext, A!Reconstruct(src.points, A!MaskedDifference(x, mask.source)))

\* The difference of the tags must be the tag of the difference.
MacFits(x, mask, macMask, alpha, src) ==
  LET d == A!Reconstruct(src.points, A!MaskedDifference(x.value, mask.source)) IN
  A!Reconstruct(src.points,
    [i \in DOMAIN alpha |-> A!Minus(A!Minus(x.mac[i], macMask[i]), FpTimes(d, alpha[i]))]) = 0
=============================================================================
