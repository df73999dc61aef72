--------------------------- MODULE SecretSharing ---------------------------
(***************************************************************************)
(* The secret sharing of crypto/src/mpc over any field: shamir.rs,         *)
(* prss.rs, handoff.rs and packed.rs.  A sharing is the sequence of the    *)
(* values of a polynomial at the points of a committee; the random numbers *)
(* an operation draws are arguments.  An operation is defined where the    *)
(* code returns no error; the conditions of that are named May... .        *)
(***************************************************************************)
EXTENDS Integers, Sequences
LOCAL INSTANCE FiniteSetsExt
LOCAL INSTANCE Folds
LOCAL INSTANCE SequencesExt

CONSTANTS Elements, Zero, One, Plus(_, _), Negate(_), Times(_, _), Inverted(_), FromNat(_)

Minus(a, b) == Plus(a, Negate(b))
Divide(a, b) == Times(a, Inverted(b))

SumTo(n, f(_)) ==
  LET sum[i \in 0..n] == IF i = 0 THEN Zero ELSE Plus(sum[i - 1], f(i)) IN sum[n]
ProductTo(n, f(_)) ==
  LET product[i \in 0..n] == IF i = 0 THEN One ELSE Times(product[i - 1], f(i)) IN product[n]
SumOf(S, f(_)) == MapThenFoldSet(Plus, Zero, f, LAMBDA T : CHOOSE x \in T : TRUE, S)

-----------------------------------------------------------------------------
(* shamir.rs *)

MayShare(threshold, n) == threshold > 0 /\ n > threshold

EvaluationPoints(n) == [i \in 1..n |-> FromNat(i)]

Committee(threshold, n) == [threshold |-> threshold, points |-> EvaluationPoints(n)]
Size(c) == Len(c.points)

\* Horner's rule, from the highest coefficient
EvalPoly(coeffs, x) ==
  LET n == Len(coeffs)
      value[i \in 0..n] ==
        IF i = 0 THEN Zero ELSE Plus(Times(value[i - 1], x), coeffs[n + 1 - i])
  IN value[n]

\* The coins are the random coefficients of degree 1 to the threshold.
Split(secret, coins, points) ==
  [i \in DOMAIN points |-> EvalPoly(<<secret>> \o coins, points[i])]

\* The value at x of the Lagrange basis polynomial of points[i]
Lagrange(points, i, x) ==
  ProductTo(Len(points), LAMBDA j :
    IF j = i THEN One ELSE Divide(Minus(x, points[j]), Minus(points[i], points[j])))

InterpolateAt(points, values, x) ==
  SumTo(Len(points), LAMBDA i : Times(Lagrange(points, i, x), values[i]))

MayReconstruct(points, required) ==
  /\ Len(points) >= required
  /\ \A i, j \in DOMAIN points : i # j => points[i] # points[j]

\* All the shares that are given take part, however many are required.
Reconstruct(points, values) == InterpolateAt(points, values, Zero)

HolderBasis(holder, points, x) ==
  ProductTo(Len(points), LAMBDA j :
    IF j \in holder THEN One ELSE Divide(Minus(x, points[j]), Negate(points[j])))

\* combinations: a holder set is an increasing sequence of indices, and the
\* next one moves the last index that can still move.
NextCombination(c, n) ==
  LET k == Len(c)
      movable == {i \in 1..k : c[i] < n - k + i} IN
  IF movable = {} THEN <<>>
  ELSE LET m == Max(movable) IN
       [i \in 1..k |-> IF i < m THEN c[i] ELSE c[m] + 1 + (i - m)]

Combinations(n, k) ==
  LET from[c \in Seq(1..n)] ==
        {{c[i] : i \in 1..k}} \cup
        (LET next == NextCombination(c, n) IN IF next = <<>> THEN {} ELSE from[next])
  IN from[[i \in 1..k |-> i]]

HolderSets(n, degree) == Combinations(n, n - degree)

-----------------------------------------------------------------------------
(* prss.rs: the numbers derived from the seeds of the holder sets are given. *)

\* What the members of each set add up, of degree n - |set|.
PrssShares(points, holders, number) ==
  [i \in DOMAIN points |->
     SumOf({A \in holders : i \in A},
           LAMBDA A : Times(number[A], HolderBasis(A, points, points[i])))]

RandShare(c, number) == PrssShares(c.points, HolderSets(Size(c), c.threshold), number)

MayReshare(src, sourceDegree, dst, destinationDegree) ==
  sourceDegree < Size(src) /\ destinationDegree < Size(dst)

\* A number for each pair of holder sets; the masks share the sum of them all.
ResharePair(src, sourceDegree, dst, destinationDegree, number) ==
  LET holders1 == HolderSets(Size(src), sourceDegree)
      holders2 == HolderSets(Size(dst), destinationDegree)
      row == [A \in holders1 |-> SumOf(holders2, LAMBDA B : number[A, B])]
      col == [B \in holders2 |-> SumOf(holders1, LAMBDA A : number[A, B])]
  IN [source |-> PrssShares(src.points, holders1, row),
      destination |-> PrssShares(dst.points, holders2, col)]

ResharePairDealer(src, dst, r, sourceCoins, destinationCoins) ==
  [source |-> Split(r, sourceCoins, src.points),
   destination |-> Split(r, destinationCoins, dst.points)]

-----------------------------------------------------------------------------
(* handoff.rs *)

MaskedDifference(x, mask) == [i \in DOMAIN x |-> Minus(x[i], mask[i])]

ApplyDifference(delta, mask) == [i \in DOMAIN mask |-> Plus(mask[i], delta)]

BasicHandoff(x, mask, src) ==
  ApplyDifference(Reconstruct(src.points, MaskedDifference(x, mask.source)), mask.destination)

MayMultiply(c) == Size(c) > 2 * c.threshold

\* Slip: the product is opened from as many shares as a sharing has.
MultiplyAndHandoffFew(x, y, mask, src) ==
  LET few == 1..(src.threshold + 1) IN
  ApplyDifference(
    Reconstruct([i \in few |-> src.points[i]],
                [i \in few |-> Minus(Times(x[i], y[i]), mask.source[i])]),
    mask.destination)

MultiplyAndHandoff(x, y, mask, src) ==
  ApplyDifference(
    Reconstruct(src.points, [i \in DOMAIN x |-> Minus(Times(x[i], y[i]), mask.source[i])]),
    mask.destination)

-----------------------------------------------------------------------------
(* packed.rs *)

MayPack(threshold, n, slots) ==
  LET degree == threshold + slots - 1 IN
  /\ threshold > 0 /\ slots > 0
  /\ n > 2 * threshold
  /\ n > 2 * degree
  /\ 2 * slots <= n - 2 * threshold + 1

PackedParams(threshold, n, slots) ==
  LET degree == threshold + slots - 1 IN
  [committee |-> Committee(threshold, n), slots |-> slots,
   tau |-> 2 * degree + 1 - slots,
   packing |-> [j \in 1..slots |-> FromNat(n + j)]]

\* Slip: the polynomial of a slot does not vanish at the others.
GPolyOfEverySlot(p, holder, j, x) ==
  LET points == p.committee.points IN
  ProductTo(Len(points), LAMBDA m :
    IF m \in holder THEN One
    ELSE Divide(Minus(x, points[m]), Minus(p.packing[j], points[m])))

GPoly(p, holder, j, x) ==
  LET points == p.committee.points IN
  Times(Lagrange(p.packing, j, x),
        ProductTo(Len(points), LAMBDA m :
          IF m \in holder THEN One
          ELSE Divide(Minus(x, points[m]), Minus(p.packing[j], points[m]))))

\* A number for each slot and each set of the high degree in one of the low.
PackedPairgen(p, number) ==
  LET n == Size(p.committee)
      holders(d) == HolderSets(n, d)
      shares(d, weight(_, _)) ==
        [i \in 1..n |-> SumOf({A \in holders(d) : i \in A}, LAMBDA A :
           SumTo(p.slots, LAMBDA j : Times(weight(A, j), GPoly(p, A, j, p.committee.points[i]))))]
  IN [low |-> shares(p.committee.threshold, LAMBDA A, j :
                SumOf({B \in holders(p.tau) : B \subseteq A}, LAMBDA B : number[A, B, j])),
      high |-> shares(p.tau, LAMBDA B, j :
                SumOf({A \in holders(p.committee.threshold) : B \subseteq A},
                      LAMBDA A : number[A, B, j]))]

\* The opened vector is the product plus the mask, and the mask is taken off again.
PackedDegreeReduce(x, y, pair, p) ==
  LET points == p.committee.points
      opened == [i \in DOMAIN x |-> Plus(Times(x[i], y[i]), pair.high[i])]
      w == [j \in 1..p.slots |-> InterpolateAt(points, opened, p.packing[j])]
  IN [i \in DOMAIN x |-> Minus(InterpolateAt(p.packing, w, points[i]), pair.low[i])]

PackedSplit(values, p, coins) ==
  [i \in DOMAIN p.committee.points |->
     LET alpha == p.committee.points[i] IN
     Plus(InterpolateAt(p.packing, values, alpha),
          Times(ProductTo(p.slots, LAMBDA j : Minus(alpha, p.packing[j])),
                EvalPoly(coins, alpha)))]

-----------------------------------------------------------------------------
(* What a sharing is: every set of degree + 1 of its members finds the value *)
(* at x, and no matter which.                                                *)
IsSharing(shares, points, degree, x, v) ==
  \A members \in kSubset(degree + 1, DOMAIN points) :
    LET chosen == SetToSortSeq(members, <) IN
    InterpolateAt([i \in DOMAIN chosen |-> points[chosen[i]]],
                  [i \in DOMAIN chosen |-> shares[chosen[i]]], x) = v
=============================================================================
