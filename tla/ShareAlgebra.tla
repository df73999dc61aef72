---------------------------- MODULE ShareAlgebra ----------------------------
(***************************************************************************)
(* The algorithms under the protocols, each asked about one input after    *)
(* the other: the boolean field, the walk through the holder sets, the     *)
(* masks of prss.rs and packed.rs, the bit decomposition and the           *)
(* comparison.                                                             *)
(***************************************************************************)
EXTENDS SecureGadgets
LOCAL INSTANCE FiniteSetsExt

CONSTANTS
  Seats,          \* committees have up to so many members
  Draws,          \* the numbers that are drawn
  CompareBound    \* the largest value the comparison is asked about

VARIABLE question

About(kind, input) == [kind |-> kind, input |-> input]

\* Committees of threshold 1; the mask of the source has degree 1 or 2.
MaskQuestions ==
  {About("mask", <<n, degree, H1, H2, r>>) :
     n \in 3..Seats, degree \in {1, 2}, H1 \in SUBSET (1..Seats), H2 \in kSubset(Seats - 1, 1..Seats),
     r \in Draws}

PackedQuestions ==
  LET p == A!PackedParams(1, 5, 2) IN
  {About("packed", <<H1, H2, j>>) :
     H1 \in A!HolderSets(5, p.committee.threshold), H2 \in A!HolderSets(5, p.tau),
     j \in 1..p.slots}

Questions ==
  {About("field", <<a, b>>) : a, b \in F2}
    \cup {About("walk", <<n, k>>) : n \in 1..Seats, k \in 1..Seats}
    \cup {q \in MaskQuestions : q.input[3] \in A!HolderSets(q.input[1], q.input[2])}
    \cup {q \in PackedQuestions : q.input[2] \subseteq q.input[1]}
    \cup {About("bits", <<x, r>>) : x \in Fp, r \in Draws}
    \cup {About("compare", <<x, y>>) : x, y \in 0..CompareBound}

Init == question = About("start", <<>>)
Next == question.kind = "start" /\ question' \in Questions
Spec == Init /\ [][Next]_question

Asked(kind) == question.kind = kind
In(i) == question.input[i]

-----------------------------------------------------------------------------
\* The product of two polynomials of degree below Width, reduced term by term
PolynomialProduct(a, b) ==
  LET term[k \in 0..Width] == IF k = 0 THEN a ELSE Doubled(term[k - 1])
      sum[k \in 0..Width] ==
        IF k = 0 THEN 0
        ELSE Xor(sum[k - 1], IF BitOf(b, k - 1) = 1 THEN term[k - 1] ELSE 0)
  IN sum[Width]

(* gf2_mul, which stops as soon as a factor has become zero, is commutative *)
(* and distributes over the sum, and a^(2^Width - 2) inverts it: reduction  *)
(* loses no bit, and the polynomial has no factor.                          *)
FieldIsAField ==
  Asked("field") =>
    /\ F2Times(In(1), In(2)) = F2Times(In(2), In(1))
    /\ F2Times(In(1), In(2)) = PolynomialProduct(In(1), In(2))
    /\ \A k \in 0..(Width - 1) :
         F2Times(In(1), Xor(In(2), 2^k)) = Xor(F2Times(In(1), In(2)), F2Times(In(1), 2^k))
    /\ In(1) # 0 => F2Times(In(1), F2Inverse(In(1))) = 1

(* The holder sets that combinations walks through are all the sets of      *)
(* their size, whatever the size: the walk stops only behind the last.      *)
HolderSetsAreAll ==
  Asked("walk") /\ In(2) <= In(1) => A!Combinations(In(1), In(2)) = kSubset(In(2), 1..In(1))

(* The two sharings of a correlated mask share the same number, each with   *)
(* the degree asked for: any degree + 1 members of either committee find    *)
(* the sum of what the pairs of holder sets drew, for a mask of the double  *)
(* degree too.  rand_share is one of the two.                               *)
MasksAgree ==
  Asked("mask") =>
    LET src == A!Committee(1, In(1))
        dst == A!Committee(1, Seats)
        number == [p \in A!HolderSets(In(1), In(2)) \X A!HolderSets(Seats, 1) |->
                     IF p = <<In(3), In(4)>> THEN In(5) ELSE 0]
        mask == A!ResharePair(src, In(2), dst, 1, number)
    IN /\ A!IsSharing(mask.source, src.points, In(2), 0, In(5))
       /\ A!IsSharing(mask.destination, dst.points, 1, 0, In(5))
       /\ In(2) = 1 =>
            A!IsSharing(A!RandShare(src, [H \in A!HolderSets(In(1), 1) |->
                                            IF H = In(3) THEN In(5) ELSE 0]),
                        src.points, 1, 0, In(5))

(* A packed product, reduced, holds the product of the vectors slot by slot *)
(* and has the degree of a fresh packed sharing again, whichever sets drew  *)
(* the numbers of the mask: the masks of the two degrees agree in every     *)
(* slot.                                                                    *)
PackedProducts ==
  Asked("packed") =>
    LET p == A!PackedParams(1, 5, 2)
        degree == p.committee.threshold + p.slots - 1
        x == A!PackedSplit(<<2, 5>>, p, <<3>>)
        y == A!PackedSplit(<<4, 9>>, p, <<8>>)
        low == A!HolderSets(5, p.committee.threshold)
        high == A!HolderSets(5, p.tau)
        pair == A!PackedPairgen(p,
                  [q \in low \X high \X (1..p.slots) |->
                     IF q = <<In(1), In(2), In(3)>> THEN 6 ELSE 0])
        z == A!PackedDegreeReduce(x, y, pair, p)
    IN /\ A!MayPack(1, 5, p.slots)
       /\ A!IsSharing(z, p.committee.points, degree, p.packing[1], FpTimes(2, 4))
       /\ A!IsSharing(z, p.committee.points, degree, p.packing[2], FpTimes(5, 9))

\* Three members, as many as a product needs
FieldCommittee == A!Committee(1, 3)
BitCommittee == B!Committee(1, 3)
DrawsOf(r) ==
  [coins |-> <<r>>, bitCoins |-> <<1 + (r % (2^Width - 1))>>,
   bitMask |-> B!ResharePairDealer(BitCommittee, BitCommittee, r % 2^Width, <<3, 5>>, <<7>>)]

(* The decomposition of a shared value gives a sharing of each of its bits, *)
(* whatever the mask: the sum of the opened difference and the mask is      *)
(* reduced by the modulus exactly when it reaches it.                       *)
BitsAreTheValue ==
  Asked("bits") =>
    LET draws == DrawsOf(In(2))
        shared == A!Split(In(1), <<4>>, FieldCommittee.points)
        pair == BitExtractPair(In(2), BitLength, FieldCommittee, BitCommittee, draws)
        bits == S2B(shared, pair, FieldCommittee, BitCommittee, draws)
    IN \A k \in 1..BitLength :
         B!IsSharing(bits[k], BitCommittee.points, 1, 0, BitOf(In(1), k - 1))

(* greater_than_or_equal is the comparison of the values up to the bound.   *)
ComparisonIsRight ==
  Asked("compare") =>
    LET draws == DrawsOf(6)
        shared(v) == A!Split(v, <<4>>, FieldCommittee.points)
        pair == BitExtractPair(6, BitLength, FieldCommittee, BitCommittee, draws)
        bit == GreaterThanOrEqual(shared(In(1)), shared(In(2)), pair,
                 FieldCommittee, BitCommittee, draws)
    IN B!Reconstruct(BitCommittee.points, bit) = IF In(1) >= In(2) THEN 1 ELSE 0

(* The algorithms that every protocol is built from do what is expected of  *)
(* them, for all inputs of these sizes.                                     *)
AnswersAreRight ==
  /\ FieldIsAField
  /\ HolderSetsAreAll
  /\ MasksAgree
  /\ PackedProducts
  /\ BitsAreTheValue
  /\ ComparisonIsRight
=============================================================================
