--------------------------- MODULE SecureMachine ---------------------------
(***************************************************************************)
(* A computation over shared values: the operations of crypto/src/mpc as   *)
(* the simulated nodes of node/src run them, between committees that take  *)
(* over from each other, with the hand-off session of                      *)
(* protocol/src/handoff.rs.  Beside each sharing the machine remembers the *)
(* value it should have; no operation reads it.  Any member may change its *)
(* share of a value, of its tag, or of both (Tamper).                      *)
(***************************************************************************)
EXTENDS SecureGadgets

CONSTANTS
  None,         \* absence of a sharing, a bit, a ciphertext or a session
  Names,        \* of the values
  Committees,   \* the sequence of committees: threshold and members
  Inputs, Coins, Numbers, Checks, Noises,   \* what is entered and drawn
  Changes,      \* what a member adds to its share of a value and of the tag
  MacKey, FheKey,
  CompareBound, \* the largest value the full comparison is asked about
  Bits,         \* the width of the bounded comparison
  SmallBound,   \* the largest plaintext of a ciphertext that is converted
  MaxSteps      \* bound on the operations on entered values

ASSUME MachineAssumption ==
  /\ \A k \in DOMAIN Committees :
       A!MayShare(Committees[k].threshold, Len(Committees[k].members))
  /\ Inputs \subseteq Fp /\ Coins \subseteq Fp /\ Numbers \subseteq Fp /\ Checks \subseteq Fp
  /\ Changes \subseteq (Fp \X Fp) \ {<<0, 0>>}
  /\ MacKey \in Fp \ {0} /\ FheKey \in Fp

VARIABLES
  store,     \* the sharing of each value: its shares, those of its tag, its committee
  plain,     \* what each value should be, and which changes reached its shares
  bit,       \* the sharing of the last comparison and what it should be
  cipher,    \* a public ciphertext, its plaintext and its noise
  session,   \* a hand-off in progress
  steps

vars == <<store, plain, bit, cipher, session, steps>>

ArithmeticForm(k) == A!Committee(Committees[k].threshold, Len(Committees[k].members))
BooleanForm(k) == B!Committee(Committees[k].threshold, Len(Committees[k].members))

Coefficients(coin, degree) == [i \in 1..degree |-> coin]
SharesOf(secret, coin, k) ==
  A!Split(secret, Coefficients(coin, Committees[k].threshold), ArithmeticForm(k).points)

\* The numbers of a correlated mask when only one pair of holder sets has
\* drawn any: every other mask is a sum of such.
NumberOfOnePair(src, degree, dst, r) ==
  LET holders(k, d) == A!HolderSets(Len(Committees[k].members), d)
      pairs == holders(src, degree) \X holders(dst, Committees[dst].threshold)
      one == CHOOSE p \in pairs : TRUE
  IN [p \in pairs |-> IF p = one THEN r ELSE 0]

MasksBetween(src, degree, dst) ==
  {A!ResharePair(ArithmeticForm(src), degree, ArithmeticForm(dst), Committees[dst].threshold,
     NumberOfOnePair(src, degree, dst, r)) : r \in Numbers}

Masks ==
  [src, dst \in DOMAIN Committees |-> MasksBetween(src, Committees[src].threshold, dst)]

DoubledMasks ==
  [src, dst \in DOMAIN Committees |->
     IF A!MayMultiply(ArithmeticForm(src))
     THEN MasksBetween(src, 2 * Committees[src].threshold, dst) ELSE {}]

Opened(shares, k) == A!Reconstruct(ArithmeticForm(k).points, shares)
Held(n) == store[n] # None
Free(n) == ~Held(n) /\ n \notin {s.name : s \in {session} \ {None}}
Tagged(n) == Held(n) /\ store[n].mac # None
Untampered(n) == plain[n].fault = "no"
OfCommittee(k, ns) == \A n \in ns : Held(n) /\ store[n].at = k

Result(value, mac, k) == [value |-> value, mac |-> mac, at |-> k]
Clear(v, fault) == [value |-> v, fault |-> fault]

\* One change that fits no key is "plain"; several, or one that fits, are "joint".
Joined(f, g) == IF f = "no" THEN g ELSE IF g = "no" THEN f ELSE "joint"

Init ==
  /\ store = [n \in Names |-> None]
  /\ plain = [n \in Names |-> Clear(0, "no")]
  /\ bit = None
  /\ cipher = None
  /\ session = None
  /\ steps = 0

Step == steps < MaxSteps /\ steps' = steps + 1

\* n gets a new sharing and the value it should have.
Set(n, sharing, value) ==
  /\ store' = [store EXCEPT ![n] = sharing]
  /\ plain' = [plain EXCEPT ![n] = value]

-----------------------------------------------------------------------------
(* shamir.rs and auth.rs *)

Enter(n, v, coin, k) ==
  /\ Free(n)
  /\ Set(n, Result(SharesOf(v, coin, k), SharesOf(FpTimes(MacKey, v), FpPlus(coin, 1), k), k),
         Clear(v, "no"))
  /\ UNCHANGED <<bit, cipher, session, steps>>

KeyShares(k) == SharesOf(MacKey, 1, k)

\* A tag changed in proportion: to the share of the key that the member itself
\* holds, or to the key.
Fits(change, i, k) ==
  change[2] \in {FpTimes(change[1], KeyShares(k)[i]), FpTimes(change[1], MacKey)}

\* A member changes its share of the value, of the tag, or of both.
Tamper(n, i, change) ==
  /\ Step /\ Held(n) /\ i \in DOMAIN store[n].value
  /\ change[2] # 0 => Tagged(n)
  /\ LET lied == [store[n] EXCEPT !.value[i] = FpPlus(@, change[1])] IN
     Set(n, IF Tagged(n) THEN [lied EXCEPT !.mac[i] = FpPlus(@, change[2])] ELSE lied,
         [plain[n] EXCEPT !.fault =
            Joined(@, IF Fits(change, i, store[n].at) THEN "joint" ELSE "plain")])
  /\ UNCHANGED <<bit, cipher, session>>

AddTo(n, m) ==
  /\ Step /\ n # m /\ Tagged(n) /\ Tagged(m) /\ store[m].at = store[n].at
  /\ LET sum == AuthAdd(store[n], store[m]) IN
     Set(n, Result(sum.value, sum.mac, store[n].at),
         Clear(FpPlus(plain[n].value, plain[m].value), Joined(plain[n].fault, plain[m].fault)))
  /\ UNCHANGED <<bit, cipher, session>>

ScaleBy(n, c) ==
  /\ Step /\ Tagged(n)
  /\ LET scaled == AuthScalarMul(c, store[n]) IN
     Set(n, Result(scaled.value, scaled.mac, store[n].at),
         [plain[n] EXCEPT !.value = FpTimes(c, @)])
  /\ UNCHANGED <<bit, cipher, session>>

AuthenticatedHandoff(n, dst, mask, macMask) ==
  /\ Step /\ Tagged(n)
  /\ LET moved == AuthHandoff(store[n], mask, macMask, ArithmeticForm(store[n].at)) IN
     Set(n, Result(moved.value, moved.mac, dst), plain[n])
  /\ UNCHANGED <<bit, cipher, session>>

\* The tag is that of the product with the factor as it is shared: a change of
\* the factor is not seen in it.
FaultOfProduct(n, m) ==
  IF Untampered(m) THEN plain[n].fault ELSE "joint"

AuthenticatedMultiply(n, m, dst, mask, macMask) ==
  /\ Step /\ n # m /\ Tagged(n) /\ OfCommittee(store[n].at, {m})
  /\ A!MayMultiply(ArithmeticForm(store[n].at))
  /\ LET product ==
           AuthMultiply(store[n], store[m].value, mask, macMask, ArithmeticForm(store[n].at)) IN
     Set(n, Result(product.value, product.mac, dst),
         Clear(FpTimes(plain[n].value, plain[m].value), FaultOfProduct(n, m)))
  /\ UNCHANGED <<bit, cipher, session>>

-----------------------------------------------------------------------------
(* node/src/handoff_runtime.rs over network/src/memory.rs *)

Send(queues, to, message) == [queues EXCEPT ![to] = Append(@, message)]

\* One message to each of the nodes in turn, in a mailbox of its own
SentToAll(nodes, message) ==
  LET sent[i \in 0..Len(nodes)] ==
        IF i = 0 THEN [node \in {nodes[j] : j \in DOMAIN nodes} |-> <<>>]
        ELSE Send(sent[i - 1], nodes[i], message)
  IN sent[Len(nodes)]

Submissions(shares, members) ==
  [i \in DOMAIN shares |-> [sender |-> members[i], index |-> i, share |-> shares[i]]]

MayOpen(submissions, required) ==
  /\ Len(submissions) >= required
  /\ \A i, j \in DOMAIN submissions :
       i # j => submissions[i].sender # submissions[j].sender

Delta(submissions, k) ==
  A!Reconstruct([i \in DOMAIN submissions |-> ArithmeticForm(k).points[submissions[i].index]],
                [i \in DOMAIN submissions |-> submissions[i].share])

\* Every destination node must find the broadcast: it is taken from the
\* mailbox of the node, once.
MayApply(nodes, delta) ==
  LET mailbox == SentToAll(nodes, delta) IN
  \A i \in DOMAIN nodes :
    /\ \A j \in 1..(i - 1) : nodes[j] # nodes[i]
    /\ mailbox[nodes[i]] # <<>>

RunHandoff(n, dst, mask) ==
  LET src == store[n].at
      submissions ==
        Submissions(A!MaskedDifference(store[n].value, mask.source), Committees[src].members)
      delta == Delta(submissions, src)
  IN /\ Step /\ Held(n)
     /\ MayOpen(submissions, Committees[src].threshold + 1)
     /\ MayApply(Committees[dst].members, delta)
     /\ Set(n, Result(A!ApplyDifference(delta, mask.destination), None, dst), plain[n])
     /\ UNCHANGED <<bit, cipher, session>>

RunMult(n, m, dst, mask) ==
  LET src == store[n].at
      submissions ==
        Submissions([i \in DOMAIN store[n].value |->
                       A!Minus(FpTimes(store[n].value[i], store[m].value[i]), mask.source[i])],
                    Committees[src].members)
      delta == Delta(submissions, src)
  IN /\ Step /\ Held(n) /\ OfCommittee(src, {m})
     /\ A!MayMultiply(ArithmeticForm(src))
     /\ MayOpen(submissions, 2 * Committees[src].threshold + 1)
     /\ MayApply(Committees[dst].members, delta)
     /\ Set(n, Result(A!ApplyDifference(delta, mask.destination), None, dst),
            Clear(FpTimes(plain[n].value, plain[m].value),
                  Joined(plain[n].fault, plain[m].fault)))
     /\ UNCHANGED <<bit, cipher, session>>

-----------------------------------------------------------------------------
(* protocol/src/handoff.rs: a session owns its shares until it is finalized. *)

NewSession(n, dst, mask) ==
  /\ Step /\ session = None /\ Held(n)
  /\ session' = [name |-> n, src |-> store[n].at, dst |-> dst, phase |-> "initialized",
                 shares |-> store[n].value, source |-> mask.source,
                 destination |-> mask.destination, delta |-> 0]
  /\ store' = [store EXCEPT ![n] = None]
  /\ UNCHANGED <<plain, bit, cipher>>

Advance(from, next) ==
  /\ session # None /\ session.phase = from
  /\ session' = next
  /\ UNCHANGED <<store, plain, bit, cipher, steps>>

SourceComputeMaskedShares ==
  Advance("initialized",
    [session EXCEPT !.phase = "collecting",
                    !.shares = A!MaskedDifference(session.shares, session.source)])

DealerReconstruct ==
  LET submissions == Submissions(session.shares, Committees[session.src].members) IN
  /\ session # None /\ session.phase = "collecting"
  /\ MayOpen(submissions, Committees[session.src].threshold + 1)
  /\ Advance("collecting",
       [session EXCEPT !.phase = "reconstructed", !.delta = Delta(submissions, session.src)])

DestinationApply ==
  Advance("reconstructed",
    [session EXCEPT !.phase = "output",
                    !.shares = A!ApplyDifference(session.delta, session.destination)])

Finalize ==
  /\ session # None /\ session.phase = "output"
  /\ store' = [store EXCEPT ![session.name] = Result(session.shares, None, session.dst)]
  /\ session' = None
  /\ UNCHANGED <<plain, bit, cipher, steps>>

\* A method called in another phase than its own fails, and takes the session
\* with it: the value is gone.
Misordered ==
  /\ session # None
  /\ session' = None
  /\ UNCHANGED <<store, plain, bit, cipher, steps>>

-----------------------------------------------------------------------------
(* comparison.rs and node/src/comparison_runtime.rs: the committee of the   *)
(* values has an arithmetic and a boolean form, and keeps the results.      *)

DrawsFor ==
  [k \in DOMAIN Committees, r \in Numbers |->
     LET c == ArithmeticForm(k)
         b == BooleanForm(k)
         t == c.threshold
         coin == F2FromNat(r + 1)
     IN [coins |-> Coefficients(r, t), bitCoins |-> Coefficients(coin, t),
         bitMask |-> B!ResharePairDealer(b, b, coin, Coefficients(1, 2 * t), Coefficients(coin, t)),
         mask |-> A!ResharePairDealer(c, c, r, Coefficients(r, 2 * t), Coefficients(1, t)),
         bit |-> r % 2]]

\* The masks of the bit extraction, of the full and of the bounded width
FullPair ==
  [k \in DOMAIN Committees, r \in Numbers |->
     BitExtractPair(r, BitLength, ArithmeticForm(k), BooleanForm(k), DrawsFor[k, r])]
BoundedPair ==
  [k \in DOMAIN Committees, r \in Numbers |->
     BitExtractPair(r % 2^(Bits + 1), Bits + 1, ArithmeticForm(k), BooleanForm(k), DrawsFor[k, r])]

MayCompare(k) ==
  /\ A!MayMultiply(ArithmeticForm(k))
  /\ MayConvert(ArithmeticForm(k), BooleanForm(k))

Bounded(ns, bound) == \A n \in ns : plain[n].value <= bound

FaultsOf(ns) == IF \A n \in ns : Untampered(n) THEN "no" ELSE "joint"

\* The result is a bit of the committee.
SetBit(shares, k, a, b, fault) ==
  bit' = [shares |-> shares, at |-> k, is |-> Clear(IF a >= b THEN 1 ELSE 0, fault)]

Compare(n, m, r) ==
  LET k == store[n].at IN
  /\ Step /\ Held(n) /\ OfCommittee(k, {m}) /\ MayCompare(k)
  /\ Bounded({n, m}, CompareBound)
  /\ SetBit(GreaterThanOrEqual(store[n].value, store[m].value, FullPair[k, r],
              ArithmeticForm(k), BooleanForm(k), DrawsFor[k, r]),
            k, plain[n].value, plain[m].value, FaultsOf({n, m}))
  /\ UNCHANGED <<store, plain, cipher, session>>

CompareBounded(n, m, r) ==
  LET k == store[n].at IN
  /\ Step /\ Held(n) /\ OfCommittee(k, {m}) /\ MayCompare(k)
  /\ Bounded({n, m}, 2^Bits - 1)
  /\ SetBit(GreaterThanOrEqualBounded(store[n].value, store[m].value, Bits,
              BoundedPair[k, r],
              ArithmeticForm(k), BooleanForm(k), DrawsFor[k, r]),
            k, plain[n].value, plain[m].value, FaultsOf({n, m}))
  /\ UNCHANGED <<store, plain, cipher, session>>

\* n becomes n or m as the bit says.
Select(n, m, r) ==
  LET k == store[n].at IN
  /\ Step /\ n # m /\ Held(n) /\ OfCommittee(k, {m}) /\ bit # None /\ bit.at = k /\ MayCompare(k)
  /\ Set(n, Result(ConditionalSelect(bit.shares, store[n].value, store[m].value,
                     RandomBit(DrawsFor[k, r].bit, ArithmeticForm(k), BooleanForm(k),
                               DrawsFor[k, r]),
                     DrawsFor[k, r].mask, ArithmeticForm(k), BooleanForm(k)), None, k),
         Clear(IF bit.is.value = 1 THEN plain[n].value ELSE plain[m].value,
               Joined(FaultsOf({n, m}), bit.is.fault)))
  /\ UNCHANGED <<bit, cipher, session>>

\* The sender and the receiver of a transfer of `amount` above `minimum`.
Move(sender, receiver, minimum, amount, moved, k) ==
  LET go == plain[sender].value > plain[minimum].value
      fault == FaultsOf({sender, receiver, minimum, amount})
      a == plain[amount].value
  IN /\ store' = [store EXCEPT ![sender] = Result(moved.sender, None, k),
                               ![receiver] = Result(moved.receiver, None, k)]
     /\ plain' = [plain EXCEPT
          ![sender] = Clear(IF go THEN A!Minus(@.value, a) ELSE @.value, fault),
          ![receiver] = Clear(IF go THEN FpPlus(@.value, a) ELSE @.value, fault)]
     /\ UNCHANGED <<bit, cipher, session>>

MayMove(sender, receiver, minimum, amount, k) ==
  /\ Step /\ sender # receiver
  /\ OfCommittee(k, {sender, receiver, minimum, amount}) /\ MayCompare(k)

Transfer(sender, receiver, minimum, amount, r) ==
  LET k == store[sender].at IN
  /\ Held(sender) /\ MayMove(sender, receiver, minimum, amount, k)
  /\ Bounded({sender, minimum}, CompareBound)
  /\ Move(sender, receiver, minimum, amount,
       ConditionalTransferStrictlyGreater(store[sender].value, store[receiver].value,
         store[minimum].value, store[amount].value, FullPair[k, r],
         ArithmeticForm(k), BooleanForm(k), DrawsFor[k, r]), k)

TransferNetwork(sender, receiver, minimum, amount, r) ==
  LET k == store[sender].at IN
  /\ Held(sender) /\ MayMove(sender, receiver, minimum, amount, k)
  /\ Bounded({sender, minimum}, 2^Bits - 1)
  /\ Move(sender, receiver, minimum, amount,
       ConditionalTransferNetwork(store[sender].value, store[receiver].value,
         store[minimum].value, store[amount].value, Bits,
         BoundedPair[k, r],
         ArithmeticForm(k), BooleanForm(k), DrawsFor[k, r]), k)

-----------------------------------------------------------------------------
(* conversion.rs: a ciphertext is public; its key is shared. *)

Public(ct, v, noise) == [ct |-> ct, value |-> v, noise |-> noise]

EncryptInput(v, noise) ==
  /\ Step /\ v <= SmallBound
  /\ cipher' = Public(Encrypt(v, FheKey, noise % Prime, 1), v, noise)
  /\ UNCHANGED <<store, plain, bit, session>>

\* decode_mask rounds down, so noise below zero takes one off.
Decoded == IF cipher.noise < 0 THEN A!Minus(cipher.value, 1) ELSE cipher.value

\* The mask is small: its numbers are below the bound of a plaintext.
SmallMasks ==
  [src, dst \in DOMAIN Committees |->
     {H2SMask(ArithmeticForm(src), ArithmeticForm(dst),
        NumberOfOnePair(src, Committees[src].threshold, dst, r)) :
        r \in {x \in Numbers : x <= SmallBound}}]

ToSharing(n, src, dst, mask) ==
  /\ Step /\ Free(n)
  /\ cipher # None /\ cipher.value <= SmallBound
  /\ Set(n, Result(H2S(cipher.ct, SharesOf(FheKey, 2, src), mask, ArithmeticForm(src)), None, dst),
         Clear(Decoded, "no"))
  /\ UNCHANGED <<bit, cipher, session>>

\* The tag of the mask is prepared with it.
ToAuthenticatedSharing(n, src, dst, mask) ==
  /\ Step /\ Free(n)
  /\ cipher # None /\ cipher.value <= SmallBound
  /\ LET shared == AuthH2S(cipher.ct, SharesOf(FheKey, 2, src), mask,
                     SharesOf(FpTimes(MacKey, Opened(mask.destination, dst)), 3, dst),
                     KeyShares(dst), ArithmeticForm(src)) IN
     Set(n, Result(shared.value, shared.mac, dst), Clear(Decoded, "no"))
  /\ UNCHANGED <<bit, cipher, session>>

S2HMask(r, noise, k) ==
  [source |-> SharesOf(r, 2, k), ciphertext |-> Encrypt(r, FheKey, noise % Prime, 1)]

\* What is encrypted is what the shares say.
ToCiphertext(n, r, noise) ==
  LET k == store[n].at IN
  /\ Step /\ Held(n)
  /\ cipher' = Public(S2H(store[n].value, S2HMask(r, noise, k), ArithmeticForm(k)),
                      IF Untampered(n) THEN plain[n].value ELSE Opened(store[n].value, k), noise)
  /\ UNCHANGED <<store, plain, bit, session>>

\* What is encrypted is what the value should be, if the changes are one that fits no key.
AuthenticatedToCiphertext(n, r, noise) ==
  LET k == store[n].at
      mask == S2HMask(r, noise, k)
  IN
  /\ Step /\ Tagged(n)
  /\ MacFits(store[n], mask, SharesOf(FpTimes(MacKey, r), 3, k), KeyShares(k), ArithmeticForm(k))
  /\ cipher' = Public(S2H(store[n].value, mask, ArithmeticForm(k)),
                      IF plain[n].fault = "joint" THEN Opened(store[n].value, k) ELSE plain[n].value,
                      noise)
  /\ UNCHANGED <<store, plain, bit, session>>

-----------------------------------------------------------------------------
Next ==
  \/ \E n \in Names, v \in Inputs, coin \in Coins : Enter(n, v, coin, 1)
  \/ \E n \in Names, change \in Changes : Held(n) /\
       \E i \in DOMAIN store[n].value : Tamper(n, i, change)
  \/ \E n, m \in Names : AddTo(n, m)
  \/ \E n \in Names, c \in Coins : ScaleBy(n, c)
  \/ \E n \in Names, dst \in DOMAIN Committees : Held(n) /\
       \/ \E mask, macMask \in Masks[store[n].at, dst] : AuthenticatedHandoff(n, dst, mask, macMask)
       \/ \E mask \in Masks[store[n].at, dst] : RunHandoff(n, dst, mask)
       \/ \E mask \in Masks[store[n].at, dst] : NewSession(n, dst, mask)
       \/ \E m \in Names, mask, macMask \in DoubledMasks[store[n].at, dst] :
            AuthenticatedMultiply(n, m, dst, mask, macMask)
       \/ \E m \in Names, mask \in DoubledMasks[store[n].at, dst] : RunMult(n, m, dst, mask)
  \/ SourceComputeMaskedShares
  \/ DealerReconstruct
  \/ DestinationApply
  \/ Finalize
  \/ Misordered
  \/ \E n, m \in Names, r \in Numbers : Held(n) /\
       (Compare(n, m, r) \/ CompareBounded(n, m, r) \/ Select(n, m, r))
  \/ \E n, m, l \in Names, r \in Numbers : \E a \in Names \ {l} : Held(n) /\
       (Transfer(n, m, l, a, r) \/ TransferNetwork(n, m, l, a, r))
  \/ \E v \in Inputs, noise \in Noises : EncryptInput(v, noise)
  \/ \E n \in Names, src, dst \in DOMAIN Committees : \E mask \in SmallMasks[src, dst] :
       ToSharing(n, src, dst, mask) \/ ToAuthenticatedSharing(n, src, dst, mask)
  \/ \E n \in Names, r \in Numbers, noise \in Noises : Held(n) /\
       (ToCiphertext(n, r, noise) \/ AuthenticatedToCiphertext(n, r, noise))

Spec == Init /\ [][Next]_vars

-----------------------------------------------------------------------------
(* Whatever committees a value went through, multiplied, converted,         *)
(* selected or moved in a transfer, each threshold + 1 of the members that  *)
(* hold it now find the value it should have, and the key times that value  *)
(* in its tag: the degree never stays at twice the threshold, and source    *)
(* and destination of a hand-off use one mask.                              *)
SharesHoldTheValue ==
  \A n \in Names : Held(n) /\ Untampered(n) =>
    LET c == ArithmeticForm(store[n].at) IN
    /\ A!IsSharing(store[n].value, c.points, c.threshold, 0, plain[n].value)
    /\ Tagged(n) =>
         A!IsSharing(store[n].mac, c.points, c.threshold, 0, FpTimes(MacKey, plain[n].value))

(* The bit of a comparison is shared by the same members and is 1 when the  *)
(* first value is at least the second, for values up to the bounds the      *)
(* comparisons are asked about: no borrow, carry or wrap changes it.        *)
BitIsTheComparison ==
  bit # None /\ bit.is.fault = "no" =>
    LET c == BooleanForm(bit.at) IN
    B!IsSharing(bit.shares, c.points, c.threshold, 0, bit.is.value)

(* verify_mac, run on any value that has a tag and with any mask, accepts a *)
(* value nobody changed; and after one member changed its share of the      *)
(* value, of the tag or of both, what it accepts has the value and the tag  *)
(* it should have, through additions, products and hand-offs.  Left out are *)
(* the changes it cannot find: a tag changed in proportion to the value by  *)
(* the member's share of the key or by the key, several changes, which may  *)
(* fit together, and a changed factor of a product, which enters value and  *)
(* tag alike.  The random factor of the check must not be zero.             *)
CheckFindsFaults ==
  \A n \in Names : Tagged(n) =>
    LET src == store[n].at IN
    \A dst \in DOMAIN Committees :
    \A maskMul \in DoubledMasks[src, dst], maskTag \in Masks[src, dst], check \in Checks \ {0} :
      LET accepted == VerifyMac(store[n], KeyShares(src), maskMul, maskTag,
                        SharesOf(check, 1, dst), ArithmeticForm(src), ArithmeticForm(dst))
      IN /\ Untampered(n) => accepted
         /\ accepted /\ plain[n].fault # "joint" =>
              /\ Opened(store[n].value, src) = plain[n].value
              /\ Opened(store[n].mac, src) = FpTimes(MacKey, plain[n].value)

(* A ciphertext decodes to the plaintext it should have when its noise is   *)
(* not below zero, and to the one below otherwise, when it was made from a  *)
(* sharing too: the decoding floors where the bound stated for the noise,   *)
(* half the scale on both sides, would have it round.  The authenticated    *)
(* conversion lets no single change through that fits no key.               *)
CipherHolds ==
  cipher # None /\ cipher.value <= SmallBound =>
    DecodeMask(A!Minus(cipher.ct.b, FpTimes(cipher.ct.a, FheKey))) = Decoded
=============================================================================
