----------------------------- MODULE MoneyKernel ------------------------------
(***************************************************************************)
(* money-core's arithmetic on canonical units: the one primitive that      *)
(* rounds, and addition, division, allocation, splitting and conversion    *)
(* built on it.                                                            *)
(*                                                                         *)
(* A result is a record [tag, value] as in UnitSum; the tag Panic stands   *)
(* for an expect or an assert of the code that would fire. The expects     *)
(* that restate what a type holds (a NonZeroU32 is no zero divisor, Money  *)
(* is in its domain) have no counterpart.                                  *)
(***************************************************************************)
EXTENDS UnitSum

CONSTANTS
    Scale,       \* domain::POW10_SCALE
    MaxDivisor,  \* u32::MAX
    CountMax     \* usize::MAX

\* domain.rs derives the bound from the scale; an I256 holds the product of two
\* amounts, and of an amount and a weight. A usize holds a u32 (a split
\* documents the panic on a target where it does not), and an i128 the sum of the
\* longest slice of weights.
ASSUME KernelAssumption ==
    /\ Scale \in Nat \ {0} /\ DomainMax = Scale * Scale - 1
    /\ MaxDivisor \in Nat \ {0} /\ MaxDivisor =< DomainMax
    /\ DomainMax * DomainMax =< WideMax
    /\ Scale * Scale * Scale * Scale =< WideMax + 1
    /\ CountMax \in Nat /\ MaxDivisor =< CountMax /\ CountMax * MaxDivisor =< NarrowMax

Divisors == 1 .. MaxDivisor
Weights  == 0 .. MaxDivisor
Slices   == {w \in Seq(Weights) : Len(w) =< CountMax}

Panic                     == [tag |-> "Panic", value |-> 0]
InvalidWeights(n)         == [tag |-> "InvalidWeights", value |-> n]
NonPositive(u)            == [tag |-> "NonPositive", value |-> u]
MajorScaleOverflow(major) == [tag |-> "MajorScaleOverflow", value |-> major]
ConversionOverflow        == [tag |-> "ConversionOverflow", value |-> 0]

Abs(a)  == IF a < 0 THEN -a ELSE a
Sign(a) == IF a < 0 THEN -1 ELSE IF a > 0 THEN 1 ELSE 0

TryFromUnits(u) == IF InDomain(u) THEN Ok(u) ELSE OutOfDomain(u)

-----------------------------------------------------------------------------
(* Rounding *)

Modes == {"HalfEven", "HalfAwayFromZero", "HalfTowardZero", "TowardZero", "AwayFromZero",
          "Floor", "Ceil"}

\* Integer division as the machine has it: toward zero.
Truncated(num, den) == IF num < 0 THEN -((-num) \div den) ELSE num \div den

\* Mutant: a tie at an even quotient is bumped.
BumpToOdd(q, r, den, mode) ==
    CASE mode = "TowardZero"       -> FALSE
      [] mode = "AwayFromZero"     -> TRUE
      [] mode = "Floor"            -> r < 0
      [] mode = "Ceil"             -> r > 0
      [] mode = "HalfAwayFromZero" -> 2 * Abs(r) >= den
      [] mode = "HalfTowardZero"   -> 2 * Abs(r) > den
      [] mode = "HalfEven"         -> 2 * Abs(r) > den \/ (2 * Abs(r) = den /\ q % 2 = 0)

\* Whether the quotient q with remainder r # 0 moves one away from zero.
Bump(q, r, den, mode) ==
    CASE mode = "TowardZero"       -> FALSE
      [] mode = "AwayFromZero"     -> TRUE
      [] mode = "Floor"            -> r < 0
      [] mode = "Ceil"             -> r > 0
      [] mode = "HalfAwayFromZero" -> 2 * Abs(r) >= den
      [] mode = "HalfTowardZero"   -> 2 * Abs(r) > den
      [] mode = "HalfEven"         -> 2 * Abs(r) > den \/ (2 * Abs(r) = den /\ q % 2 # 0)

\* div_round_i256, on integers: its callers stay far inside I256 (rounding.rs:89-97).
DivRound(num, den, mode) ==
    LET q == Truncated(num, den)
        r == num - q * den
    IN  IF r # 0 /\ Bump(q, r, den, mode)
        THEN [quotient |-> q + Sign(r), residue |-> r - Sign(r) * den]
        ELSE [quotient |-> q, residue |-> r]

-----------------------------------------------------------------------------
(* Addition and division *)

\* add_units and sub_units: None, as a set of at most one, unless both operands
\* and the result are money.
AddRaw(a, b) == IF InDomain(a) /\ InDomain(b) /\ InDomain(a + b) THEN {a + b} ELSE {}
SubRaw(a, b) == IF InDomain(a) /\ InDomain(b) /\ InDomain(a - b) THEN {a - b} ELSE {}

\* An i128 as the wrapping operations leave it.
WrapNarrow(a) == ((a + NarrowMax + 1) % (2 * (NarrowMax + 1))) - NarrowMax - 1

TryAdd(a, b) == IF AddRaw(a, b) # {} THEN Ok(a + b) ELSE OutOfDomain(WrapNarrow(a + b))
TrySub(a, b) == IF SubRaw(a, b) # {} THEN Ok(a - b) ELSE OutOfDomain(WrapNarrow(a - b))

\* Mutant: what fits the width is taken for money.
FromMajorUnchecked(major) ==
    IF major * Scale \in Narrow THEN Ok(major * Scale) ELSE MajorScaleOverflow(major)

\* Money::try_from_major.
TryFromMajor(major) ==
    IF major * Scale \in Narrow THEN TryFromUnits(major * Scale)
                                ELSE MajorScaleOverflow(major)

DivIntUnits(units, n, mode) ==
    LET d == DivRound(units, n, mode) IN
    IF ~InDomain(units) THEN OutOfDomain(units)
    ELSE IF d.quotient \in Narrow /\ d.residue \in Narrow THEN Ok(d)
    ELSE Panic

-----------------------------------------------------------------------------
(* Allocation *)

SumOf(seq) == FoldLeft(+, 0, seq)

Share(units, weight, total) == DivRound(units * weight, total, "TowardZero").quotient

\* Mutant: every position has a claim on the remainder.
ClaimsOfAll(weights) == DOMAIN weights

Claims(weights) == {i \in DOMAIN weights : weights[i] # 0}

\* The claims in front take what truncation left, a unit each.
Distribute(shares, claims, left) ==
    [i \in DOMAIN shares |->
       IF i \in claims /\ Cardinality({j \in claims : j =< i}) =< Abs(left)
       THEN shares[i] + Sign(left) ELSE shares[i]]

\* Panic where a conversion, a checked operation or the assert fails: at a position,
\* while the shares are taken or the remainder is handed out, or in between.
AllocateUnits(units, weights) ==
    LET total   == SumOf(weights)
        shares  == [i \in DOMAIN weights |-> Share(units, weights[i], total)]
        left    == units - SumOf(shares)
        parts   == Distribute(shares, Claims(weights), left)
        After(i) == units - SumOf(SubSeq(shares, 1, i))
        Fails(i) == \/ units * weights[i] \notin Wide \/ shares[i] \notin Narrow
                    \/ After(i) \notin Narrow \/ parts[i] \notin Narrow
    IN  IF ~InDomain(units) THEN OutOfDomain(units)
        ELSE IF total = 0   THEN InvalidWeights(Len(weights))
        ELSE IF \/ total \notin Narrow \/ \E i \in DOMAIN weights : Fails(i)
                \/ Abs(left) > CountMax
                \/ Abs(left) >= Cardinality({i \in DOMAIN weights : weights[i] # 0})
             THEN Panic
        ELSE Ok(parts)

\* Money::allocate.
AllocateMoney(units, weights) ==
    LET parts == AllocateUnits(units, weights) IN
    IF parts.tag = "Ok" /\ \E i \in DOMAIN parts.value : ~InDomain(parts.value[i])
    THEN Panic ELSE parts

\* Money::split: what the iterator hands its parts out by.
Split(units, n) ==
    LET base == Truncated(units, n)
        left == units - base * n
    IN  [base |-> base, step |-> IF left < 0 THEN -1 ELSE 1, extra |-> Abs(left)]

\* SplitParts::next at position k, counted from 0.
PartAt(s, k) == IF k < s.extra THEN s.base + s.step ELSE s.base

\* A split whose iterator is run to its end.
SplitAll(units, n) ==
    LET s     == Split(units, n)
        parts == [k \in 1 .. n |-> PartAt(s, k - 1)]
    IN  IF \/ n > CountMax \/ s.extra > CountMax
           \/ \E k \in 1 .. n : parts[k] \notin Narrow \/ ~InDomain(parts[k])
        THEN Panic ELSE Ok(parts)

-----------------------------------------------------------------------------
(* Rates *)

\* Mutant: a rate is any positive number.
RateUnchecked(u) == IF u =< 0 THEN NonPositive(u) ELSE Ok(u)

\* Rate::try_from_units: the magnitude is looked at before the sign.
TryRate(u) ==
    IF ~InDomain(u) THEN OutOfDomain(u) ELSE IF u =< 0 THEN NonPositive(u) ELSE Ok(u)

Converted(q) == IF q \in Narrow /\ InDomain(q) THEN Ok(q) ELSE ConversionOverflow

Convert(units, rate, mode) ==
    IF units * rate \notin Wide THEN Panic
    ELSE Converted(DivRound(units * rate, Scale, mode).quotient)

\* Mutant: the bridge balance is rounded too.
ConvertThroughBalance(units, first, second, mode) ==
    Converted(DivRound(DivRound(units * first, Scale, mode).quotient * second, Scale,
                       mode).quotient)

ConvertVia(units, first, second, mode) ==
    IF units * first \notin Wide THEN Panic
    ELSE IF units * first * second \notin Wide THEN ConversionOverflow
    ELSE Converted(DivRound(units * first * second, Scale * Scale, mode).quotient)

=============================================================================
