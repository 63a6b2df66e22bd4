------------------------------- MODULE UnitSum -------------------------------
(***************************************************************************)
(* money-core's wide accumulator (arithmetic/kernel/sum.rs): terms are     *)
(* checked against the money domain as they enter, partial sums live in    *)
(* I256, and the total is narrowed once, on the way out.                   *)
(*                                                                         *)
(* A result is a record [tag, value]: "Ok" with a value, or an AmountError *)
(* with the number it carries (0 for ArithmeticOverflow, which carries     *)
(* none).  A byte string stands for the unsigned number it spells.         *)
(***************************************************************************)
EXTENDS Integers, Sequences, SequencesExt

CONSTANTS
    DomainMax,   \* domain::DOMAIN_MAX
    NarrowMax,   \* i128::MAX
    WideMax      \* I256::MAX

\* The margin domain.rs asserts at compile time: two amounts add up in an i128.
ASSUME DomainAssumption ==
    /\ DomainMax \in Nat /\ NarrowMax \in Nat /\ WideMax \in Nat
    /\ DomainMax + DomainMax =< NarrowMax
    /\ NarrowMax < WideMax

InDomain(u) == -DomainMax =< u /\ u =< DomainMax
Narrow      == (-NarrowMax - 1) .. NarrowMax
Wide        == (-WideMax - 1) .. WideMax
Bytes       == 0 .. (2 * WideMax + 1)

Ok(v)               == [tag |-> "Ok", value |-> v]
OutOfDomain(u)      == [tag |-> "OutOfDomain", value |-> u]
WideOutOfDomain(b)  == [tag |-> "WideOutOfDomain", value |-> b]
ArithmeticOverflow  == [tag |-> "ArithmeticOverflow", value |-> 0]

\* Two's complement, as I256::to_le_bytes and from_le_bytes have it.
ToBytes(a) == IF a < 0 THEN a + 2 * (WideMax + 1) ELSE a

\* Mutant: the sign bit is read as magnitude, clipped to the width.
FromBytesUnsigned(b) == IF b > WideMax THEN WideMax ELSE b

FromBytes(b) == IF b > WideMax THEN b - 2 * (WideMax + 1) ELSE b

\* Mutant: an addition that does not check the width.
UncheckedAdd(a, b) == Ok(a + b)

\* I256::checked_add.
CheckedAdd(a, b) == IF a + b \in Wide THEN Ok(a + b) ELSE ArithmeticOverflow

\* Mutant: the running total is checked instead of the term.
AddUnitsCheckingTotal(acc, u) ==
    IF InDomain(acc + u) THEN CheckedAdd(acc, u) ELSE OutOfDomain(acc + u)

AddUnits(acc, u) == IF InDomain(u) THEN CheckedAdd(acc, u) ELSE OutOfDomain(u)

\* UnitSum::merge.
MergeSums(acc, other) == CheckedAdd(acc, other)

\* Mutant: a total wider than i128 is forgotten on the way out.
FinishSumForgetting(acc) ==
    CASE acc \notin Narrow -> ArithmeticOverflow
      [] InDomain(acc)     -> Ok(acc)
      [] OTHER             -> OutOfDomain(acc)

FinishSum(acc) ==
    CASE acc \notin Narrow -> WideOutOfDomain(ToBytes(acc))
      [] InDomain(acc)     -> Ok(acc)
      [] OTHER             -> OutOfDomain(acc)

\* The sum after each of its terms: the first error ends it.
Sums(terms) ==
    LET sum[n \in 0 .. Len(terms)] ==
            IF n = 0 THEN Ok(0)
            ELSE IF sum[n - 1].tag = "Ok" THEN AddUnits(sum[n - 1].value, terms[n])
            ELSE sum[n - 1]
    IN  sum

\* sum_units over a sequence of terms.
SumUnits(terms) ==
    LET total == Sums(terms)[Len(terms)]
    IN  IF total.tag = "Ok" THEN FinishSum(total.value) ELSE total

=============================================================================
