----------------------------- MODULE MoneyProofs ------------------------------
(***************************************************************************)
(* Proofs about the arithmetic of money-core for any domain, widths and    *)
(* scale: every call returns what TypeOK says and none panics, a division, *)
(* an allocation and a conversion are exact, a text is read as the number  *)
(* it spells, what is written in any form is read back, what is shown      *)
(* spells the amount, and no sequence of steps of the ledger makes or      *)
(* loses a unit.                                                           *)
(*                                                                         *)
(* The order: rounding and conversion; sums of sequences; splits;          *)
(* allocations; what calls answer; powers, digits and texts; forms; what a *)
(* text spells; reading on from an accumulator; what is shown; the calls;  *)
(* the ledger.                                                             *)
(***************************************************************************)
EXTENDS MoneyLedger, FiniteSetTheorems, SequenceTheorems, WellFoundedInduction, TLAPS


\* The two integers around num/den.
Around(num, den, below, rest) ==
    below \in Int /\ rest \in Int /\ num = below * den + rest /\ 0 =< rest /\ rest < den

\* Integer division as \div has it: toward minus infinity.
LEMMA Below ==
    ASSUME NEW num \in Int, NEW den \in Nat \ {0}
    PROVE  Around(num, den, num \div den, num - (num \div den) * den)
BY DEF Around

\* The machine truncates: from below, one up if the dividend is negative and the
\* division does not come out.
LEMMA TruncatedIs ==
    ASSUME NEW num \in Int, NEW den \in Nat \ {0}, NEW below, NEW rest,
           Around(num, den, below, rest)
    PROVE  Truncated(num, den) = IF num < 0 /\ rest # 0 THEN below + 1 ELSE below
<1> USE DEF Around, Truncated
<1>1. CASE num >= 0
  BY <1>1
<1>2. CASE num < 0 /\ rest = 0
  <2>1. -num = (-below) * den + 0
    BY <1>2
  <2>2. (-num) \div den = -below
    BY <2>1
  <2>3. QED BY <1>2, <2>2
<1>3. CASE num < 0 /\ rest # 0
  <2>1. -num = (-below - 1) * den + (den - rest)
    BY <1>3
  <2>2. (-num) \div den = -below - 1
    BY <1>3, <2>1
  <2>3. QED BY <1>3, <2>2
<1>4. QED BY <1>1, <1>2, <1>3

\* The quotient is the integer below or the one above, as the mode says.
LEMMA Chosen ==
    ASSUME NEW num \in Int, NEW den \in Nat \ {0}, NEW mode \in Modes
    PROVE  LET d     == DivRound(num, den, mode)
               below == num \div den
           IN  /\ d.quotient = Rounded(num, den, mode)
               /\ \/ d.quotient = below /\ d.residue = num - below * den
                  \/ /\ num - below * den # 0 /\ d.quotient = below + 1
                     /\ d.residue = num - below * den - den
<1> DEFINE below == num \div den
           rest  == num - below * den
           q     == Truncated(num, den)
           r     == num - q * den
           d     == DivRound(num, den, mode)
<1>1. Around(num, den, below, rest)
  BY Below
<1>2. below \in Int /\ rest \in Int /\ 0 =< rest /\ rest < den
  BY <1>1 DEF Around
<1>3. /\ rest = 0 \/ num >= 0 => q = below /\ r = rest
      /\ rest # 0 /\ num < 0 => q = below + 1 /\ r = rest - den
  <2>1. q = IF num < 0 /\ rest # 0 THEN below + 1 ELSE below
    BY <1>1, TruncatedIs
  <2>2. (below + 1) * den = below * den + den
    BY <1>2
  <2> HIDE DEF q
  <2>3. QED BY <1>2, <2>1, <2>2
<1>4. d = IF r # 0 /\ Bump(q, r, den, mode)
          THEN [quotient |-> q + Sign(r), residue |-> r - Sign(r) * den]
          ELSE [quotient |-> q, residue |-> r]
  BY DEF DivRound
<1>5. Rounded(num, den, mode) =
        LET Outer == IF num < 0 THEN below ELSE below + 1
            Inner == IF num < 0 THEN below + 1 ELSE below
        IN  CASE rest = 0             -> below
              [] rest # 0 /\ mode = "Floor"        -> below
              [] rest # 0 /\ mode = "Ceil"         -> below + 1
              [] rest # 0 /\ mode = "TowardZero"   -> Inner
              [] rest # 0 /\ mode = "AwayFromZero" -> Outer
              [] rest # 0 /\ mode \in {"HalfEven", "HalfAwayFromZero", "HalfTowardZero"} ->
                   CASE 2 * rest < den -> below
                     [] 2 * rest > den -> below + 1
                     [] OTHER -> CASE mode = "HalfEven" -> IF below % 2 = 0 THEN below ELSE below + 1
                                   [] mode = "HalfAwayFromZero" -> Outer
                                   [] mode = "HalfTowardZero"   -> Inner
  BY DEF Rounded
<1> SUFFICES /\ d.quotient = Rounded(num, den, mode)
             /\ \/ d.quotient = below /\ d.residue = rest
                \/ rest # 0 /\ d.quotient = below + 1 /\ d.residue = rest - den
  OBVIOUS
<1> HIDE DEF below, rest, q, r, d
<1>6. CASE rest = 0
  BY <1>2, <1>3, <1>4, <1>5, <1>6
<1>7. CASE rest # 0 /\ num >= 0
  <2>1. q = below /\ r = rest /\ Sign(r) = 1 /\ Abs(r) = rest
    BY <1>2, <1>3, <1>7 DEF Sign, Abs
  <2>2. d = IF Bump(below, rest, den, mode)
            THEN [quotient |-> below + 1, residue |-> rest - den]
            ELSE [quotient |-> below, residue |-> rest]
    BY <1>2, <1>4, <1>7, <2>1
  <2>3. Rounded(num, den, mode) = IF Bump(below, rest, den, mode) THEN below + 1 ELSE below
    <3>1. CASE mode = "HalfEven"
      BY <1>2, <1>5, <1>7, <2>1, <3>1 DEF Bump
    <3>2. CASE mode = "HalfAwayFromZero"
      BY <1>2, <1>5, <1>7, <2>1, <3>2 DEF Bump
    <3>3. CASE mode = "HalfTowardZero"
      BY <1>2, <1>5, <1>7, <2>1, <3>3 DEF Bump
    <3>4. CASE mode = "TowardZero"
      BY <1>2, <1>5, <1>7, <2>1, <3>4 DEF Bump
    <3>5. CASE mode = "AwayFromZero"
      BY <1>2, <1>5, <1>7, <2>1, <3>5 DEF Bump
    <3>6. CASE mode = "Floor"
      BY <1>2, <1>5, <1>7, <2>1, <3>6 DEF Bump
    <3>7. CASE mode = "Ceil"
      BY <1>2, <1>5, <1>7, <2>1, <3>7 DEF Bump
    <3>8. QED BY <3>1, <3>2, <3>3, <3>4, <3>5, <3>6, <3>7 DEF Modes
  <2>4. QED BY <1>7, <2>2, <2>3
<1>8. CASE rest # 0 /\ num < 0
  <2>1. q = below + 1 /\ r = rest - den /\ Sign(r) = -1 /\ Abs(r) = den - rest /\ r < 0
    BY <1>2, <1>3, <1>8 DEF Sign, Abs
  <2>2. d = IF Bump(q, r, den, mode)
            THEN [quotient |-> below, residue |-> rest]
            ELSE [quotient |-> below + 1, residue |-> rest - den]
    BY <1>2, <1>4, <1>8, <2>1
  <2>3. Rounded(num, den, mode) = IF Bump(q, r, den, mode) THEN below ELSE below + 1
    <3>1. CASE mode = "HalfEven"
      <4>1. q % 2 # 0 <=> below % 2 = 0
        BY <1>2, <2>1
      <4>2. Bump(q, r, den, mode) <=> 2 * rest < den \/ (2 * rest = den /\ below % 2 = 0)
        BY <1>2, <2>1, <3>1, <4>1 DEF Bump
      <4>3. Rounded(num, den, mode) =
              IF 2 * rest < den THEN below ELSE IF 2 * rest > den THEN below + 1
              ELSE IF below % 2 = 0 THEN below ELSE below + 1
        BY <1>2, <1>5, <1>8, <3>1
      <4>4. QED BY <1>2, <4>2, <4>3
    <3>2. CASE mode = "HalfAwayFromZero"
      BY <1>2, <1>5, <1>8, <2>1, <3>2 DEF Bump
    <3>3. CASE mode = "HalfTowardZero"
      BY <1>2, <1>5, <1>8, <2>1, <3>3 DEF Bump
    <3>4. CASE mode = "TowardZero"
      BY <1>2, <1>5, <1>8, <2>1, <3>4 DEF Bump
    <3>5. CASE mode = "AwayFromZero"
      BY <1>2, <1>5, <1>8, <2>1, <3>5 DEF Bump
    <3>6. CASE mode = "Floor"
      BY <1>2, <1>5, <1>8, <2>1, <3>6 DEF Bump
    <3>7. CASE mode = "Ceil"
      BY <1>2, <1>5, <1>8, <2>1, <3>7 DEF Bump
    <3>8. QED BY <3>1, <3>2, <3>3, <3>4, <3>5, <3>6, <3>7 DEF Modes
  <2>4. QED BY <1>8, <2>2, <2>3
<1>9. QED BY <1>2, <1>6, <1>7, <1>8

\* What div_round_i256 returns for every dividend, divisor and mode.
LEMMA DivRoundExact ==
    ASSUME NEW num \in Int, NEW den \in Nat \ {0}, NEW mode \in Modes
    PROVE  LET d == DivRound(num, den, mode) IN
           /\ d.quotient \in Int /\ d.residue \in Int
           /\ d.quotient = Rounded(num, den, mode)
           /\ d.quotient * den + d.residue = num
           /\ Abs(d.residue) < den
           /\ Abs(d.quotient) =< Abs(num)
<1> DEFINE d     == DivRound(num, den, mode)
           below == num \div den
           rest  == num - below * den
<1>1. below \in Int /\ rest \in Int /\ num = below * den + rest /\ 0 =< rest /\ rest < den
  BY Below DEF Around
<1>2. /\ d.quotient = Rounded(num, den, mode)
      /\ \/ d.quotient = below /\ d.residue = rest
         \/ rest # 0 /\ d.quotient = below + 1 /\ d.residue = rest - den
  BY Chosen
<1> HIDE DEF d, below, rest
<1>3. d.quotient * den + d.residue = num
  BY <1>1, <1>2
<1>4. Abs(d.residue) < den
  BY <1>1, <1>2 DEF Abs
<1>5. Abs(below) =< Abs(num) /\ (rest # 0 => Abs(below + 1) =< Abs(num))
  <2>1. CASE below >= 0
    <3>1. below * den >= below /\ (den >= 2 => below * den >= 2 * below)
      BY <1>1, <2>1
    <3>2. QED BY <1>1, <2>1, <3>1 DEF Abs
  <2>2. CASE below < 0
    <3>1. num < 0 /\ num =< below + 1
      <4>1. (below + 1) * den =< below + 1
        BY <1>1, <2>2
      <4>2. QED BY <1>1, <2>2, <4>1
    <3>2. num =< below \/ rest # 0
      BY <1>1, <2>2
    <3>3. QED BY <1>1, <2>2, <3>1, <3>2 DEF Abs
  <2>3. QED BY <1>1, <2>1, <2>2
<1>6. QED BY <1>1, <1>2, <1>3, <1>4, <1>5 DEF d

-----------------------------------------------------------------------------

\* What bounds an amount, and what an I256 holds.
LEMMA Widths ==
    /\ Scale \in Nat \ {0} /\ Scale * Scale \in Nat \ {0} /\ DomainMax = Scale * Scale - 1
    /\ DomainMax \in Nat /\ NarrowMax \in Nat /\ WideMax \in Nat /\ DomainMax =< NarrowMax
    /\ Divisors \subseteq Nat \ {0} /\ \A n \in Divisors : n =< DomainMax
    /\ DomainMax * DomainMax =< WideMax
    /\ (Scale * Scale) * (Scale * Scale) =< WideMax + 1
<1>1. Scale \in Nat \ {0} /\ DomainMax = Scale * Scale - 1 /\ DomainMax * DomainMax =< WideMax
  BY KernelAssumption
<1>2. DomainMax \in Nat /\ NarrowMax \in Nat /\ WideMax \in Nat /\ DomainMax =< NarrowMax
  BY DomainAssumption
<1>3. Divisors \subseteq Nat \ {0} /\ \A n \in Divisors : n =< DomainMax
  BY <1>2, KernelAssumption DEF Divisors
<1>4. Scale * Scale \in Nat \ {0}
  BY <1>1
<1>5. (Scale * Scale) * (Scale * Scale) = Scale * Scale * Scale * Scale
  BY <1>1
<1>6. QED BY <1>1, <1>2, <1>3, <1>4, <1>5, KernelAssumption

\* A magnitude within the domain, and one within i128.
LEMMA DomainIs ==
    ASSUME NEW u \in Int
    PROVE  /\ InDomain(u) <=> Abs(u) =< DomainMax
           /\ InDomain(u) => u \in Narrow
BY Widths DEF InDomain, Abs, Narrow

\* A division that answers Ok answers what the mode names, exactly.
LEMMA DivisionOk ==
    ASSUME NEW a \in Int, NEW n \in Divisors, NEW mode \in Modes,
           DivIntUnits(a, n, mode).tag = "Ok"
    PROVE  LET v == DivIntUnits(a, n, mode).value IN
           /\ v.quotient = Rounded(a, n, mode)
           /\ v.quotient * n + v.residue = a
           /\ Abs(v.residue) < n
           /\ v.quotient \in Money /\ v.residue \in Money
           /\ InDomain(v.quotient) /\ InDomain(v.residue)
<1> DEFINE d == DivRound(a, n, mode)
<1>1. n \in Nat \ {0} /\ n =< DomainMax /\ DomainMax \in Nat
  BY Widths
<1>2. /\ d.quotient \in Int /\ d.residue \in Int
      /\ d.quotient = Rounded(a, n, mode)
      /\ d.quotient * n + d.residue = a
      /\ Abs(d.residue) < n
      /\ Abs(d.quotient) =< Abs(a)
  BY <1>1, DivRoundExact
<1> HIDE DEF d
<1>3. InDomain(a) /\ DivIntUnits(a, n, mode).value = d
  BY DEF DivIntUnits, OutOfDomain, Ok, Panic, d
<1>4. Abs(a) =< DomainMax /\ Abs(a) \in Int /\ Abs(d.quotient) \in Int /\ Abs(d.residue) \in Int
  BY <1>2, <1>3, DomainIs DEF Abs
<1>5. InDomain(d.quotient) /\ InDomain(d.residue)
  BY <1>1, <1>2, <1>4, DomainIs
<1>6. d.quotient \in Money /\ d.residue \in Money
  BY <1>1, <1>2, <1>5 DEF InDomain, Money
<1>7. QED BY <1>2, <1>3, <1>5, <1>6

\* What a rounded quotient becomes: itself if it is money, or an error.
LEMMA ConvertedIs ==
    ASSUME NEW q \in Int
    PROVE  Converted(q) = IF InDomain(q) THEN Ok(q) ELSE ConversionOverflow
BY DomainIs DEF Converted

\* A product of two amounts fits an I256.
LEMMA ProductFits ==
    ASSUME NEW a \in Money, NEW rate \in 1 .. DomainMax
    PROVE  a * rate \in Wide /\ a * rate \in Int
<1>1. a \in Int /\ rate \in Nat /\ -DomainMax =< a /\ a =< DomainMax /\ rate =< DomainMax
      /\ DomainMax \in Nat /\ WideMax \in Nat
  BY Widths DEF Money
<1>2. -(DomainMax * DomainMax) =< a * rate /\ a * rate =< DomainMax * DomainMax
  <2>1. DomainMax * rate =< DomainMax * DomainMax
    BY <1>1
  <2>2. a * rate =< DomainMax * rate /\ -(DomainMax * rate) =< a * rate
    BY <1>1
  <2>3. QED BY <1>1, <2>1, <2>2
<1>3. QED BY <1>1, <1>2, Widths DEF Wide

\* A product that an I256 does not hold is no money when it is scaled back twice.
LEMMA TooWide ==
    ASSUME NEW num \in Int, num \notin Wide, NEW mode \in Modes
    PROVE  ~InDomain(Rounded(num, Scale * Scale, mode))
<1> DEFINE den   == Scale * Scale
           below == num \div den
           q     == DivRound(num, den, mode).quotient
<1>1. den \in Nat \ {0} /\ DomainMax = den - 1 /\ WideMax \in Nat /\ den * den =< WideMax + 1
  BY Widths
<1>2. q = Rounded(num, den, mode) /\ (q = below \/ q = below + 1)
  BY <1>1, Chosen
<1>3. below \in Int /\ below * den =< num /\ num < below * den + den
  BY <1>1
<1> HIDE DEF den, below, q
<1>4. CASE num > WideMax
  <2>1. num >= den * den
    BY <1>1, <1>4
  <2>2. below >= den
    <3>1. SUFFICES ASSUME below + 1 =< den PROVE FALSE
      BY <1>1, <1>3
    <3>2. (below + 1) * den =< den * den
      BY <1>1, <1>3, <3>1
    <3>3. QED BY <1>1, <1>3, <2>1, <3>2
  <2>3. QED BY <1>1, <1>2, <1>3, <2>2 DEF InDomain, den
<1>5. CASE num < -WideMax - 1
  <2>1. num < -(den * den)
    BY <1>1, <1>5
  <2>2. below < -den
    <3>1. SUFFICES ASSUME below >= -den PROVE FALSE
      BY <1>1, <1>3
    <3>2. below * den >= (-den) * den
      BY <1>1, <1>3, <3>1
    <3>3. (-den) * den = -(den * den)
      BY <1>1
    <3>4. QED BY <1>1, <1>3, <2>1, <3>2, <3>3
  <2>3. QED BY <1>1, <1>2, <1>3, <2>2 DEF InDomain, den
<1>6. QED BY <1>1, <1>4, <1>5 DEF Wide

\* A conversion rounds the exact product once.
LEMMA ConvertOnce ==
    ASSUME NEW a \in Money, NEW rate \in 1 .. DomainMax, NEW mode \in Modes
    PROVE  Convert(a, rate, mode) =
             LET exact == Rounded(a * rate, Scale, mode) IN
             IF InDomain(exact) THEN Ok(exact) ELSE ConversionOverflow
<1>1. a * rate \in Wide /\ a * rate \in Int
  BY ProductFits
<1>2. DivRound(a * rate, Scale, mode).quotient = Rounded(a * rate, Scale, mode)
      /\ Rounded(a * rate, Scale, mode) \in Int
  BY <1>1, Widths, DivRoundExact
<1>3. QED BY <1>1, <1>2, ConvertedIs DEF Convert

\* So does one through a bridge currency, whose product may outgrow an I256.
LEMMA ConvertViaOnce ==
    ASSUME NEW a \in Money, NEW first \in 1 .. DomainMax, NEW second \in 1 .. DomainMax,
           NEW mode \in Modes
    PROVE  ConvertVia(a, first, second, mode) =
             LET exact == Rounded(a * first * second, Scale * Scale, mode) IN
             IF InDomain(exact) THEN Ok(exact) ELSE ConversionOverflow
<1> DEFINE num == a * first * second
<1>1. a * first \in Wide /\ a * first \in Int
  BY ProductFits
<1>2. num \in Int
  BY <1>1
<1>3. DivRound(num, Scale * Scale, mode).quotient = Rounded(num, Scale * Scale, mode)
      /\ Rounded(num, Scale * Scale, mode) \in Int
  <2> HIDE DEF num
  <2>1. QED BY <1>2, Widths, DivRoundExact
<1>4. num \notin Wide => ~InDomain(Rounded(num, Scale * Scale, mode))
  <2> HIDE DEF num
  <2>1. QED BY <1>2, TooWide
<1>5. ConvertVia(a, first, second, mode) =
        IF num \notin Wide THEN ConversionOverflow
        ELSE Converted(DivRound(num, Scale * Scale, mode).quotient)
  BY <1>1 DEF ConvertVia
<1> HIDE DEF num
<1>6. QED BY <1>3, <1>4, <1>5, ConvertedIs DEF num

-----------------------------------------------------------------------------
(* Counting. *)

\* A set of naturals that holds 0 and the successor of each of its members holds
\* them all: the least one missing would have no predecessor.
LEMMA Counting ==
    ASSUME NEW H, 0 \in H, \A n \in Nat : n \in H => n + 1 \in H
    PROVE  \A n \in Nat : n \in H
<1> DEFINE R == {ss \in Nat \X Nat : ss[1] < ss[2]}
<1>1. SUFFICES ASSUME Nat \ H # {} PROVE FALSE
  OBVIOUS
<1>2. IsWellFoundedOn(R, Nat)
  BY NatLessThanWellFounded DEF OpToRel
<1>3. \A x, y \in Nat : y < x => <<y, x>> \in R
  OBVIOUS
<1> HIDE DEF R
<1>4. PICK x \in Nat \ H : \A y \in Nat \ H : ~ (<<y, x>> \in R)
  BY <1>1, <1>2, WFMin
<1>5. x # 0 /\ x - 1 \in Nat /\ x - 1 < x
  OBVIOUS
<1>6. x - 1 \in H
  BY <1>3, <1>4, <1>5
<1>7. QED
  BY <1>4, <1>5, <1>6


\* The greatest of numbers up to k.
LEMMA Greatest ==
    ASSUME NEW k \in Nat, NEW S, S \subseteq 1 .. k, S # {}
    PROVE  Max(S) \in S /\ \A y \in S : y =< Max(S)
<1> DEFINE R == {ss \in Nat \X Nat : ss[1] < ss[2]}
           T == {k - x : x \in S}
<1>1. IsWellFoundedOn(R, Nat)
  BY NatLessThanWellFounded DEF OpToRel
<1>2. \A x, y \in Nat : y < x => <<y, x>> \in R
  OBVIOUS
<1>3. T \subseteq Nat /\ T # {}
  <2>1. \A x \in S : k - x \in Nat
    OBVIOUS
  <2>2. QED BY <2>1
<1>4. PICK t \in T : \A y \in T : ~ (<<y, t>> \in R)
  <2> HIDE DEF R, T
  <2>1. QED BY <1>1, <1>3, WFMin
<1> HIDE DEF R
<1>5. PICK x \in S : t = k - x
  BY <1>4
<1>6. ASSUME NEW y \in S PROVE y =< x
  <2>1. k - y \in T /\ k - y \in Nat /\ t \in Nat
    BY <1>3, <1>4
  <2>2. ~(k - y < t)
    BY <1>2, <1>4, <2>1
  <2>3. QED BY <1>5, <2>2
<1>7. QED BY <1>6 DEF Max

-----------------------------------------------------------------------------
(* Sums of sequences. *)

\* p[n] is the sum of the first n numbers of s.
Partial(s, p) ==
    /\ p \in [0 .. Len(s) -> Int] /\ p[0] = 0
    /\ \A n \in 1 .. Len(s) : p[n] = p[n - 1] + s[n]

\* What the fold that SumOf is solves.
Adds(f, k, s) == f = [S \in SUBSET (1 .. k) |-> IF S = {} THEN 0 ELSE f[S \ {Max(S)}] + s[Max(S)]]

\* The fold is defined.
LEMMA FoldExists ==
    ASSUME NEW s \in Seq(Int) PROVE \E f : Adds(f, Len(s), s)
<1> DEFINE H == {k \in Nat : \E f : Adds(f, k, s)}
<1>1. 0 \in H
  <2>1. Adds([S \in SUBSET (1 .. 0) |-> 0], 0, s)
    <3>1. \A S \in SUBSET (1 .. 0) : S = {}
      OBVIOUS
    <3>2. QED BY <3>1 DEF Adds
  <2>2. QED BY <2>1
<1>2. ASSUME NEW k \in Nat, k \in H PROVE k + 1 \in H
  <2>1. PICK f : Adds(f, k, s)
    BY <1>2
  <2> DEFINE h == [S \in SUBSET (1 .. (k + 1)) |-> IF k + 1 \in S THEN f[S \ {k + 1}] + s[k + 1] ELSE f[S]]
  <2>2. ASSUME NEW S \in SUBSET (1 .. k)
        PROVE  /\ h[S] = f[S]
               /\ f[S] = IF S = {} THEN 0 ELSE f[S \ {Max(S)}] + s[Max(S)]
    <3>1. k + 1 \notin S /\ S \in SUBSET (1 .. (k + 1))
      OBVIOUS
    <3>2. QED BY <2>1, <3>1 DEF Adds
  <2>3. ASSUME NEW S \in SUBSET (1 .. (k + 1))
        PROVE  h[S] = IF S = {} THEN 0 ELSE h[S \ {Max(S)}] + s[Max(S)]
    <3>1. CASE k + 1 \in S
      <4>1. Max(S) = k + 1
        <5>1. k + 1 \in Nat /\ S \subseteq 1 .. (k + 1) /\ S # {}
          BY <3>1
        <5>2. Max(S) \in S /\ \A y \in S : y =< Max(S)
          BY <5>1, Greatest
        <5>3. Max(S) \in 1 .. (k + 1) /\ k + 1 =< Max(S)
          BY <3>1, <5>1, <5>2
        <5> HIDE DEF h
        <5>4. QED BY <5>3
      <4>2. S \ {k + 1} \in SUBSET (1 .. k)
        OBVIOUS
      <4>3. h[S \ {k + 1}] = f[S \ {k + 1}]
        BY <2>2, <4>2
      <4>4. QED BY <3>1, <4>1, <4>3
    <3>2. CASE k + 1 \notin S
      <4>1. S \in SUBSET (1 .. k)
        BY <3>2
      <4>2. S \ {Max(S)} \in SUBSET (1 .. k)
        BY <4>1
      <4>3. h[S] = f[S] /\ h[S \ {Max(S)}] = f[S \ {Max(S)}]
            /\ f[S] = IF S = {} THEN 0 ELSE f[S \ {Max(S)}] + s[Max(S)]
        <5> HIDE DEF h
        <5>1. QED BY <2>2, <4>1, <4>2
      <4> HIDE DEF h
      <4>4. QED BY <4>3
    <3>3. QED BY <3>1, <3>2
  <2>4. Adds(h, k + 1, s)
    BY <2>3 DEF Adds
  <2>5. QED BY <2>4
<1>3. Len(s) \in H
  <2> HIDE DEF H
  <2>1. QED BY <1>1, <1>2, Counting, SMTT(30)
<1>4. QED BY <1>3

\* SumOf is the last of the partial sums.
LEMMA SumIs ==
    ASSUME NEW s \in Seq(Int)
    PROVE  \E p : Partial(s, p) /\ SumOf(s) = p[Len(s)]
<1> DEFINE f == CHOOSE g : Adds(g, Len(s), s)
           p == [n \in 0 .. Len(s) |-> f[1 .. n]]
           H == {n \in Nat : n =< Len(s) => p[n] \in Int}
<1>1. DOMAIN s = 1 .. Len(s) /\ Len(s) \in Nat
  OBVIOUS
<1>2. SumOf(s) = f[1 .. Len(s)]
  BY <1>1 DEF SumOf, FoldLeft, MapThenFoldSet, Adds
<1>3. Adds(f, Len(s), s)
  BY FoldExists
<1> HIDE DEF f
<1>4. p[0] = 0
  BY <1>1, <1>3 DEF Adds
<1>5. ASSUME NEW n \in 1 .. Len(s) PROVE p[n] = p[n - 1] + s[n]
  <2>1. n \in Nat /\ 1 .. n # {} /\ 1 .. n \subseteq 1 .. Len(s)
    <3>1. n \in 1 .. n
      BY <1>1
    <3>2. 1 .. n \subseteq 1 .. Len(s)
      BY <1>1
    <3>3. n \in Nat
      OBVIOUS
    <3>4. QED BY <3>1, <3>2, <3>3
  <2>2. Max(1 .. n) = n
    <3>1. Max(1 .. n) \in 1 .. n /\ \A y \in 1 .. n : y =< Max(1 .. n)
      BY <2>1, Greatest
    <3>2. QED BY <3>1
  <2>3. (1 .. n) \ {n} = 1 .. (n - 1)
    BY <2>1
  <2>4. f[1 .. n] = f[(1 .. n) \ {n}] + s[n]
    BY <1>3, <2>1, <2>2 DEF Adds
  <2>5. QED BY <1>1, <2>3, <2>4
<1>6. p[Len(s)] = f[1 .. Len(s)]
  BY <1>1
<1>7. p = [n \in 0 .. Len(s) |-> p[n]]
  OBVIOUS
<1> HIDE DEF p
<1>8. 0 \in H
  BY <1>4
<1>9. ASSUME NEW n \in Nat, n \in H PROVE n + 1 \in H
  BY <1>1, <1>5, <1>9
<1>10. \A n \in 0 .. Len(s) : p[n] \in Int
  <2> HIDE DEF H
  <2>1. \A n \in Nat : n \in H
    BY <1>8, <1>9, Counting
  <2>2. QED BY <1>1, <2>1 DEF H
<1>11. QED BY <1>2, <1>4, <1>5, <1>6, <1>7, <1>10 DEF Partial

\* There is but one sequence of partial sums.
LEMMA PartialUnique ==
    ASSUME NEW s \in Seq(Int), NEW p, NEW q, Partial(s, p), Partial(s, q)
    PROVE  \A n \in 0 .. Len(s) : p[n] = q[n]
<1> DEFINE H == {n \in Nat : n =< Len(s) => p[n] = q[n]}
<1>1. 0 \in H
  BY DEF Partial
<1>2. ASSUME NEW n \in Nat, n \in H PROVE n + 1 \in H
  BY <1>2 DEF Partial
<1>3. \A n \in Nat : n \in H
  <2> HIDE DEF H
  <2>1. QED BY <1>1, <1>2, Counting
<1>4. QED BY <1>3

\* The sum of a sequence is the last of its partial sums, whichever way these are given.
LEMMA SumFrom ==
    ASSUME NEW s \in Seq(Int), NEW p, Partial(s, p)
    PROVE  SumOf(s) = p[Len(s)] /\ SumOf(s) \in Int
<1>1. PICK q : Partial(s, q) /\ SumOf(s) = q[Len(s)]
  BY SumIs
<1>2. q[Len(s)] = p[Len(s)]
  BY <1>1, PartialUnique
<1>3. QED BY <1>1, <1>2 DEF Partial

\* The empty sequence sums to nothing.
LEMMA SumEmpty == SumOf(<<>>) = 0
<1>1. <<>> \in Seq(Int) /\ Len(<<>>) = 0
  OBVIOUS
<1>2. PICK p : Partial(<<>>, p) /\ SumOf(<<>>) = p[Len(<<>>)]
  BY <1>1, SumIs
<1>3. QED BY <1>1, <1>2 DEF Partial

\* Sums add up over concatenation.
LEMMA SumConcat ==
    ASSUME NEW s \in Seq(Int), NEW t \in Seq(Int)
    PROVE  s \o t \in Seq(Int) /\ SumOf(s \o t) = SumOf(s) + SumOf(t)
<1>1. PICK p : Partial(s, p) /\ SumOf(s) = p[Len(s)]
  BY SumIs
<1>2. PICK q : Partial(t, q) /\ SumOf(t) = q[Len(t)]
  BY SumIs
<1> DEFINE st == s \o t
           m == Len(s)
           k == Len(t)
           r == [n \in 0 .. m + k |-> IF n =< m THEN p[n] ELSE p[m] + q[n - m]]
<1>3. /\ st \in Seq(Int) /\ Len(st) = m + k /\ m \in Nat /\ k \in Nat
      /\ \A i \in 1 .. m + k : st[i] = IF i =< m THEN s[i] ELSE t[i - m]
  BY ConcatProperties
<1>4. /\ p \in [0 .. m -> Int] /\ p[0] = 0 /\ \A n \in 1 .. m : p[n] = p[n - 1] + s[n]
      /\ q \in [0 .. k -> Int] /\ q[0] = 0 /\ \A n \in 1 .. k : q[n] = q[n - 1] + t[n]
  BY <1>1, <1>2 DEF Partial
<1> HIDE DEF st, m, k
<1>5. /\ \A n \in 0 .. m : p[n] \in Int
      /\ \A n \in 0 .. k : q[n] \in Int
      /\ \A n \in 1 .. k : t[n] \in Int
      /\ \A n \in 1 .. m : s[n] \in Int
  <2>1. /\ \A n \in 0 .. m : p[n] \in Int
        /\ \A n \in 0 .. k : q[n] \in Int
    BY <1>4
  <2>2. \A n \in 1 .. k : t[n] \in Int
    BY DEF k
  <2>3. \A n \in 1 .. m : s[n] \in Int
    BY DEF m
  <2>4. QED BY <2>1, <2>2, <2>3
<1>6. \A n \in 0 .. m + k : r[n] = IF n =< m THEN p[n] ELSE p[m] + q[n - m]
  OBVIOUS
<1>7. r = [n \in 0 .. m + k |-> r[n]]
  OBVIOUS
<1> HIDE DEF r
<1>8. p[m] \in Int
  BY <1>3, <1>5
<1>9. r \in [0 .. m + k -> Int] /\ r[0] = 0
  <2>1. ASSUME NEW n \in 0 .. m + k PROVE r[n] \in Int
    <3>1. CASE n =< m
      <4>1. n \in 0 .. m
        BY <1>3, <3>1
      <4>2. QED BY <1>5, <1>6, <3>1, <4>1
    <3>2. CASE n > m
      <4>1. n - m \in 0 .. k
        BY <1>3, <3>2
      <4>2. r[n] = p[m] + q[n - m] /\ q[n - m] \in Int
        BY <1>3, <1>5, <1>6, <3>2, <4>1
      <4>3. QED BY <1>8, <4>2
    <3>3. QED BY <1>3, <3>1, <3>2
  <2>2. r[0] = 0
    BY <1>3, <1>4, <1>6
  <2>3. QED BY <1>7, <2>1, <2>2
<1>10. ASSUME NEW n \in 1 .. m + k PROVE r[n] = r[n - 1] + st[n]
  <2>1. CASE n =< m
    <3>1. n \in 1 .. m /\ n - 1 \in 0 .. m + k /\ n - 1 =< m
      BY <1>3, <2>1
    <3>2. r[n] = p[n] /\ r[n - 1] = p[n - 1] /\ st[n] = s[n]
      BY <1>3, <1>6, <2>1, <3>1
    <3>3. QED BY <1>4, <3>1, <3>2
  <2>2. CASE n = m + 1
    <3>1. n - 1 = m /\ n - m = 1 /\ 1 \in 1 .. k /\ m \in 0 .. m + k /\ ~(n =< m)
      BY <1>3, <2>2
    <3>2. r[n] = p[m] + q[1] /\ r[n - 1] = p[m] /\ st[n] = t[1]
      BY <1>3, <1>6, <3>1
    <3>3. q[1] = q[0] + t[1] /\ t[1] \in Int
      BY <1>4, <1>5, <3>1
    <3>4. QED BY <1>4, <1>8, <3>2, <3>3
  <2>3. CASE n > m + 1
    <3>1. n - m \in 1 .. k /\ n - 1 \in 0 .. m + k /\ n - 1 - m = n - m - 1
      BY <1>3, <2>3
    <3>2. r[n] = p[m] + q[n - m] /\ r[n - 1] = p[m] + q[n - m - 1] /\ st[n] = t[n - m]
      BY <1>3, <1>6, <2>3, <3>1
    <3>3. q[n - m] = q[n - m - 1] + t[n - m]
      BY <1>4, <3>1
    <3>4. t[n - m] \in Int /\ q[n - m - 1] \in Int
      BY <1>3, <1>5, <3>1
    <3>5. QED BY <1>8, <3>2, <3>3, <3>4
  <2>4. QED BY <1>3, <2>1, <2>2, <2>3
<1>11. Partial(st, r)
  BY <1>3, <1>9, <1>10 DEF Partial
<1>12. SumOf(st) = r[m + k]
  BY <1>3, <1>11, SumFrom
<1>13. r[m + k] = p[m] + q[k]
  <2>1. CASE k = 0
    <3>1. m + k = m /\ m \in 0 .. m + k /\ q[k] = 0
      BY <1>3, <1>4, <2>1
    <3>2. QED BY <1>3, <1>6, <1>8, <3>1
  <2>2. CASE k > 0
    <3>1. m + k \in 0 .. m + k /\ ~(m + k =< m) /\ m + k - m = k
      BY <1>3, <2>2
    <3>2. PICK n \in 0 .. m + k : n = m + k /\ ~(n =< m) /\ n - m = k
      BY <1>3, <3>1
    <3>3. r[n] = p[m] + q[n - m]
      BY <1>6, <3>2
    <3>4. QED BY <3>2, <3>3
  <2>3. QED BY <1>3, <2>1, <2>2
<1>14. QED BY <1>1, <1>2, <1>3, <1>12, <1>13 DEF st, m, k

\* An element appended adds itself.
LEMMA SumAppend ==
    ASSUME NEW s \in Seq(Int), NEW e \in Int
    PROVE  Append(s, e) \in Seq(Int) /\ SumOf(Append(s, e)) = SumOf(s) + e /\ SumOf(<<e>>) = e
<1>1. <<e>> \in Seq(Int) /\ Len(<<e>>) = 1 /\ <<e>>[1] = e
  OBVIOUS
<1>2. PICK p : Partial(<<e>>, p) /\ SumOf(<<e>>) = p[Len(<<e>>)]
  BY <1>1, SumIs
<1>3. SumOf(<<e>>) = e
  <2>1. p[0] = 0 /\ p[1] = p[1 - 1] + <<e>>[1]
    BY <1>1, <1>2 DEF Partial
  <2>2. QED BY <1>1, <1>2, <2>1
<1>4. Append(s, e) = s \o <<e>>
  BY AppendIsConcat
<1>5. QED BY <1>1, <1>3, <1>4, SumConcat

\* An element replaced takes its value out and brings its new one in.
LEMMA SumExcept ==
    ASSUME NEW s \in Seq(Int), NEW i \in 1 .. Len(s), NEW e \in Int
    PROVE  /\ [s EXCEPT ![i] = e] \in Seq(Int)
           /\ SumOf([s EXCEPT ![i] = e]) = SumOf(s) - s[i] + e
<1>1. PICK p : Partial(s, p) /\ SumOf(s) = p[Len(s)]
  BY SumIs
<1> DEFINE m == Len(s)
           t == [s EXCEPT ![i] = e]
           r == [n \in 0 .. m |-> IF n < i THEN p[n] ELSE p[n] - s[i] + e]
<1>2. /\ t \in Seq(Int) /\ Len(t) = m /\ m \in Nat /\ s[i] \in Int
      /\ \A j \in 1 .. m : t[j] = (IF j = i THEN e ELSE s[j]) /\ s[j] \in Int
  BY ExceptSeq
<1>3. p \in [0 .. m -> Int] /\ p[0] = 0 /\ \A n \in 1 .. m : p[n] = p[n - 1] + s[n]
  BY <1>1 DEF Partial
<1>4. i \in 1 .. m
  OBVIOUS
<1> HIDE DEF t, m
<1>5. /\ \A n \in 0 .. m : r[n] = IF n < i THEN p[n] ELSE p[n] - s[i] + e
      /\ r = [n \in 0 .. m |-> r[n]]
  OBVIOUS
<1>6. \A n \in 0 .. m : p[n] \in Int
  BY <1>3
<1> HIDE DEF r
<1>7. r \in [0 .. m -> Int] /\ r[0] = 0
  <2>1. ASSUME NEW n \in 0 .. m PROVE r[n] \in Int
    <3>1. p[n] \in Int /\ s[i] \in Int
      BY <1>2, <1>6
    <3>2. p[n] - s[i] + e \in Int
      BY <3>1
    <3>3. r[n] = IF n < i THEN p[n] ELSE p[n] - s[i] + e
      BY <1>5
    <3>4. QED BY <3>1, <3>2, <3>3
  <2>2. 0 \in 0 .. m /\ 0 < i
    BY <1>2, <1>4
  <2>3. QED BY <1>3, <1>5, <2>1, <2>2
<1>8. ASSUME NEW n \in 1 .. m PROVE r[n] = r[n - 1] + t[n]
  <2>1. /\ n \in 0 .. m /\ n - 1 \in 0 .. m /\ n \in Int /\ i \in Int
        /\ p[n] = p[n - 1] + s[n] /\ p[n - 1] \in Int /\ s[n] \in Int /\ s[i] \in Int
    <3>1. n \in 0 .. m /\ n - 1 \in 0 .. m /\ n \in Int /\ i \in Int
      BY <1>2, <1>4
    <3>2. s[n] \in Int /\ s[i] \in Int
      BY <1>2
    <3>3. QED BY <1>3, <1>6, <3>1, <3>2
  <2>2. CASE n < i
    <3>1. n - 1 < i /\ n # i
      BY <2>1, <2>2
    <3>2. r[n] = p[n] /\ r[n - 1] = p[n - 1] /\ t[n] = s[n]
      BY <1>2, <1>5, <2>1, <2>2, <3>1
    <3>3. QED BY <2>1, <3>2
  <2>3. CASE n = i
    <3>1. r[n] = p[n] - s[i] + e /\ r[n - 1] = p[n - 1] /\ t[n] = e
      BY <1>2, <1>5, <2>1, <2>3
    <3>2. QED BY <2>1, <2>3, <3>1
  <2>4. CASE n > i
    <3>1. r[n] = p[n] - s[i] + e /\ r[n - 1] = p[n - 1] - s[i] + e /\ t[n] = s[n]
      BY <1>2, <1>5, <2>1, <2>4
    <3>2. QED BY <2>1, <3>1
  <2>5. QED BY <1>2, <1>4, <2>2, <2>3, <2>4
<1>9. Partial(t, r)
  BY <1>2, <1>7, <1>8 DEF Partial
<1>10. SumOf(t) = r[m]
  BY <1>2, <1>9, SumFrom
<1>11. r[m] = p[m] - s[i] + e
  <2>1. m \in 0 .. m /\ ~(m < i)
    BY <1>2, <1>4
  <2>2. QED BY <1>5, <2>1
<1>12. QED BY <1>1, <1>2, <1>10, <1>11 DEF t, m

\* The elements but one.
LEMMA Removed ==
    ASSUME NEW S, NEW s \in Seq(S), NEW i \in 1 .. Len(s)
    PROVE  /\ RemoveAt(s, i) \in Seq(S) /\ Len(RemoveAt(s, i)) = Len(s) - 1
           /\ \A j \in 1 .. Len(s) - 1 : RemoveAt(s, i)[j] = IF j < i THEN s[j] ELSE s[j + 1]
<1> DEFINE a == SubSeq(s, 1, i - 1)
           b == SubSeq(s, i + 1, Len(s))
<1>1. \A j \in 1 .. Len(s) : s[j] \in S
  OBVIOUS
<1>2. Len(s) \in Nat /\ i - 1 \in Nat /\ i - 1 < Len(s)
  OBVIOUS
<1>3. a \in Seq(S) /\ Len(a) = i - 1 /\ \A j \in 1 .. i - 1 : a[j] = s[j]
  <2>1. \A j \in 1 .. i - 1 : s[j] \in S
    BY <1>1, <1>2
  <2>2. /\ a \in Seq(S)
        /\ Len(a) = IF 1 =< i - 1 THEN i - 1 - 1 + 1 ELSE 0
        /\ \A j \in 1 .. i - 1 - 1 + 1 : a[j] = s[1 + j - 1]
    BY <1>2, <2>1, SubSeqProperties
  <2> HIDE DEF a
  <2>3. QED BY <1>2, <2>2
<1>4. b \in Seq(S) /\ Len(b) = Len(s) - i /\ \A j \in 1 .. Len(s) - i : b[j] = s[j + i]
  <2>1. \A j \in i + 1 .. Len(s) : s[j] \in S
    BY <1>1, <1>2
  <2>2. /\ b \in Seq(S)
        /\ Len(b) = IF i + 1 =< Len(s) THEN Len(s) - (i + 1) + 1 ELSE 0
        /\ \A j \in 1 .. Len(s) - (i + 1) + 1 : b[j] = s[(i + 1) + j - 1]
    BY <1>2, <2>1, SubSeqProperties
  <2> HIDE DEF b
  <2>3. QED BY <1>2, <2>2
<1>5. RemoveAt(s, i) = a \o b
  BY DEF RemoveAt
<1> HIDE DEF a, b
<1>6. /\ a \o b \in Seq(S) /\ Len(a \o b) = Len(a) + Len(b)
      /\ \A j \in 1 .. Len(a) + Len(b) : (a \o b)[j] = IF j <= Len(a) THEN a[j] ELSE b[j - Len(a)]
  BY <1>3, <1>4, ConcatProperties
<1>7. i - 1 + (Len(s) - i) = Len(s) - 1
  BY <1>2
<1>8. Len(a) = i - 1 /\ Len(a) + Len(b) = Len(s) - 1
  BY <1>3, <1>4, <1>7
<1>9. ASSUME NEW j \in 1 .. Len(s) - 1 PROVE (a \o b)[j] = IF j < i THEN s[j] ELSE s[j + 1]
  <2>1. (a \o b)[j] = IF j <= i - 1 THEN a[j] ELSE b[j - (i - 1)]
    BY <1>6, <1>8
  <2>2. CASE j < i
    <3>1. j <= i - 1 /\ j \in 1 .. i - 1
      BY <1>2, <2>2
    <3>2. QED BY <1>3, <2>1, <2>2, <3>1
  <2>3. CASE ~(j < i)
    <3>1. ~(j <= i - 1) /\ j - (i - 1) \in 1 .. Len(s) - i /\ j - (i - 1) + i = j + 1
      BY <1>2, <2>3
    <3>2. b[j - (i - 1)] = s[j - (i - 1) + i]
      BY <1>4, <3>1
    <3>3. QED BY <2>1, <2>3, <3>1, <3>2
  <2>4. QED BY <2>2, <2>3
<1>10. Len(a \o b) = Len(s) - 1
  BY <1>6, <1>8
<1>11. QED BY <1>5, <1>6, <1>9, <1>10

\* An element removed takes its value out.
LEMMA SumRemoved ==
    ASSUME NEW s \in Seq(Int), NEW i \in 1 .. Len(s)
    PROVE  SumOf(RemoveAt(s, i)) = SumOf(s) - s[i]
<1>1. PICK p : Partial(s, p) /\ SumOf(s) = p[Len(s)]
  BY SumIs
<1> DEFINE m == Len(s)
           t == RemoveAt(s, i)
           r == [n \in 0 .. m - 1 |-> IF n < i THEN p[n] ELSE p[n + 1] - s[i]]
<1>2. /\ t \in Seq(Int) /\ Len(t) = m - 1 /\ m \in Nat /\ \A j \in 1 .. m : s[j] \in Int
      /\ \A j \in 1 .. m - 1 : t[j] = IF j < i THEN s[j] ELSE s[j + 1]
  BY Removed
<1>3. p \in [0 .. m -> Int] /\ p[0] = 0 /\ \A n \in 1 .. m : p[n] = p[n - 1] + s[n]
  BY <1>1 DEF Partial
<1>4. i \in 1 .. m
  OBVIOUS
<1> HIDE DEF t, m
<1>5. /\ \A n \in 0 .. m - 1 : r[n] = IF n < i THEN p[n] ELSE p[n + 1] - s[i]
      /\ r = [n \in 0 .. m - 1 |-> r[n]]
  OBVIOUS
<1>6. \A n \in 0 .. m : p[n] \in Int
  BY <1>3
<1> HIDE DEF r
<1>7. r \in [0 .. m - 1 -> Int] /\ r[0] = 0
  <2>1. \A n \in 0 .. m - 1 : n \in 0 .. m /\ n + 1 \in 0 .. m
    BY <1>2
  <2>2. s[i] \in Int
    BY <1>2, <1>4
  <2>3. ASSUME NEW n \in 0 .. m - 1 PROVE r[n] \in Int
    <3>1. p[n] \in Int /\ p[n + 1] \in Int
      BY <1>6, <2>1
    <3>2. p[n + 1] - s[i] \in Int
      BY <2>2, <3>1
    <3>3. r[n] = IF n < i THEN p[n] ELSE p[n + 1] - s[i]
      BY <1>5
    <3>4. QED BY <3>1, <3>2, <3>3
  <2>4. 0 \in 0 .. m - 1 /\ 0 < i
    BY <1>2, <1>4
  <2>5. QED BY <1>3, <1>5, <2>3, <2>4
<1>8. ASSUME NEW n \in 1 .. m - 1 PROVE r[n] = r[n - 1] + t[n]
  <2>1. p[n - 1] \in Int /\ p[n] \in Int /\ p[n + 1] \in Int /\ s[n] \in Int /\ s[n + 1] \in Int
        /\ s[i] \in Int /\ p[n] = p[n - 1] + s[n] /\ p[n + 1] = p[n] + s[n + 1]
    <3>1. n \in 1 .. m /\ n + 1 \in 1 .. m /\ n - 1 \in 0 .. m /\ n \in 0 .. m /\ n + 1 \in 0 .. m
      BY <1>2
    <3>2. n + 1 - 1 = n
      OBVIOUS
    <3>3. p[n] = p[n - 1] + s[n] /\ p[n + 1] = p[n + 1 - 1] + s[n + 1]
      BY <1>3, <3>1
    <3>4. QED BY <1>2, <1>4, <1>6, <3>1, <3>2, <3>3
  <2>2. n \in 0 .. m - 1 /\ n - 1 \in 0 .. m - 1 /\ n - 1 + 1 = n /\ n \in Int /\ i \in Int
    BY <1>2, <1>4
  <2>3. CASE n < i
    <3>1. r[n] = p[n]
      BY <1>5, <2>2, <2>3
    <3>2. n - 1 < i
      BY <2>2, <2>3
    <3>3. r[n - 1] = p[n - 1]
      BY <1>5, <2>2, <3>2
    <3>4. t[n] = s[n]
      BY <1>2, <2>3
    <3>5. QED BY <2>1, <3>1, <3>3, <3>4
  <2>4. CASE n >= i
    <3>1. r[n] = p[n + 1] - s[i] /\ t[n] = s[n + 1]
      <4>1. ~(n < i)
        BY <2>2, <2>4
      <4>2. QED BY <1>2, <1>5, <2>2, <4>1
    <3>2. r[n - 1] = p[n] - s[i]
      <4>1. CASE n = i
        <5>1. r[n - 1] = p[n - 1]
          BY <1>5, <2>2, <4>1
        <5>2. QED BY <2>1, <4>1, <5>1
      <4>2. CASE n # i
        <5>1. ~(n - 1 < i)
          BY <2>2, <2>4, <4>2
        <5>2. r[n - 1] = p[n - 1 + 1] - s[i]
          BY <1>5, <2>2, <5>1
        <5>3. QED BY <2>2, <5>2
      <4>3. QED BY <4>1, <4>2
    <3>3. QED BY <2>1, <3>1, <3>2, SMTT(30)
  <2>5. QED BY <2>3, <2>4, <2>2
<1>9. Partial(t, r)
  BY <1>2, <1>7, <1>8 DEF Partial
<1>10. SumOf(t) = r[m - 1]
  BY <1>2, <1>9, SumFrom
<1>11. r[m - 1] = p[m] - s[i]
  <2>1. m - 1 \in 0 .. m - 1 /\ m \in 1 .. m /\ m - 1 + 1 = m
    BY <1>2, <1>4
  <2>2. CASE i = m
    <3>1. r[m - 1] = p[m - 1] /\ p[m] = p[m - 1] + s[m]
      BY <1>2, <1>3, <1>5, <2>1, <2>2
    <3>2. p[m - 1] \in Int /\ s[m] \in Int
      BY <1>2, <1>6, <2>1
    <3>3. QED BY <2>2, <3>1, <3>2
  <2>3. CASE i < m
    <3>1. ~(m - 1 < i)
      BY <1>2, <1>4, <2>3
    <3>2. r[m - 1] = p[m - 1 + 1] - s[i]
      BY <1>5, <2>1, <3>1
    <3>3. QED BY <2>1, <3>2
  <2>4. QED BY <1>2, <1>4, <2>2, <2>3
<1>12. QED BY <1>1, <1>10, <1>11 DEF t, m

\* A number as often as it is asked for.
LEMMA SumConstant ==
    ASSUME NEW n \in Nat, NEW q \in Int
    PROVE  /\ [j \in 1 .. n |-> q] \in Seq(Int)
           /\ SumOf([j \in 1 .. n |-> q]) = q * n
<1> DEFINE s == [j \in 1 .. n |-> q]
           r == [k \in 0 .. n |-> q * k]
<1>1. s \in Seq(Int) /\ Len(s) = n /\ \A j \in 1 .. n : s[j] = q
  OBVIOUS
<1> HIDE DEF s
<1>2. r \in [0 .. n -> Int] /\ r[0] = 0
  OBVIOUS
<1>3. ASSUME NEW k \in 1 .. n PROVE r[k] = r[k - 1] + s[k]
  <2>1. q * (k - 1) = q * k - q
    OBVIOUS
  <2>2. QED BY <1>1, <2>1
<1>4. Partial(s, r)
  BY <1>1, <1>2, <1>3 DEF Partial
<1>5. r[n] = q * n
  OBVIOUS
<1> HIDE DEF r
<1>6. QED BY <1>1, <1>4, <1>5, SumFrom DEF s

-----------------------------------------------------------------------------
\* Sums is what its equation says.
LEMMA SumsDef ==
    ASSUME NEW terms \in Seq(Int)
    PROVE  /\ Sums(terms)[0] = Ok(0)
           /\ \A n \in 1 .. Len(terms) :
                Sums(terms)[n] = IF Sums(terms)[n - 1].tag = "Ok"
                                 THEN AddUnits(Sums(terms)[n - 1].value, terms[n])
                                 ELSE Sums(terms)[n - 1]
<1> DEFINE More(sum, u) == IF sum.tag = "Ok" THEN AddUnits(sum.value, u) ELSE sum
           Solves(g, k) == g = [n \in 0 .. k |-> IF n = 0 THEN Ok(0) ELSE More(g[n - 1], terms[n])]
           H == {k \in Nat : k <= Len(terms) => \E g : Solves(g, k)}
<1> Len(terms) \in Nat
  OBVIOUS
<1> HIDE DEF More
<1>1. 0 \in H
  <2>1. Solves([n \in 0 .. 0 |-> Ok(0)], 0)
    OBVIOUS
  <2>2. QED BY <2>1
<1>2. ASSUME NEW k \in Nat, k \in H PROVE k + 1 \in H
  <2> SUFFICES ASSUME k + 1 <= Len(terms) PROVE \E g : Solves(g, k + 1)
    OBVIOUS
  <2>1. PICK g : Solves(g, k)
    BY <1>2
  <2> DEFINE h == [n \in 0 .. (k + 1) |-> IF n = k + 1 THEN More(g[k], terms[k + 1]) ELSE g[n]]
  <2>2. \A n \in 0 .. k : h[n] = g[n]
    OBVIOUS
  <2>3. \A n \in 0 .. k : g[n] = IF n = 0 THEN Ok(0) ELSE More(g[n - 1], terms[n])
    BY <2>1
  <2>4. ASSUME NEW n \in 0 .. (k + 1)
        PROVE  h[n] = IF n = 0 THEN Ok(0) ELSE More(h[n - 1], terms[n])
    <3>1. CASE n = 0
      BY <2>2, <2>3, <3>1
    <3>2. CASE n # 0
      <4>1. h[n - 1] = g[n - 1]
        BY <2>2, <3>2
      <4>2. CASE n = k + 1
        BY <3>2, <4>1, <4>2
      <4>3. CASE n # k + 1
        BY <2>2, <2>3, <3>2, <4>1, <4>3
      <4>4. QED BY <4>2, <4>3
    <3>3. QED BY <3>1, <3>2
  <2>5. Solves(h, k + 1)
    BY <2>4
  <2>6. QED BY <2>5
<1>3. Len(terms) \in H
  <2> HIDE DEF H
  <2>1. QED BY <1>1, <1>2, Counting
<1>4. \E g : Solves(g, Len(terms))
  BY <1>3
<1>5. Solves(Sums(terms), Len(terms))
  BY <1>4 DEF Sums, More
<1>6. ASSUME NEW n \in 0 .. Len(terms)
      PROVE  Sums(terms)[n] = IF n = 0 THEN Ok(0) ELSE More(Sums(terms)[n - 1], terms[n])
  BY <1>5
<1>7. Sums(terms)[0] = Ok(0)
  BY <1>6
<1>8. ASSUME NEW n \in 1 .. Len(terms)
      PROVE  Sums(terms)[n] = More(Sums(terms)[n - 1], terms[n])
  <2>1. n \in 0 .. Len(terms) /\ n # 0
    OBVIOUS
  <2>2. QED BY <1>6, <2>1
<1>9. QED
  BY <1>7, <1>8 DEF More


\* A sum of terms that succeeds is the sum of the terms, and money.
LEMMA SumUnitsOk ==
    ASSUME NEW s \in Seq(Int), SumUnits(s).tag = "Ok"
    PROVE  SumUnits(s).value = SumOf(s) /\ InDomain(SumOf(s)) /\ SumOf(s) \in Int
<1>1. PICK p : Partial(s, p) /\ SumOf(s) = p[Len(s)]
  BY SumIs
<1>2. /\ Len(s) \in Nat /\ p[0] = 0 /\ \A n \in 0 .. Len(s) : p[n] \in Int
      /\ \A n \in 1 .. Len(s) : p[n] = p[n - 1] + s[n] /\ s[n] \in Int
  <2>1. \A n \in 1 .. Len(s) : s[n] \in Int
    OBVIOUS
  <2>2. p[0] = 0 /\ \A n \in 0 .. Len(s) : p[n] \in Int
    BY <1>1 DEF Partial
  <2>3. \A n \in 1 .. Len(s) : p[n] = p[n - 1] + s[n]
    BY <1>1 DEF Partial
  <2>4. Len(s) \in Nat
    OBVIOUS
  <2>5. QED BY <2>1, <2>2, <2>3, <2>4
<1> DEFINE sum == Sums(s)
           H == {n \in Nat : n =< Len(s) => (sum[n].tag = "Ok" => sum[n] = Ok(p[n]))}
<1>3. /\ sum[0] = Ok(0)
      /\ \A n \in 1 .. Len(s) :
           sum[n] = IF sum[n - 1].tag = "Ok" THEN AddUnits(sum[n - 1].value, s[n]) ELSE sum[n - 1]
  BY SumsDef
<1>4. SumUnits(s) = IF sum[Len(s)].tag = "Ok" THEN FinishSum(sum[Len(s)].value) ELSE sum[Len(s)]
  BY DEF SumUnits
<1> HIDE DEF sum
<1>5. 0 \in H
  BY <1>2, <1>3
<1>6. ASSUME NEW n \in Nat, n \in H PROVE n + 1 \in H
  <2> SUFFICES ASSUME n + 1 =< Len(s), sum[n + 1].tag = "Ok" PROVE sum[n + 1] = Ok(p[n + 1])
    OBVIOUS
  <2>1. n + 1 \in 1 .. Len(s) /\ n + 1 - 1 = n /\ n =< Len(s)
    BY <1>2
  <2>2. sum[n + 1] = IF sum[n].tag = "Ok" THEN AddUnits(sum[n].value, s[n + 1]) ELSE sum[n]
    BY <1>3, <2>1
  <2>3. sum[n] = Ok(p[n]) /\ sum[n + 1] = AddUnits(p[n], s[n + 1])
    BY <1>6, <2>1, <2>2 DEF Ok
  <2>4. sum[n + 1] = Ok(p[n] + s[n + 1])
    BY <2>3 DEF AddUnits, CheckedAdd, ArithmeticOverflow, OutOfDomain
  <2>5. QED BY <1>2, <2>1, <2>4
<1>7. Len(s) \in H
  <2> HIDE DEF H
  <2>1. QED BY <1>2, <1>5, <1>6, Counting
<1>8. sum[Len(s)].tag = "Ok"
  BY <1>4
<1>9. sum[Len(s)] = Ok(SumOf(s))
  BY <1>1, <1>2, <1>7, <1>8
<1>10. SumUnits(s) = FinishSum(SumOf(s)) /\ SumOf(s) \in Int
  BY <1>1, <1>2, <1>4, <1>8, <1>9 DEF Ok
<1>11. QED BY <1>10 DEF FinishSum, WideOutOfDomain, OutOfDomain, Ok

\* Terms of one sign are no greater than their sum.
LEMMA PartOfSum ==
    ASSUME NEW s \in Seq(Int)
    PROVE  /\ (\A i \in 1 .. Len(s) : s[i] >= 0) => \A i \in 1 .. Len(s) : s[i] =< SumOf(s)
           /\ (\A i \in 1 .. Len(s) : s[i] =< 0) => \A i \in 1 .. Len(s) : SumOf(s) =< s[i]
<1>1. PICK p : Partial(s, p) /\ SumOf(s) = p[Len(s)]
  BY SumIs
<1>2. /\ Len(s) \in Nat /\ p[0] = 0 /\ \A n \in 0 .. Len(s) : p[n] \in Int
      /\ \A n \in 1 .. Len(s) : p[n] = p[n - 1] + s[n] /\ s[n] \in Int
  <2>1. \A n \in 1 .. Len(s) : s[n] \in Int
    OBVIOUS
  <2>2. p[0] = 0 /\ \A n \in 0 .. Len(s) : p[n] \in Int
    BY <1>1 DEF Partial
  <2>3. \A n \in 1 .. Len(s) : p[n] = p[n - 1] + s[n]
    BY <1>1 DEF Partial
  <2>4. Len(s) \in Nat
    OBVIOUS
  <2>5. QED BY <2>1, <2>2, <2>3, <2>4
<1>3. ASSUME \A i \in 1 .. Len(s) : s[i] >= 0 PROVE \A i \in 1 .. Len(s) : s[i] =< p[Len(s)]
  <2> DEFINE H == {n \in Nat : n =< Len(s) => p[n] >= 0 /\ \A i \in 1 .. n : s[i] =< p[n]}
  <2>1. 0 \in H
    BY <1>2
  <2>2. ASSUME NEW n \in Nat, n \in H PROVE n + 1 \in H
    <3> SUFFICES ASSUME n + 1 =< Len(s)
                 PROVE  p[n + 1] >= 0 /\ \A i \in 1 .. n + 1 : s[i] =< p[n + 1]
      OBVIOUS
    <3>1. n + 1 \in 1 .. Len(s) /\ n + 1 - 1 = n /\ n \in 0 .. Len(s) /\ \A i \in 1 .. n : i \in 1 .. Len(s)
      BY <1>2
    <3>2. p[n] >= 0 /\ p[n] \in Int /\ \A i \in 1 .. n : s[i] =< p[n] /\ s[i] \in Int
      BY <1>2, <2>2, <3>1
    <3>3. p[n + 1] = p[n] + s[n + 1] /\ s[n + 1] \in Int /\ s[n + 1] >= 0
      BY <1>2, <1>3, <3>1
    <3>4. ASSUME NEW i \in 1 .. n + 1 PROVE s[i] =< p[n + 1]
      <4>1. CASE i = n + 1
        BY <3>2, <3>3, <4>1
      <4>2. CASE i \in 1 .. n
        BY <3>2, <3>3, <4>2
      <4>3. QED BY <4>1, <4>2
    <3>5. QED BY <3>2, <3>3, <3>4
  <2>3. Len(s) \in H
    <3> HIDE DEF H
    <3>1. QED BY <1>2, <2>1, <2>2, Counting
  <2>4. QED BY <1>2, <2>3
<1>4. ASSUME \A i \in 1 .. Len(s) : s[i] =< 0 PROVE \A i \in 1 .. Len(s) : p[Len(s)] =< s[i]
  <2> DEFINE H == {n \in Nat : n =< Len(s) => p[n] =< 0 /\ \A i \in 1 .. n : p[n] =< s[i]}
  <2>1. 0 \in H
    BY <1>2
  <2>2. ASSUME NEW n \in Nat, n \in H PROVE n + 1 \in H
    <3> SUFFICES ASSUME n + 1 =< Len(s)
                 PROVE  p[n + 1] =< 0 /\ \A i \in 1 .. n + 1 : p[n + 1] =< s[i]
      OBVIOUS
    <3>1. n + 1 \in 1 .. Len(s) /\ n + 1 - 1 = n /\ n \in 0 .. Len(s) /\ \A i \in 1 .. n : i \in 1 .. Len(s)
      BY <1>2
    <3>2. p[n] =< 0 /\ p[n] \in Int /\ \A i \in 1 .. n : p[n] =< s[i] /\ s[i] \in Int
      BY <1>2, <2>2, <3>1
    <3>3. p[n + 1] = p[n] + s[n + 1] /\ s[n + 1] \in Int /\ s[n + 1] =< 0
      BY <1>2, <1>4, <3>1
    <3>4. ASSUME NEW i \in 1 .. n + 1 PROVE p[n + 1] =< s[i]
      <4>1. CASE i = n + 1
        BY <3>2, <3>3, <4>1
      <4>2. CASE i \in 1 .. n
        BY <3>2, <3>3, <4>2
      <4>3. QED BY <4>1, <4>2
    <3>5. QED BY <3>2, <3>3, <3>4
  <2>3. Len(s) \in H
    <3> HIDE DEF H
    <3>1. QED BY <1>2, <2>1, <2>2, Counting
  <2>4. QED BY <1>2, <2>3
<1>5. QED BY <1>1, <1>3, <1>4

-----------------------------------------------------------------------------
(* Splits. *)

\* A division that truncates keeps the sign of the dividend.
LEMMA TruncatedExact ==
    ASSUME NEW a \in Int, NEW n \in Nat \ {0}
    PROVE  LET q == Truncated(a, n)
               r == a - q * n
           IN  /\ q \in Int /\ r \in Int /\ Abs(r) < n
               /\ a >= 0 => q >= 0 /\ r >= 0 /\ q =< a
               /\ a =< 0 => q =< 0 /\ r =< 0 /\ a =< q
<1> DEFINE below == a \div n
           rest  == a - below * n
           q     == Truncated(a, n)
           r     == a - q * n
<1>1. Around(a, n, below, rest)
  BY Below
<1>2. q = IF a < 0 /\ rest # 0 THEN below + 1 ELSE below
  BY <1>1, TruncatedIs
<1>3. below \in Int /\ rest \in Int /\ a = below * n + rest /\ 0 =< rest /\ rest < n
  BY <1>1 DEF Around
<1> HIDE DEF below, rest, q
<1>4. (below + 1) * n = below * n + n
  BY <1>3
<1>5. r = IF a < 0 /\ rest # 0 THEN rest - n ELSE rest
  BY <1>2, <1>3, <1>4
<1>6. q \in Int
  BY <1>2, <1>3
<1> HIDE DEF r
<1>7. a = q * n + r
  BY <1>6 DEF r
<1>8. r \in Int /\ Abs(r) < n /\ (a >= 0 => r >= 0) /\ (a =< 0 => r =< 0)
  BY <1>3, <1>5 DEF Abs
<1>9. a >= 0 => q >= 0 /\ q =< a
  <2> SUFFICES ASSUME a >= 0 PROVE q >= 0 /\ q =< a
    OBVIOUS
  <2>1. q >= 0
    <3>1. SUFFICES ASSUME q =< -1 PROVE FALSE
      BY <1>6
    <3>2. q * n =< (-1) * n
      BY <1>6, <3>1
    <3>3. QED BY <1>6, <1>7, <1>8, <3>2 DEF Abs
  <2>2. q * n >= q
    BY <1>6, <2>1
  <2>3. QED BY <1>6, <1>7, <1>8, <2>1, <2>2
<1>10. a =< 0 => q =< 0 /\ a =< q
  <2> SUFFICES ASSUME a =< 0 PROVE q =< 0 /\ a =< q
    OBVIOUS
  <2>1. q =< 0
    <3>1. SUFFICES ASSUME q >= 1 PROVE FALSE
      BY <1>6
    <3>2. q * n >= n
      BY <1>6, <3>1
    <3>3. QED BY <1>6, <1>7, <1>8, <3>2 DEF Abs
  <2>2. q * n =< q
    BY <1>6, <2>1
  <2>3. QED BY <1>6, <1>7, <1>8, <2>1, <2>2
<1>11. QED BY <1>6, <1>8, <1>9, <1>10 DEF q, r

\* What the first k parts of a split come to.
Handed(s, k) == s.base * k + s.step * (IF k =< s.extra THEN k ELSE s.extra)

\* The parts of a split are money, and add up to the amount.
LEMMA SplitExact ==
    ASSUME NEW a \in Money, NEW n \in Divisors
    PROVE  LET s == Split(a, n) IN
           /\ s.base \in Int /\ s.step \in {-1, 1} /\ s.extra \in 0 .. n
           /\ \A k \in 0 .. n - 1 : /\ PartAt(s, k) \in Money
                                    /\ Handed(s, k + 1) = Handed(s, k) + PartAt(s, k)
           /\ \A k \in 0 .. n : Handed(s, k) \in Int
           /\ Handed(s, 0) = 0 /\ Handed(s, n) = a
<1> DEFINE base == Truncated(a, n)
           left == a - base * n
           step == IF left < 0 THEN -1 ELSE 1
           extra == Abs(left)
           s == Split(a, n)
<1>1. a \in Int /\ -DomainMax =< a /\ a =< DomainMax /\ DomainMax \in Nat /\ n \in Nat \ {0}
  BY Widths DEF Money
<1>2. /\ base \in Int /\ left \in Int /\ Abs(left) < n
      /\ a >= 0 => base >= 0 /\ left >= 0 /\ base =< a
      /\ a =< 0 => base =< 0 /\ left =< 0 /\ a =< base
  BY <1>1, TruncatedExact
<1>3. s = [base |-> base, step |-> step, extra |-> extra]
  BY DEF Split
<1>4. s.base = base /\ s.step = step /\ s.extra = extra
  BY <1>3
<1> HIDE DEF s, base
<1>5. base * n + left = a
  BY <1>1, <1>2
<1> HIDE DEF left
<1>6. step \in {-1, 1} /\ extra \in 0 .. n /\ extra < n /\ step * extra = left
  BY <1>1, <1>2 DEF Abs
<1>7. extra > 0 => base + step >= -DomainMax /\ base + step =< DomainMax
  <2> SUFFICES ASSUME extra > 0 PROVE base + step >= -DomainMax /\ base + step =< DomainMax
    OBVIOUS
  <2>1. n >= 2
    BY <1>1, <1>6
  <2>2. CASE a >= 0
    <3>1. left > 0 /\ base >= 0 /\ step = 1
      BY <1>2, <2>2 DEF Abs
    <3>2. base * n >= base
      BY <1>1, <1>2, <3>1
    <3>3. QED BY <1>1, <1>2, <1>5, <3>1, <3>2
  <2>3. CASE a < 0
    <3>1. left < 0 /\ base =< 0 /\ step = -1
      BY <1>1, <1>2, <2>3 DEF Abs
    <3>2. base * n =< base
      BY <1>1, <1>2, <3>1
    <3>3. QED BY <1>1, <1>2, <1>5, <3>1, <3>2
  <2>4. QED BY <1>1, <2>2, <2>3
<1>8. base >= -DomainMax /\ base =< DomainMax
  BY <1>1, <1>2
<1> HIDE DEF step, extra
<1>9. ASSUME NEW k \in 0 .. n - 1
      PROVE  PartAt(s, k) \in Money /\ Handed(s, k + 1) = Handed(s, k) + PartAt(s, k)
  <2>1. PartAt(s, k) = IF k < extra THEN base + step ELSE base
    BY <1>4 DEF PartAt
  <2>2. PartAt(s, k) \in Money
    BY <1>1, <1>2, <1>6, <1>7, <1>8, <2>1 DEF Money
  <2>3. /\ Handed(s, k) = base * k + step * (IF k =< extra THEN k ELSE extra)
        /\ Handed(s, k + 1) = base * (k + 1) + step * (IF k + 1 =< extra THEN k + 1 ELSE extra)
    BY <1>4 DEF Handed
  <2>4. base * (k + 1) = base * k + base /\ step * (k + 1) = step * k + step
        /\ base * k \in Int /\ step * k \in Int /\ step * extra \in Int /\ k \in Int
        /\ base \in Int /\ step \in Int
    BY <1>1, <1>2, <1>6
  <2>5. CASE k < extra
    <3>1. k + 1 =< extra /\ k =< extra
      BY <1>6, <2>5
    <3>2. Handed(s, k) = base * k + step * k
      BY <2>3, <3>1
    <3>3. Handed(s, k + 1) = base * (k + 1) + step * (k + 1)
      BY <2>3, <3>1
    <3>4. PartAt(s, k) = base + step
      BY <2>1, <2>5
    <3>5. (base * k + step * k) + (base + step) = (base * k + base) + (step * k + step)
      BY <2>4
    <3>6. QED BY <2>2, <2>4, <3>2, <3>3, <3>4, <3>5
  <2>6. CASE k >= extra
    <3>1. ~(k + 1 =< extra) /\ (k =< extra => k = extra) /\ ~(k < extra)
      BY <1>6, <2>4, <2>6
    <3>2. Handed(s, k) = base * k + step * extra
      BY <2>3, <3>1
    <3>3. Handed(s, k + 1) = base * (k + 1) + step * extra
      BY <2>3, <3>1
    <3>4. PartAt(s, k) = base
      BY <2>1, <3>1
    <3>5. (base * k + step * extra) + base = (base * k + base) + step * extra
      BY <2>4
    <3>6. QED BY <2>2, <2>4, <3>2, <3>3, <3>4, <3>5
  <2>7. QED BY <1>6, <2>2, <2>4, <2>5, <2>6
<1>10. Handed(s, 0) = 0
  BY <1>2, <1>4, <1>6 DEF Handed
<1>11. Handed(s, n) = a
  BY <1>1, <1>2, <1>4, <1>5, <1>6 DEF Handed
<1>12. \A k \in 0 .. n : Handed(s, k) \in Int
  BY <1>1, <1>2, <1>4, <1>6 DEF Handed
<1>13. QED BY <1>2, <1>4, <1>6, <1>9, <1>10, <1>11, <1>12 DEF s

\* What an unfinished split has still to hand out.
LEMMA AheadSum ==
    ASSUME NEW a \in Money, NEW n \in Divisors, NEW o, o.parts = Split(a, n), o.count = n,
           o.next \in 0 .. n
    PROVE  /\ Ahead(o) \in Seq(Money) /\ Ahead(o) \in Seq(Int) /\ Len(Ahead(o)) = n - o.next
           /\ SumOf(Ahead(o)) = a - Handed(Split(a, n), o.next)
           /\ SumOf(Ahead(o)) \in Int
<1> DEFINE s == Split(a, n)
           m == o.next
           t == Ahead(o)
           r == [j \in 0 .. n - m |-> Handed(s, m + j) - Handed(s, m)]
<1>1. n \in Nat /\ m \in 0 .. n /\ DomainMax \in Nat
  BY Widths
<1>2. /\ \A k \in 0 .. n - 1 : /\ PartAt(s, k) \in Money
                               /\ Handed(s, k + 1) = Handed(s, k) + PartAt(s, k)
      /\ \A k \in 0 .. n : Handed(s, k) \in Int
      /\ Handed(s, 0) = 0 /\ Handed(s, n) = a
  BY SplitExact
<1>3. t = [j \in 1 .. n - m |-> PartAt(s, m + j - 1)]
  BY DEF Ahead
<1> HIDE DEF s, m, t
<1>4. ASSUME NEW j \in 1 .. n - m
      PROVE  /\ m + j - 1 \in 0 .. n - 1 /\ m + j \in 0 .. n /\ m + j - 1 + 1 = m + j
             /\ t[j] = PartAt(s, m + j - 1) /\ t[j] \in Money
             /\ Handed(s, m + j) = Handed(s, m + j - 1) + t[j]
  <2>1. m + j - 1 \in 0 .. n - 1 /\ m + j \in 0 .. n /\ m + j - 1 + 1 = m + j
    BY <1>1
  <2>2. t[j] = PartAt(s, m + j - 1)
    BY <1>3
  <2>3. QED BY <1>2, <2>1, <2>2
<1>5. Money \subseteq Int
  BY <1>1 DEF Money
<1>6. n - m \in Nat
  BY <1>1
<1>7. t \in Seq(Money) /\ t \in Seq(Int) /\ Len(t) = n - m
  <2>1. t \in [1 .. n - m -> Money]
    BY <1>3, <1>4
  <2>2. t \in [1 .. n - m -> Int]
    BY <1>5, <2>1
  <2>3. QED BY <1>6, <2>1, <2>2
<1>8. /\ \A j \in 0 .. n - m : r[j] = Handed(s, m + j) - Handed(s, m)
      /\ r = [j \in 0 .. n - m |-> r[j]]
  OBVIOUS
<1> HIDE DEF r
<1>9. ASSUME NEW j \in 0 .. n - m PROVE r[j] \in Int
  <2>1. m + j \in 0 .. n
    BY <1>1
  <2>2. QED BY <1>1, <1>2, <1>8, <2>1
<1>10. r[0] = 0
  <2>1. 0 \in 0 .. n - m /\ m + 0 = m
    BY <1>1
  <2>2. r[0] = Handed(s, m + 0) - Handed(s, m)
    BY <1>8, <2>1
  <2>3. Handed(s, m) \in Int
    BY <1>1, <1>2
  <2>4. QED BY <2>1, <2>2, <2>3
<1>11. ASSUME NEW j \in 1 .. n - m PROVE r[j] = r[j - 1] + t[j]
  <2>1. j - 1 \in 0 .. n - m /\ j \in 0 .. n - m /\ m + (j - 1) = m + j - 1
    BY <1>1
  <2>2. r[j] = Handed(s, m + j) - Handed(s, m) /\ r[j - 1] = Handed(s, m + j - 1) - Handed(s, m)
    BY <1>8, <2>1
  <2>3. Handed(s, m) \in Int /\ Handed(s, m + j - 1) \in Int /\ t[j] \in Int
    <3>1. m + j - 1 \in 0 .. n
      BY <1>1
    <3>2. QED BY <1>1, <1>2, <1>4, <1>5, <3>1
  <2>4. QED BY <1>4, <2>2, <2>3
<1>12. Partial(t, r)
  BY <1>7, <1>8, <1>9, <1>10, <1>11 DEF Partial
<1>13. SumOf(t) = r[n - m]
  BY <1>7, <1>12, SumFrom
<1>14. r[n - m] = a - Handed(s, m)
  <2>1. n - m \in 0 .. n - m /\ m + (n - m) = n
    BY <1>1
  <2>2. r[n - m] = Handed(s, m + (n - m)) - Handed(s, m)
    BY <1>8, <2>1
  <2>3. QED BY <1>2, <2>1, <2>2
<1>15. n - m \in 0 .. n - m
  BY <1>6
<1>16. QED BY <1>7, <1>9, <1>13, <1>14, <1>15 DEF s, m, t

-----------------------------------------------------------------------------
(* Allocations. *)

\* How many of the first n weights have a claim on what truncation leaves.
Claimants(w, n) == Cardinality({i \in 1 .. n : w[i] # 0})

\* Claimants counts the positions with a claim, one by one.
LEMMA ClaimantsAre ==
    ASSUME NEW w \in Seq(Weights)
    PROVE  /\ Claimants(w, 0) = 0
           /\ \A n \in 0 .. Len(w) : Claimants(w, n) \in Nat
           /\ \A n \in 1 .. Len(w) :
                Claimants(w, n) = Claimants(w, n - 1) + (IF w[n] # 0 THEN 1 ELSE 0)
           /\ \A i, j \in 1 .. Len(w) : i < j /\ w[j] # 0 => Claimants(w, i) < Claimants(w, j)
           /\ \A i \in 1 .. Len(w) : Claimants(w, i) =< Claimants(w, Len(w))
           /\ Cardinality(Claims(w)) = Claimants(w, Len(w))
           /\ \A i \in 1 .. Len(w) :
                Cardinality({j \in Claims(w) : j =< i}) = Claimants(w, i)
<1> DEFINE C(n) == {i \in 1 .. n : w[i] # 0}
<1>1. Len(w) \in Nat /\ DOMAIN w = 1 .. Len(w)
  OBVIOUS
<1>2. ASSUME NEW n \in Nat PROVE IsFiniteSet(C(n)) /\ Cardinality(C(n)) \in Nat
  <2>1. IsFiniteSet(1 .. n)
    BY FS_Interval
  <2>2. IsFiniteSet(C(n))
    BY <2>1, FS_Subset
  <2>3. QED BY <2>2, FS_CardinalityType
<1>3. Claimants(w, 0) = 0
  <2>1. C(0) = {}
    OBVIOUS
  <2>2. QED BY <2>1, FS_EmptySet DEF Claimants
<1>4. ASSUME NEW n \in 1 .. Len(w)
      PROVE  Claimants(w, n) = Claimants(w, n - 1) + (IF w[n] # 0 THEN 1 ELSE 0)
  <2>1. n \in Nat /\ n - 1 \in Nat /\ IsFiniteSet(C(n - 1)) /\ n \notin C(n - 1)
    BY <1>2
  <2>2. CASE w[n] # 0
    <3>1. C(n) = C(n - 1) \cup {n}
      BY <2>2
    <3>2. Cardinality(C(n - 1) \cup {n}) = Cardinality(C(n - 1)) + 1
      BY <2>1, FS_AddElement
    <3>3. QED BY <2>2, <3>1, <3>2 DEF Claimants
  <2>3. CASE w[n] = 0
    <3>1. C(n) = C(n - 1)
      BY <2>3
    <3>2. Cardinality(C(n - 1)) \in Nat
      BY <1>2, <2>1
    <3>3. Claimants(w, n) = Cardinality(C(n)) /\ Claimants(w, n - 1) = Cardinality(C(n - 1))
      BY DEF Claimants
    <3> HIDE DEF C
    <3>4. QED BY <2>3, <3>1, <3>2, <3>3
  <2>4. QED BY <2>2, <2>3
<1>5. ASSUME NEW i \in 1 .. Len(w), NEW j \in 1 .. Len(w), i < j, w[j] # 0
      PROVE  Claimants(w, i) < Claimants(w, j)
  <2>1. C(i) \in SUBSET C(j) /\ j \in C(j) /\ j \notin C(i)
    BY <1>5
  <2>2. IsFiniteSet(C(j)) /\ Cardinality(C(i)) \in Nat /\ Cardinality(C(j)) \in Nat
    BY <1>2
  <2>3. C(i) # C(j)
    BY <2>1
  <2> HIDE DEF C
  <2>4. Cardinality(C(i)) =< Cardinality(C(j)) /\ Cardinality(C(j)) # Cardinality(C(i))
    BY <2>1, <2>2, <2>3, FS_Subset
  <2>5. Cardinality(C(i)) < Cardinality(C(j))
    BY <2>2, <2>4
  <2>6. QED BY <2>5 DEF Claimants, C
<1>6. ASSUME NEW i \in 1 .. Len(w) PROVE Claimants(w, i) =< Claimants(w, Len(w))
  <2>1. C(i) \in SUBSET C(Len(w))
    BY <1>1
  <2>2. IsFiniteSet(C(Len(w)))
    BY <1>1, <1>2
  <2> HIDE DEF C
  <2>3. Cardinality(C(i)) =< Cardinality(C(Len(w)))
    BY <2>1, <2>2, FS_Subset
  <2>4. QED BY <2>3 DEF Claimants, C
<1>7. Claims(w) = C(Len(w))
  BY <1>1 DEF Claims
<1>8. ASSUME NEW i \in 1 .. Len(w) PROVE {j \in Claims(w) : j =< i} = C(i)
  BY <1>1 DEF Claims
<1>9. \A n \in 0 .. Len(w) : Claimants(w, n) \in Nat
  <2>1. \A n \in 0 .. Len(w) : n \in Nat
    BY <1>1
  <2>2. \A n \in 0 .. Len(w) : Cardinality(C(n)) \in Nat
    <3> HIDE DEF C
    <3>1. QED BY <1>2, <2>1
  <2>3. QED BY <2>2 DEF Claimants
<1>10. QED BY <1>3, <1>4, <1>5, <1>6, <1>7, <1>8, <1>9 DEF Claimants

\* A share truncates.
LEMMA ShareIs ==
    ASSUME NEW a \in Int, NEW weight \in Nat, NEW total \in Nat \ {0}
    PROVE  LET s == Share(a, weight, total)
               r == a * weight - s * total
           IN  /\ s \in Int /\ r \in Int /\ Abs(r) < total
               /\ a >= 0 => s >= 0 /\ r >= 0
               /\ a =< 0 => s =< 0 /\ r =< 0
               /\ weight = 0 => s = 0 /\ r = 0
<1> DEFINE num == a * weight
           q   == Truncated(num, total)
           r   == num - q * total
<1>1. num \in Int /\ (a >= 0 => num >= 0) /\ (a =< 0 => num =< 0) /\ (weight = 0 => num = 0)
  OBVIOUS
<1> HIDE DEF num
<1>2. /\ q \in Int /\ r \in Int /\ Abs(r) < total
      /\ num >= 0 => q >= 0 /\ r >= 0
      /\ num =< 0 => q =< 0 /\ r =< 0
      /\ num = 0 => q = 0
  BY <1>1, TruncatedExact
<1>3. DivRound(num, total, "TowardZero").quotient = q
  BY DEF DivRound, Bump
<1>4. Share(a, weight, total) = q
  BY <1>3 DEF Share, num
<1> HIDE DEF q
<1>5. r = a * weight - q * total
  BY DEF num
<1>6. num = 0 => q = 0 /\ r = 0
  BY <1>1, <1>2
<1> HIDE DEF r
<1>7. QED BY <1>1, <1>2, <1>4, <1>5, <1>6

Shared(a, w) == [i \in DOMAIN w |-> Share(a, w[i], SumOf(w))]

Left(a, w) == a - SumOf(Shared(a, w))

\* What a share of the position leaves, in units of 1/total.
Rest(a, w, i) == a * w[i] - Share(a, w[i], SumOf(w)) * SumOf(w)

\* Each share is exact up to its rest, and the rests have the sign of the amount.
LEMMA SharesAre ==
    ASSUME NEW a \in Int, NEW w \in Seq(Weights), SumOf(w) # 0
    PROVE  /\ w \in Seq(Int) /\ SumOf(w) \in Nat \ {0}
           /\ Shared(a, w) \in Seq(Int) /\ Len(Shared(a, w)) = Len(w)
           /\ \A i \in 1 .. Len(w) :
                LET s == Shared(a, w)[i] IN
                /\ w[i] \in Nat /\ w[i] =< SumOf(w)
                /\ s = Share(a, w[i], SumOf(w)) /\ s \in Int
                /\ Rest(a, w, i) \in Int /\ Abs(Rest(a, w, i)) < SumOf(w)
                /\ Rest(a, w, i) = a * w[i] - s * SumOf(w)
                /\ a >= 0 => s >= 0 /\ Rest(a, w, i) >= 0
                /\ a =< 0 => s =< 0 /\ Rest(a, w, i) =< 0
                /\ w[i] = 0 => s = 0 /\ Rest(a, w, i) = 0
<1>1. Weights \subseteq Nat
  BY DEF Weights
<1>2. w \in Seq(Int) /\ Len(w) \in Nat /\ DOMAIN w = 1 .. Len(w) /\ \A i \in 1 .. Len(w) : w[i] \in Nat
  <2>1. Len(w) \in Nat /\ DOMAIN w = 1 .. Len(w) /\ \A i \in 1 .. Len(w) : w[i] \in Weights
    OBVIOUS
  <2>2. w \in Seq(Int)
    <3>1. Weights \subseteq Int
      BY <1>1
    <3>2. QED BY <3>1, SeqMonotonic
  <2>3. QED BY <1>1, <2>1, <2>2
<1>3. SumOf(w) \in Int /\ \A i \in 1 .. Len(w) : w[i] =< SumOf(w)
  <2>1. \E p : Partial(w, p)
    BY <1>2, SumIs
  <2>2. SumOf(w) \in Int
    BY <1>2, <2>1, SumFrom
  <2>3. \A i \in 1 .. Len(w) : w[i] >= 0
    BY <1>2
  <2>4. QED BY <1>2, <2>2, <2>3, PartOfSum
<1>4. SumOf(w) \in Nat \ {0}
  <2>1. CASE Len(w) = 0
    <3>1. w = <<>>
      BY <1>2, <2>1
    <3>2. QED BY <3>1, SumEmpty
  <2>2. CASE Len(w) # 0
    <3>1. 1 \in 1 .. Len(w)
      BY <1>2, <2>2
    <3>2. QED BY <1>2, <1>3, <3>1
  <2>3. QED BY <2>1, <2>2
<1> DEFINE total == SumOf(w)
<1>5. ASSUME NEW i \in 1 .. Len(w)
      PROVE  LET s == Share(a, w[i], total) IN
             /\ Shared(a, w)[i] = s /\ s \in Int
             /\ Rest(a, w, i) \in Int /\ Abs(Rest(a, w, i)) < total
             /\ Rest(a, w, i) = a * w[i] - s * total
             /\ a >= 0 => s >= 0 /\ Rest(a, w, i) >= 0
             /\ a =< 0 => s =< 0 /\ Rest(a, w, i) =< 0
             /\ w[i] = 0 => s = 0 /\ Rest(a, w, i) = 0
  <2>1. Shared(a, w)[i] = Share(a, w[i], total)
    BY <1>2 DEF Shared
  <2>2. Rest(a, w, i) = a * w[i] - Share(a, w[i], total) * total
    BY DEF Rest
  <2>3. w[i] \in Nat /\ total \in Nat \ {0}
    BY <1>2, <1>4
  <2> HIDE DEF total
  <2>4. QED BY <2>1, <2>2, <2>3, ShareIs
<1>6. Shared(a, w) \in Seq(Int) /\ Len(Shared(a, w)) = Len(w)
  <2>1. Shared(a, w) = [i \in 1 .. Len(w) |-> Shared(a, w)[i]]
    BY <1>2 DEF Shared
  <2>2. \A i \in 1 .. Len(w) : Shared(a, w)[i] \in Int
    BY <1>5
  <2>3. Shared(a, w) \in [1 .. Len(w) -> Int]
    BY <2>1, <2>2
  <2>4. QED BY <1>2, <2>3
<1> HIDE DEF total
<1>7. ASSUME NEW i \in 1 .. Len(w)
      PROVE  LET s == Shared(a, w)[i] IN
             /\ w[i] \in Nat /\ w[i] =< SumOf(w)
             /\ s = Share(a, w[i], SumOf(w)) /\ s \in Int
             /\ Rest(a, w, i) \in Int /\ Abs(Rest(a, w, i)) < SumOf(w)
             /\ Rest(a, w, i) = a * w[i] - s * SumOf(w)
             /\ a >= 0 => s >= 0 /\ Rest(a, w, i) >= 0
             /\ a =< 0 => s =< 0 /\ Rest(a, w, i) =< 0
             /\ w[i] = 0 => s = 0 /\ Rest(a, w, i) = 0
  BY <1>2, <1>3, <1>5 DEF total
<1>8. QED BY <1>2, <1>4, <1>6, <1>7

\* Truncation leaves less than a unit for each claim, on the side of the amount.
LEMMA LeftIs ==
    ASSUME NEW a \in Int, NEW w \in Seq(Weights), SumOf(w) # 0
    PROVE  /\ Left(a, w) \in Int /\ Abs(Left(a, w)) < Claimants(w, Len(w))
           /\ a >= 0 => Left(a, w) >= 0
           /\ a =< 0 => Left(a, w) =< 0
<1> DEFINE total == SumOf(w)
           s == Shared(a, w)
           m == Len(w)
           c(n) == Claimants(w, n)
           rest(i) == Rest(a, w, i)
<1>1. /\ w \in Seq(Int) /\ total \in Nat \ {0} /\ s \in Seq(Int) /\ Len(s) = m
      /\ \A i \in 1 .. m :
           /\ w[i] \in Nat /\ s[i] \in Int /\ rest(i) \in Int /\ Abs(rest(i)) < total
           /\ rest(i) = a * w[i] - s[i] * total
           /\ a >= 0 => rest(i) >= 0
           /\ a =< 0 => rest(i) =< 0
           /\ w[i] = 0 => rest(i) = 0
  BY SharesAre
<1>2. PICK u : Partial(w, u) /\ SumOf(w) = u[m]
  BY <1>1, SumIs
<1>3. PICK v : Partial(s, v) /\ SumOf(s) = v[m]
  BY <1>1, SumIs
<1>4. /\ c(0) = 0 /\ \A n \in 0 .. m : c(n) \in Nat
      /\ \A n \in 1 .. m : c(n) = c(n - 1) + (IF w[n] # 0 THEN 1 ELSE 0)
  BY ClaimantsAre
<1>5. m \in Nat
  OBVIOUS
<1>6. /\ u[0] = 0 /\ \A n \in 0 .. m : u[n] \in Int
  BY <1>2 DEF Partial
<1>7. \A n \in 1 .. m : u[n] = u[n - 1] + w[n]
  BY <1>2 DEF Partial
<1>8. v[0] = 0 /\ \A n \in 0 .. m : v[n] \in Int
  BY <1>1, <1>3 DEF Partial
<1>9. \A n \in 1 .. m : v[n] = v[n - 1] + s[n]
  BY <1>1, <1>3 DEF Partial
<1>10. Left(a, w) = a - v[m] /\ total = u[m]
  BY <1>2, <1>3 DEF Left
<1> HIDE DEF total, s, m, c, rest
<1> DEFINE left(n) == a * u[n] - v[n] * total
           H == {n \in Nat : n =< m =>
                   /\ left(n) \in Int
                   /\ a >= 0 => 0 =< left(n) /\ left(n) =< c(n) * (total - 1)
                   /\ a =< 0 => left(n) =< 0 /\ -(c(n) * (total - 1)) =< left(n)
                   /\ c(n) = 0 => u[n] = 0}
<1>11. 0 \in H
  BY <1>1, <1>4, <1>6, <1>8
<1>12. ASSUME NEW n \in Nat, n \in H PROVE n + 1 \in H
  <2> SUFFICES ASSUME n + 1 =< m
               PROVE  /\ left(n + 1) \in Int
                      /\ a >= 0 => 0 =< left(n + 1) /\ left(n + 1) =< c(n + 1) * (total - 1)
                      /\ a =< 0 => left(n + 1) =< 0 /\ -(c(n + 1) * (total - 1)) =< left(n + 1)
                      /\ c(n + 1) = 0 => u[n + 1] = 0
    OBVIOUS
  <2> DEFINE i == n + 1
  <2>1. i \in 1 .. m /\ i - 1 = n /\ n \in 0 .. m /\ n =< m
    BY <1>5
  <2> HIDE DEF i
  <2>2. /\ left(n) \in Int
        /\ a >= 0 => 0 =< left(n) /\ left(n) =< c(n) * (total - 1)
        /\ a =< 0 => left(n) =< 0 /\ -(c(n) * (total - 1)) =< left(n)
        /\ c(n) = 0 => u[n] = 0
    BY <1>12, <2>1
  <2>3. u[n] \in Int /\ v[n] \in Int /\ w[i] \in Nat /\ s[i] \in Int /\ total \in Nat \ {0}
        /\ c(n) \in Nat
    BY <1>1, <1>4, <1>6, <1>8, <2>1
  <2>4. u[i] = u[n] + w[i] /\ v[i] = v[n] + s[i]
    BY <1>7, <1>9, <2>1
  <2>5. left(i) = left(n) + rest(i)
    <3>1. rest(i) = a * w[i] - s[i] * total
      BY <1>1, <2>1
    <3>2. a * (u[n] + w[i]) = a * u[n] + a * w[i]
      BY <2>3
    <3>3. (v[n] + s[i]) * total = v[n] * total + s[i] * total
      BY <2>3
    <3>4. a * u[n] \in Int
      BY <2>3
    <3>5. v[n] * total \in Int
      BY <2>3
    <3>6. s[i] * total \in Int
      BY <2>3
    <3>7. a * w[i] \in Int
      BY <2>3
    <3>8. QED BY <2>4, <3>1, <3>2, <3>3, <3>4, <3>5, <3>6, <3>7
  <2>6. c(i) = c(n) + (IF w[i] # 0 THEN 1 ELSE 0)
    BY <1>4, <2>1
  <2>7. rest(i) \in Int /\ Abs(rest(i)) < total /\ (a >= 0 => rest(i) >= 0) /\ (a =< 0 => rest(i) =< 0)
        /\ (w[i] = 0 => rest(i) = 0)
    BY <1>1, <2>1
  <2>8. -(total - 1) =< rest(i) /\ rest(i) =< total - 1
    BY <2>3, <2>7 DEF Abs
  <2> HIDE DEF left
  <2>9. CASE w[i] # 0
    <3>1. c(i) = c(n) + 1 /\ c(i) # 0
      BY <2>3, <2>6, <2>9
    <3>2. (c(n) + 1) * (total - 1) = c(n) * (total - 1) + (total - 1) /\ c(n) * (total - 1) \in Int
      BY <2>3
    <3>3. c(i) * (total - 1) = c(n) * (total - 1) + (total - 1)
      BY <3>1, <3>2
    <3> DEFINE bound == c(n) * (total - 1)
               more  == c(i) * (total - 1)
    <3>4. bound \in Int /\ more = bound + (total - 1)
          /\ (a >= 0 => 0 =< left(n) /\ left(n) =< bound)
          /\ (a =< 0 => left(n) =< 0 /\ -bound =< left(n))
      BY <2>2, <3>2, <3>3
    <3> HIDE DEF bound, more
    <3>5. left(i) \in Int
      BY <2>2, <2>5, <2>7
    <3>6. left(n) \in Int /\ more \in Int
      BY <2>2, <2>3, <3>4
    <3> DEFINE l == left(n)
               k == left(i)
               x == rest(i)
    <3>7. l \in Int /\ x \in Int /\ bound \in Int /\ total \in Int
      BY <2>3, <2>7, <3>4, <3>6
    <3>8. k = l + x /\ more = bound + (total - 1) /\ -(total - 1) =< x /\ x =< total - 1
      BY <2>5, <2>8, <3>4
    <3>9. /\ a >= 0 => 0 =< l /\ l =< bound /\ 0 =< x
          /\ a =< 0 => l =< 0 /\ -bound =< l /\ x =< 0
      BY <2>7, <3>4
    <3> HIDE DEF l, k, x
    <3>10. ASSUME a >= 0 PROVE 0 =< k /\ k =< more
      BY <3>7, <3>8, <3>9, <3>10
    <3>11. ASSUME a =< 0 PROVE k =< 0 /\ -more =< k
      BY <3>7, <3>8, <3>9, <3>11
    <3>12. QED BY <3>1, <3>5, <3>10, <3>11 DEF more, i, k
  <2>10. CASE w[i] = 0
    <3>1. c(i) = c(n) /\ left(i) = left(n) /\ u[i] = u[n]
      BY <2>2, <2>3, <2>4, <2>5, <2>6, <2>7, <2>10
    <3>2. QED BY <2>2, <3>1 DEF i
  <2>11. QED BY <2>9, <2>10
<1>13. m \in H
  <2> HIDE DEF H
  <2>1. QED BY <1>5, <1>11, <1>12, Counting
<1>14. /\ left(m) \in Int
       /\ a >= 0 => 0 =< left(m) /\ left(m) =< c(m) * (total - 1)
       /\ a =< 0 => left(m) =< 0 /\ -(c(m) * (total - 1)) =< left(m)
       /\ c(m) = 0 => u[m] = 0
  BY <1>5, <1>13
<1> DEFINE l == a - v[m]
<1>15. v[m] \in Int /\ l \in Int /\ c(m) \in Nat /\ c(m) # 0 /\ total \in Nat \ {0}
  BY <1>1, <1>4, <1>5, <1>8, <1>10, <1>14
<1>16. left(m) = l * total
  <2>1. l * total = a * total - v[m] * total
    BY <1>15
  <2>2. QED BY <1>10, <2>1
<1> HIDE DEF left, l
<1>17. c(m) * (total - 1) < c(m) * total
  <2>1. c(m) * (total - 1) = c(m) * total - c(m) /\ c(m) * total \in Int
    BY <1>15
  <2>2. QED BY <1>15, <2>1
<1>18. c(m) * total \in Int /\ c(m) * (total - 1) \in Int /\ l * total \in Int
  BY <1>15
<1>19. a >= 0 => l >= 0 /\ l < c(m)
  <2> SUFFICES ASSUME a >= 0 PROVE l >= 0 /\ l < c(m)
    OBVIOUS
  <2>1. 0 =< l * total /\ l * total < c(m) * total
    BY <1>14, <1>16, <1>17, <1>18
  <2>2. l >= 0
    <3>1. SUFFICES ASSUME l =< -1 PROVE FALSE
      BY <1>15
    <3>2. l * total =< (-1) * total
      BY <1>15, <3>1
    <3>3. QED BY <1>15, <1>18, <2>1, <3>2
  <2>3. l < c(m)
    <3>1. SUFFICES ASSUME c(m) =< l PROVE FALSE
      BY <1>15
    <3>2. c(m) * total =< l * total
      BY <1>15, <3>1
    <3>3. QED BY <1>18, <2>1, <3>2
  <2>4. QED BY <2>2, <2>3
<1>20. a =< 0 => l =< 0 /\ -l < c(m)
  <2> SUFFICES ASSUME a =< 0 PROVE l =< 0 /\ -l < c(m)
    OBVIOUS
  <2>1. l * total =< 0 /\ -(c(m) * total) < l * total
    BY <1>14, <1>16, <1>17, <1>18
  <2>2. l =< 0
    <3>1. SUFFICES ASSUME l >= 1 PROVE FALSE
      BY <1>15
    <3>2. l * total >= total
      BY <1>15, <3>1
    <3>3. QED BY <1>15, <1>18, <2>1, <3>2
  <2>3. -l < c(m)
    <3>1. SUFFICES ASSUME c(m) =< -l PROVE FALSE
      BY <1>15
    <3>2. c(m) * total =< (-l) * total
      BY <1>15, <3>1
    <3>3. (-l) * total = -(l * total)
      BY <1>15
    <3>4. QED BY <1>18, <2>1, <3>2, <3>3
  <2>4. QED BY <2>2, <2>3
<1>21. Left(a, w) = l
  BY <1>10 DEF l
<1>22. QED BY <1>15, <1>19, <1>20, <1>21 DEF Abs, c, m

Paid(a, w) == Distribute(Shared(a, w), Claims(w), Left(a, w))

\* The unit position i gets on top of its share.
Extra(a, w, i) ==
    IF w[i] # 0 /\ Claimants(w, i) =< Abs(Left(a, w)) THEN Sign(Left(a, w)) ELSE 0

\* What is paid is the share and at most one unit, of the sign of the amount.
LEMMA PaidIs ==
    ASSUME NEW a \in Int, NEW w \in Seq(Weights), SumOf(w) # 0
    PROVE  /\ Paid(a, w) \in Seq(Int) /\ Len(Paid(a, w)) = Len(w)
           /\ \A i \in 1 .. Len(w) : Paid(a, w)[i] = Shared(a, w)[i] + Extra(a, w, i)
           /\ \A i \in 1 .. Len(w) :
                /\ Extra(a, w, i) \in {-1, 0, 1}
                /\ a >= 0 => Extra(a, w, i) >= 0
                /\ a =< 0 => Extra(a, w, i) =< 0
                /\ Paid(a, w)[i] \in Int
<1> DEFINE s == Shared(a, w)
           l == Left(a, w)
           d == Paid(a, w)
<1>1. /\ s \in Seq(Int) /\ Len(s) = Len(w)
      /\ \A i \in 1 .. Len(w) : s[i] \in Int
  BY SharesAre
<1>2. l \in Int /\ (a >= 0 => l >= 0) /\ (a =< 0 => l =< 0)
  BY LeftIs
<1>3. \A i \in 1 .. Len(w) : Cardinality({j \in Claims(w) : j =< i}) = Claimants(w, i)
  BY ClaimantsAre
<1>4. DOMAIN w = 1 .. Len(w) /\ Len(w) \in Nat /\ DOMAIN s = 1 .. Len(w)
  BY <1>1
<1>5. \A i \in 1 .. Len(w) : i \in Claims(w) <=> w[i] # 0
  BY <1>4 DEF Claims
<1>6. d = [i \in 1 .. Len(w) |->
             IF i \in Claims(w) /\ Cardinality({j \in Claims(w) : j =< i}) =< Abs(l)
             THEN s[i] + Sign(l) ELSE s[i]]
  BY <1>4 DEF Paid, Distribute
<1>7. Sign(l) \in {-1, 0, 1} /\ (a >= 0 => Sign(l) >= 0) /\ (a =< 0 => Sign(l) =< 0)
  BY <1>2 DEF Sign
<1> HIDE DEF s, l, d
<1>8. ASSUME NEW i \in 1 .. Len(w)
      PROVE  /\ d[i] = s[i] + Extra(a, w, i)
             /\ Extra(a, w, i) \in {-1, 0, 1} /\ d[i] \in Int
             /\ a >= 0 => Extra(a, w, i) >= 0
             /\ a =< 0 => Extra(a, w, i) =< 0
  <2>1. Extra(a, w, i) = IF w[i] # 0 /\ Claimants(w, i) =< Abs(l) THEN Sign(l) ELSE 0
    BY DEF Extra, l
  <2>2. d[i] = IF w[i] # 0 /\ Claimants(w, i) =< Abs(l) THEN s[i] + Sign(l) ELSE s[i]
    BY <1>3, <1>5, <1>6
  <2>3. s[i] \in Int
    BY <1>1
  <2>4. CASE w[i] # 0 /\ Claimants(w, i) =< Abs(l)
    BY <1>7, <2>1, <2>2, <2>3, <2>4
  <2>5. CASE ~(w[i] # 0 /\ Claimants(w, i) =< Abs(l))
    <3>1. Extra(a, w, i) = 0 /\ d[i] = s[i]
      BY <2>1, <2>2, <2>5
    <3>2. QED BY <2>3, <3>1
  <2>6. QED BY <2>4, <2>5
<1>9. d \in Seq(Int) /\ Len(d) = Len(w)
  <2>1. d = [i \in 1 .. Len(w) |-> d[i]]
    BY <1>6
  <2>2. \A i \in 1 .. Len(w) : d[i] \in Int
    BY <1>8
  <2>3. d \in [1 .. Len(w) -> Int]
    BY <2>1, <2>2
  <2>4. QED BY <1>4, <2>3
<1>10. QED BY <1>8, <1>9 DEF s, d

\* What is paid out is the amount.
LEMMA PaidSum ==
    ASSUME NEW a \in Int, NEW w \in Seq(Weights), SumOf(w) # 0
    PROVE  SumOf(Paid(a, w)) = a
<1> DEFINE s == Shared(a, w)
           l == Left(a, w)
           d == Paid(a, w)
           m == Len(w)
           c(n) == Claimants(w, n)
           x(i) == Extra(a, w, i)
           g == Sign(l)
           k == Abs(l)
<1>1. /\ d \in Seq(Int) /\ Len(d) = m /\ m \in Nat
      /\ \A i \in 1 .. m : d[i] = s[i] + x(i) /\ d[i] \in Int
  BY PaidIs
<1>2. s \in Seq(Int) /\ Len(s) = m /\ \A i \in 1 .. m : s[i] \in Int
  BY SharesAre
<1>3. l \in Int /\ k < c(m)
  BY LeftIs
<1>4. k \in Nat /\ g \in {-1, 0, 1} /\ g * k = l
  BY <1>3 DEF Abs, Sign
<1>5. PICK p : Partial(s, p) /\ SumOf(s) = p[m]
  BY <1>2, SumIs
<1>6. /\ c(0) = 0 /\ \A n \in 0 .. m : c(n) \in Nat
      /\ \A n \in 1 .. m : c(n) = c(n - 1) + (IF w[n] # 0 THEN 1 ELSE 0)
  BY ClaimantsAre
<1>7. p[0] = 0 /\ \A n \in 0 .. m : p[n] \in Int
  BY <1>2, <1>5 DEF Partial
<1>8. \A n \in 1 .. m : p[n] = p[n - 1] + s[n]
  BY <1>2, <1>5 DEF Partial
<1>9. \A i \in 1 .. m : x(i) = IF w[i] # 0 /\ c(i) =< k THEN g ELSE 0
  BY DEF Extra
<1>10. SumOf(s) = a - l
  <2>1. \E q : Partial(s, q)
    BY <1>5
  <2>2. SumOf(s) \in Int
    BY <1>2, <1>5, SumFrom
  <2>3. QED BY <2>2 DEF Left
<1> HIDE DEF s, l, d, m, c, x, g, k
<1> DEFINE paid(n) == IF c(n) =< k THEN c(n) ELSE k
           r == [n \in 0 .. m |-> p[n] + g * paid(n)]
<1>11. \A n \in 0 .. m : paid(n) \in Nat
  BY <1>4, <1>6
<1>12. ASSUME NEW n \in 1 .. m PROVE g * paid(n) = g * paid(n - 1) + x(n)
  <2>1. n \in 0 .. m /\ n - 1 \in 0 .. m /\ c(n) \in Nat /\ c(n - 1) \in Nat
    BY <1>1, <1>6
  <2>2. CASE w[n] # 0 /\ c(n) =< k
    <3>1. x(n) = g /\ paid(n) = paid(n - 1) + 1
      BY <1>4, <1>6, <1>9, <2>1, <2>2
    <3>2. paid(n - 1) \in Nat
      BY <1>11, <2>1
    <3> HIDE DEF paid
    <3>3. g * (paid(n - 1) + 1) = g * paid(n - 1) + g
      BY <1>4, <3>2
    <3>4. QED BY <3>1, <3>3
  <2>3. CASE ~(w[n] # 0 /\ c(n) =< k)
    <3>1. x(n) = 0 /\ paid(n) = paid(n - 1)
      BY <1>4, <1>6, <1>9, <2>1, <2>3
    <3>2. paid(n - 1) \in Nat
      BY <1>11, <2>1
    <3> HIDE DEF paid
    <3>3. g * paid(n - 1) \in Int
      BY <1>4, <3>2
    <3>4. QED BY <3>1, <3>3
  <2>4. QED BY <2>2, <2>3
<1>13. paid(0) = 0 /\ paid(m) = k
  BY <1>3, <1>4, <1>6, <1>1
<1> HIDE DEF paid
<1>14. \A n \in 0 .. m : r[n] = p[n] + g * paid(n)
  OBVIOUS
<1>15. r = [n \in 0 .. m |-> r[n]]
  OBVIOUS
<1> HIDE DEF r
<1>16. \A n \in 0 .. m : g * paid(n) \in Int
  BY <1>4, <1>11
<1>17. \A n \in 0 .. m : r[n] \in Int
  BY <1>7, <1>14, <1>16
<1>18. r[0] = 0
  <2>1. 0 \in 0 .. m
    BY <1>1
  <2>2. g * paid(0) = 0
    BY <1>4, <1>13
  <2>3. r[0] = p[0] + g * paid(0)
    BY <1>14, <2>1
  <2>4. QED BY <1>7, <2>2, <2>3
<1>19. ASSUME NEW n \in 1 .. m PROVE r[n] = r[n - 1] + d[n]
  <2>1. n \in 0 .. m /\ n - 1 \in 0 .. m
    BY <1>1
  <2>2. r[n] = p[n] + g * paid(n) /\ r[n - 1] = p[n - 1] + g * paid(n - 1)
    BY <1>14, <2>1
  <2>3. p[n] = p[n - 1] + s[n] /\ g * paid(n) = g * paid(n - 1) + x(n) /\ d[n] = s[n] + x(n)
    BY <1>1, <1>8, <1>12
  <2>4. p[n - 1] \in Int /\ s[n] \in Int /\ g * paid(n - 1) \in Int
    BY <1>2, <1>7, <1>16, <2>1
  <2>5. x(n) \in Int
    BY <1>4, <1>9
  <2> DEFINE e == g * paid(n)
             f == g * paid(n - 1)
  <2>6. r[n] = p[n] + e /\ r[n - 1] = p[n - 1] + f /\ e = f + x(n) /\ f \in Int
    BY <2>2, <2>3, <2>4
  <2> HIDE DEF e, f
  <2>7. QED BY <2>3, <2>4, <2>5, <2>6
<1>20. Partial(d, r)
  BY <1>1, <1>15, <1>17, <1>18, <1>19 DEF Partial
<1>21. SumOf(d) = r[m]
  BY <1>1, <1>20, SumFrom
<1>22. r[m] = p[m] + l
  <2>1. m \in 0 .. m
    BY <1>1
  <2>2. r[m] = p[m] + g * paid(m)
    BY <1>14, <2>1
  <2>3. g * paid(m) = l
    BY <1>4, <1>13
  <2>4. QED BY <2>2, <2>3
<1>23. p[m] = a - l /\ l \in Int
  BY <1>3, <1>5, <1>10
<1>24. SumOf(d) = a
  BY <1>21, <1>22, <1>23
<1>25. QED BY <1>24 DEF d

\* What an amount of money is allocated to is money.
LEMMA PaidMoney ==
    ASSUME NEW a \in Int, InDomain(a), NEW w \in Seq(Weights), SumOf(w) # 0
    PROVE  Paid(a, w) \in Seq(Money)
<1> DEFINE d == Paid(a, w)
<1>1. /\ d \in Seq(Int) /\ Len(d) = Len(w)
      /\ \A i \in 1 .. Len(w) : /\ d[i] = Shared(a, w)[i] + Extra(a, w, i)
                                /\ Extra(a, w, i) \in {-1, 0, 1} /\ d[i] \in Int
                                /\ a >= 0 => Extra(a, w, i) >= 0
                                /\ a =< 0 => Extra(a, w, i) =< 0
  BY PaidIs
<1>2. \A i \in 1 .. Len(w) : /\ Shared(a, w)[i] \in Int
                             /\ a >= 0 => Shared(a, w)[i] >= 0
                             /\ a =< 0 => Shared(a, w)[i] =< 0
  BY SharesAre
<1>3. SumOf(d) = a
  BY PaidSum
<1> HIDE DEF d
<1>4. \A i \in 1 .. Len(d) : (a >= 0 => d[i] >= 0) /\ (a =< 0 => d[i] =< 0) /\ d[i] \in Int
  <2> SUFFICES ASSUME NEW i \in 1 .. Len(w)
               PROVE  (a >= 0 => d[i] >= 0) /\ (a =< 0 => d[i] =< 0) /\ d[i] \in Int
    BY <1>1
  <2> DEFINE s == Shared(a, w)[i]
             x == Extra(a, w, i)
  <2>1. d[i] = s + x /\ s \in Int /\ x \in Int /\ d[i] \in Int
        /\ (a >= 0 => s >= 0 /\ x >= 0) /\ (a =< 0 => s =< 0 /\ x =< 0)
    BY <1>1, <1>2
  <2> HIDE DEF s, x
  <2>2. QED BY <2>1
<1>5. \A i \in 1 .. Len(d) : (a >= 0 => d[i] =< a) /\ (a =< 0 => a =< d[i])
  BY <1>1, <1>3, <1>4, PartOfSum
<1>6. -DomainMax =< a /\ a =< DomainMax /\ DomainMax \in Nat
  BY Widths DEF InDomain
<1>7. \A i \in 1 .. Len(d) : d[i] \in Money
  BY <1>4, <1>5, <1>6 DEF Money
<1>8. d \in [1 .. Len(d) -> Money] /\ Len(d) \in Nat
  BY <1>1, <1>7
<1>9. QED BY <1>8 DEF d

\* Numbers of one sign add up to that side.
LEMMA SumSign ==
    ASSUME NEW s \in Seq(Int)
    PROVE  /\ SumOf(s) \in Int
           /\ (\A i \in 1 .. Len(s) : s[i] >= 0) => SumOf(s) >= 0
           /\ (\A i \in 1 .. Len(s) : s[i] =< 0) => SumOf(s) =< 0
<1>1. SumOf(s) \in Int
  <2>1. \E p : Partial(s, p)
    BY SumIs
  <2>2. QED BY <2>1, SumFrom
<1>2. CASE s = <<>>
  BY <1>1, <1>2, SumEmpty
<1>3. CASE s # <<>>
  <2>1. 1 \in 1 .. Len(s) /\ s[1] \in Int
    BY <1>3
  <2>2. QED BY <1>1, <2>1, PartOfSum
<1>4. QED BY <1>2, <1>3

\* Numbers of one sign: what the first n add up to lies between none and all.
LEMMA FrontOfSum ==
    ASSUME NEW s \in Seq(Int), NEW n \in 1 .. Len(s)
    PROVE  LET front == SumOf(SubSeq(s, 1, n)) IN
           /\ front \in Int /\ SumOf(s) \in Int
           /\ (\A i \in 1 .. Len(s) : s[i] >= 0) => 0 =< front /\ front =< SumOf(s)
           /\ (\A i \in 1 .. Len(s) : s[i] =< 0) => SumOf(s) =< front /\ front =< 0
<1>1. PICK m \in Nat : m = Len(s)
  OBVIOUS
<1>2. n \in Nat /\ 1 =< n /\ n =< m
  BY <1>1
<1>3. PICK a : a = SubSeq(s, 1, n)
  OBVIOUS
<1>4. PICK b : b = SubSeq(s, n + 1, m)
  OBVIOUS
<1>5. a \in Seq(Int) /\ Len(a) = n /\ \A i \in 1 .. n : a[i] = s[i]
  BY <1>1, <1>2, <1>3, SubSeqProperties
<1>6. b \in Seq(Int) /\ Len(b) = m - n /\ \A i \in 1 .. m - n : b[i] = s[n + i]
  <2>1. \A i \in n + 1 .. m : s[i] \in Int
    BY <1>1, <1>2
  <2>2. /\ b \in Seq(Int)
        /\ Len(b) = IF n + 1 =< m THEN m - (n + 1) + 1 ELSE 0
        /\ \A i \in 1 .. m - (n + 1) + 1 : b[i] = s[(n + 1) + i - 1]
    BY <1>1, <1>2, <1>4, <2>1, SubSeqProperties
  <2>3. Len(b) = m - n
    BY <1>2, <2>2
  <2>4. m - (n + 1) + 1 = m - n
    BY <1>2
  <2>5. ASSUME NEW i \in 1 .. m - n PROVE b[i] = s[n + i]
    <3>1. b[i] = s[(n + 1) + i - 1]
      BY <2>2, <2>4
    <3>2. (n + 1) + i - 1 = n + i
      BY <1>2
    <3>3. QED BY <3>1, <3>2
  <2>6. QED BY <2>2, <2>3, <2>5
<1>7. a \o b = s
  <2>1. /\ a \o b \in Seq(Int) /\ Len(a \o b) = n + (m - n)
        /\ \A i \in 1 .. n + (m - n) : (a \o b)[i] = IF i <= n THEN a[i] ELSE b[i - n]
    <3>1. /\ a \o b \in Seq(Int) /\ Len(a \o b) = Len(a) + Len(b)
          /\ \A i \in 1 .. Len(a) + Len(b) :
               (a \o b)[i] = IF i <= Len(a) THEN a[i] ELSE b[i - Len(a)]
      BY <1>5, <1>6, ConcatProperties
    <3>2. Len(a) = n /\ Len(b) = m - n
      BY <1>5, <1>6
    <3>3. QED BY <3>1, <3>2
  <2>2. n + (m - n) = m
    BY <1>2
  <2>3. ASSUME NEW i \in 1 .. m PROVE (a \o b)[i] = s[i]
    <3>1. (a \o b)[i] = IF i <= n THEN a[i] ELSE b[i - n]
      BY <2>1, <2>2
    <3>2. CASE i <= n
      <4>1. i \in 1 .. n
        BY <1>2, <3>2
      <4>2. QED BY <1>5, <3>1, <3>2, <4>1
    <3>3. CASE ~(i <= n)
      <4>1. i - n \in 1 .. m - n /\ n + (i - n) = i
        BY <1>2, <3>3
      <4>2. b[i - n] = s[n + (i - n)]
        BY <1>6, <4>1
      <4>3. QED BY <3>1, <3>3, <4>1, <4>2
    <3>4. QED BY <3>2, <3>3
  <2>4. QED BY <1>1, <2>1, <2>2, <2>3, SeqEqual
<1>8. SumOf(s) = SumOf(a) + SumOf(b)
  BY <1>5, <1>6, <1>7, SumConcat
<1>9. SumOf(a) \in Int /\ SumOf(b) \in Int
  BY <1>5, <1>6, SumSign
<1>10. ASSUME \A i \in 1 .. Len(s) : s[i] >= 0 PROVE 0 =< SumOf(a) /\ SumOf(a) =< SumOf(s)
  <2>1. \A i \in 1 .. Len(a) : a[i] >= 0
    BY <1>1, <1>2, <1>5, <1>10
  <2>2. ASSUME NEW i \in 1 .. Len(b) PROVE b[i] >= 0
    <3>1. n + i \in 1 .. Len(s) /\ b[i] = s[n + i]
      BY <1>1, <1>2, <1>6
    <3>2. QED BY <1>10, <3>1
  <2>3. SumOf(a) >= 0 /\ SumOf(b) >= 0
    BY <1>5, <1>6, <2>1, <2>2, SumSign
  <2>4. QED BY <1>8, <1>9, <2>3
<1>11. ASSUME \A i \in 1 .. Len(s) : s[i] =< 0 PROVE SumOf(s) =< SumOf(a) /\ SumOf(a) =< 0
  <2>1. \A i \in 1 .. Len(a) : a[i] =< 0
    BY <1>1, <1>2, <1>5, <1>11
  <2>2. ASSUME NEW i \in 1 .. Len(b) PROVE b[i] =< 0
    <3>1. n + i \in 1 .. Len(s) /\ b[i] = s[n + i]
      BY <1>1, <1>2, <1>6
    <3>2. QED BY <1>11, <3>1
  <2>3. SumOf(a) =< 0 /\ SumOf(b) =< 0
    BY <1>5, <1>6, <2>1, <2>2, SumSign
  <2>4. QED BY <1>8, <1>9, <2>3
<1>12. QED BY <1>3, <1>8, <1>9, <1>10, <1>11

\* The sum of a slice of weights fits an i128.
LEMMA TotalFits ==
    ASSUME NEW w \in Slices PROVE w \in Seq(Weights) /\ SumOf(w) \in Narrow
<1>1. /\ w \in Seq(Weights) /\ Len(w) =< CountMax
      /\ CountMax \in Nat /\ MaxDivisor \in Nat /\ CountMax * MaxDivisor =< NarrowMax /\ NarrowMax \in Nat
  BY KernelAssumption, Widths DEF Slices
<1>2. PICK m \in Nat : m = Len(w)
  BY <1>1
<1>3. \A i \in 1 .. m : w[i] \in Nat /\ w[i] =< MaxDivisor
  BY <1>1, <1>2 DEF Weights
<1>4. w \in Seq(Int)
  <2>1. Weights \subseteq Int
    BY <1>1 DEF Weights
  <2>2. QED BY <1>1, <2>1, SeqMonotonic
<1>5. PICK p : Partial(w, p) /\ SumOf(w) = p[m]
  BY <1>2, <1>4, SumIs
<1>6. p[0] = 0 /\ \A n \in 0 .. m : p[n] \in Int
  BY <1>2, <1>5 DEF Partial
<1>7. \A n \in 1 .. m : p[n] = p[n - 1] + w[n]
  BY <1>2, <1>5 DEF Partial
<1> DEFINE H == {n \in Nat : n =< m => 0 =< p[n] /\ p[n] =< n * MaxDivisor}
<1>8. 0 \in H
  BY <1>1, <1>6
<1>9. ASSUME NEW n \in Nat, n \in H PROVE n + 1 \in H
  <2> SUFFICES ASSUME n + 1 =< m PROVE 0 =< p[n + 1] /\ p[n + 1] =< (n + 1) * MaxDivisor
    OBVIOUS
  <2>1. n + 1 \in 1 .. m /\ n + 1 - 1 = n /\ n \in 0 .. m
    BY <1>2
  <2>2. p[n] \in Int /\ 0 =< p[n] /\ p[n] =< n * MaxDivisor
    BY <1>6, <1>9, <2>1
  <2>3. p[n + 1] = p[n] + w[n + 1] /\ w[n + 1] \in Nat /\ w[n + 1] =< MaxDivisor
    BY <1>3, <1>7, <2>1
  <2>4. (n + 1) * MaxDivisor = n * MaxDivisor + MaxDivisor /\ n * MaxDivisor \in Nat
    BY <1>1
  <2>5. QED BY <1>1, <2>2, <2>3, <2>4
<1>10. m \in H
  <2> HIDE DEF H
  <2>1. QED BY <1>2, <1>8, <1>9, Counting
<1>11. 0 =< p[m] /\ p[m] =< m * MaxDivisor /\ p[m] \in Int
  BY <1>2, <1>6, <1>10
<1>12. m * MaxDivisor =< CountMax * MaxDivisor /\ m * MaxDivisor \in Int /\ CountMax * MaxDivisor \in Int
  BY <1>1, <1>2
<1>13. p[m] \in Narrow
  BY <1>1, <1>11, <1>12 DEF Narrow
<1>14. QED BY <1>1, <1>5, <1>13

\* No position fails, and what is left is fewer units than there are claims.
LEMMA AllocationFits ==
    ASSUME NEW a \in Int, InDomain(a), NEW w \in Slices, SumOf(w) # 0
    PROVE  /\ \A i \in DOMAIN w :
                /\ a * w[i] \in Wide /\ Shared(a, w)[i] \in Narrow
                /\ a - SumOf(SubSeq(Shared(a, w), 1, i)) \in Narrow
                /\ Paid(a, w)[i] \in Narrow
           /\ ~(Abs(Left(a, w)) > CountMax)
           /\ ~(Abs(Left(a, w)) >= Cardinality(Claims(w)))
           /\ \A i \in DOMAIN Paid(a, w) : InDomain(Paid(a, w)[i])
<1>1. w \in Seq(Weights) /\ Len(w) =< CountMax
  BY DEF Slices
<1>2. PICK m \in Nat : m = Len(w) /\ DOMAIN w = 1 .. m
  BY <1>1
<1>3. PICK s : s = Shared(a, w)
  OBVIOUS
<1>4. PICK d : d = Paid(a, w)
  OBVIOUS
<1>5. /\ s \in Seq(Int) /\ Len(s) = m
      /\ \A i \in 1 .. m : s[i] \in Int /\ (a >= 0 => s[i] >= 0) /\ (a =< 0 => s[i] =< 0)
  BY <1>1, <1>2, <1>3, SharesAre
<1>6. /\ Left(a, w) \in Int /\ Abs(Left(a, w)) < Claimants(w, m)
      /\ a >= 0 => Left(a, w) >= 0
      /\ a =< 0 => Left(a, w) =< 0
  BY <1>1, <1>2, LeftIs
<1>7. PICK l \in Int : l = Left(a, w)
  BY <1>6
<1>8. SumOf(s) = a - l /\ SumOf(s) \in Int
  <2>1. SumOf(s) \in Int
    BY <1>5, SumSign
  <2>2. l = a - SumOf(s)
    BY <1>3, <1>7 DEF Left
  <2>3. QED BY <2>1, <2>2
<1>9. -DomainMax =< a /\ a =< DomainMax /\ DomainMax \in Nat
  BY Widths DEF InDomain
<1>10. ASSUME NEW u \in Int, (0 =< u /\ u =< a) \/ (a =< u /\ u =< 0) PROVE u \in Narrow
  <2>1. InDomain(u)
    BY <1>9, <1>10 DEF InDomain
  <2>2. QED BY <2>1, DomainIs
<1>11. ASSUME NEW i \in 1 .. m PROVE s[i] \in Narrow
  <2>1. CASE a >= 0
    <3>1. \A k \in 1 .. Len(s) : s[k] >= 0
      BY <1>5, <2>1
    <3>2. s[i] =< SumOf(s)
      BY <1>5, <3>1, PartOfSum
    <3>3. s[i] \in Int /\ 0 =< s[i] /\ l >= 0 /\ SumOf(s) = a - l
      BY <1>5, <1>6, <1>7, <1>8, <2>1
    <3>4. s[i] =< a
      BY <3>2, <3>3
    <3>5. QED BY <1>10, <3>3, <3>4
  <2>2. CASE a < 0
    <3>1. \A k \in 1 .. Len(s) : s[k] =< 0
      BY <1>5, <2>2
    <3>2. SumOf(s) =< s[i]
      BY <1>5, <3>1, PartOfSum
    <3>3. a =< s[i] /\ s[i] =< 0 /\ s[i] \in Int
      BY <1>5, <1>6, <1>7, <1>8, <2>2, <3>2
    <3>4. QED BY <1>10, <3>3
  <2>3. QED BY <2>1, <2>2
<1>12. ASSUME NEW i \in 1 .. m PROVE a - SumOf(SubSeq(s, 1, i)) \in Narrow
  <2>1. PICK f : f = SumOf(SubSeq(s, 1, i))
    OBVIOUS
  <2>2. i \in 1 .. Len(s)
    BY <1>5
  <2>3. /\ f \in Int
        /\ (\A k \in 1 .. Len(s) : s[k] >= 0) => 0 =< f /\ f =< SumOf(s)
        /\ (\A k \in 1 .. Len(s) : s[k] =< 0) => SumOf(s) =< f /\ f =< 0
    BY <1>5, <2>1, <2>2, FrontOfSum
  <2>4. CASE a >= 0
    <3>1. \A k \in 1 .. Len(s) : s[k] >= 0
      BY <1>5, <2>4
    <3>2. 0 =< f /\ f =< SumOf(s)
      BY <2>3, <3>1
    <3>3. l >= 0 /\ SumOf(s) = a - l /\ f \in Int
      BY <1>6, <1>7, <1>8, <2>3, <2>4
    <3>4. 0 =< a - f /\ a - f =< a /\ a - f \in Int
      BY <3>2, <3>3
    <3>5. QED BY <1>10, <2>1, <3>4
  <2>5. CASE a < 0
    <3>1. \A k \in 1 .. Len(s) : s[k] =< 0
      BY <1>5, <2>5
    <3>2. SumOf(s) =< f /\ f =< 0
      BY <2>3, <3>1
    <3>3. a =< a - f /\ a - f =< 0 /\ a - f \in Int
      BY <1>6, <1>7, <1>8, <2>3, <2>5, <3>2
    <3>4. QED BY <1>10, <2>1, <3>3
  <2>6. QED BY <2>4, <2>5
<1>13. ASSUME NEW i \in 1 .. m PROVE a * w[i] \in Wide
  <2>1. w[i] \in Weights
    BY <1>1, <1>2
  <2>2. a \in Money /\ MaxDivisor =< DomainMax /\ MaxDivisor \in Nat
    BY <1>9, KernelAssumption DEF Money
  <2>3. CASE w[i] = 0
    BY <2>3, Widths DEF Wide
  <2>4. CASE w[i] # 0
    <3>1. w[i] \in 1 .. DomainMax
      BY <1>9, <2>1, <2>2, <2>4 DEF Weights
    <3>2. QED BY <2>2, <3>1, ProductFits
  <2>5. QED BY <2>3, <2>4
<1>14. d \in Seq(Money) /\ Len(d) = m
  BY <1>1, <1>2, <1>4, PaidMoney, PaidIs
<1>15. ASSUME NEW i \in 1 .. m PROVE InDomain(d[i]) /\ d[i] \in Narrow
  <2>1. d[i] \in Money /\ d[i] \in Int
    BY <1>9, <1>14 DEF Money
  <2>2. InDomain(d[i])
    BY <1>9, <2>1 DEF Money, InDomain
  <2>3. QED BY <2>1, <2>2, DomainIs
<1>16. Claimants(w, m) \in Nat /\ Claimants(w, m) =< m
  <2>1. IsFiniteSet(1 .. m) /\ Cardinality(1 .. m) = m
    <3>1. Cardinality(1 .. m) = IF 1 > m THEN 0 ELSE m - 1 + 1
      BY FS_Interval
    <3>2. IsFiniteSet(1 .. m)
      BY FS_Interval
    <3>3. QED BY <3>1, <3>2
  <2>2. {i \in 1 .. m : w[i] # 0} \in SUBSET (1 .. m)
    OBVIOUS
  <2>3. Cardinality({i \in 1 .. m : w[i] # 0}) =< Cardinality(1 .. m)
    BY <2>1, <2>2, FS_Subset
  <2>4. Claimants(w, m) \in Nat
    BY <1>1, <1>2, ClaimantsAre
  <2>5. QED BY <2>1, <2>3, <2>4 DEF Claimants
<1>17. Cardinality(Claims(w)) = Claimants(w, m)
  BY <1>1, <1>2, ClaimantsAre
<1>18. PICK k \in Int : k = Abs(l) /\ k < Claimants(w, m)
  BY <1>6, <1>7 DEF Abs
<1>19. CountMax \in Nat
  BY KernelAssumption
<1>20. ~(k > CountMax) /\ ~(k >= Cardinality(Claims(w)))
  BY <1>1, <1>2, <1>16, <1>17, <1>18, <1>19
<1>21. DOMAIN d = 1 .. m
  BY <1>2, <1>14
<1>22. QED BY <1>2, <1>3, <1>4, <1>7, <1>11, <1>12, <1>13, <1>15, <1>18, <1>20, <1>21

\* An allocation refuses an amount that is no money and weights without a claim;
\* what it hands out is paid as above, and every part is money.
LEMMA AllocationIs ==
    ASSUME NEW a \in Int, NEW w \in Slices
    PROVE  AllocateMoney(a, w) = IF ~InDomain(a) THEN OutOfDomain(a)
                                 ELSE IF SumOf(w) = 0 THEN InvalidWeights(Len(w))
                                 ELSE Ok(Paid(a, w))
<1> DEFINE Fails(i) == \/ a * w[i] \notin Wide \/ Shared(a, w)[i] \notin Narrow
                       \/ a - SumOf(SubSeq(Shared(a, w), 1, i)) \notin Narrow
                       \/ Paid(a, w)[i] \notin Narrow
           Broken == \/ SumOf(w) \notin Narrow \/ \E i \in DOMAIN w : Fails(i)
                     \/ Abs(Left(a, w)) > CountMax
                     \/ Abs(Left(a, w)) >= Cardinality(Claims(w))
<1>1. AllocateUnits(a, w) =
        IF ~InDomain(a) THEN OutOfDomain(a)
        ELSE IF SumOf(w) = 0 THEN InvalidWeights(Len(w))
        ELSE IF Broken THEN Panic
        ELSE Ok(Paid(a, w))
  BY DEF AllocateUnits, Shared, Left, Paid, Claims
<1>2. AllocateMoney(a, w) =
        IF /\ AllocateUnits(a, w).tag = "Ok"
           /\ \E i \in DOMAIN AllocateUnits(a, w).value : ~InDomain(AllocateUnits(a, w).value[i])
        THEN Panic ELSE AllocateUnits(a, w)
  BY DEF AllocateMoney
<1> HIDE DEF Broken
<1>3. CASE ~InDomain(a)
  <2>1. AllocateUnits(a, w) = OutOfDomain(a)
    BY <1>1, <1>3
  <2>2. OutOfDomain(a).tag # "Ok"
    BY DEF OutOfDomain
  <2>3. QED BY <1>2, <1>3, <2>1, <2>2
<1>4. CASE InDomain(a) /\ SumOf(w) = 0
  <2>1. AllocateUnits(a, w) = InvalidWeights(Len(w))
    BY <1>1, <1>4
  <2>2. InvalidWeights(Len(w)).tag # "Ok"
    BY DEF InvalidWeights
  <2>3. QED BY <1>2, <1>4, <2>1, <2>2
<1>5. CASE InDomain(a) /\ SumOf(w) # 0
  <2>1. ~Broken
    <3>1. SumOf(w) \in Narrow
      BY TotalFits
    <3>2. /\ \A i \in DOMAIN w : ~Fails(i)
          /\ ~(Abs(Left(a, w)) > CountMax)
          /\ ~(Abs(Left(a, w)) >= Cardinality(Claims(w)))
      BY <1>5, AllocationFits
    <3> HIDE DEF Fails
    <3>3. QED BY <3>1, <3>2 DEF Broken
  <2>2. AllocateUnits(a, w) = Ok(Paid(a, w))
    BY <1>1, <1>5, <2>1
  <2>3. Ok(Paid(a, w)).value = Paid(a, w)
    BY DEF Ok
  <2>4. \A i \in DOMAIN Paid(a, w) : InDomain(Paid(a, w)[i])
    BY <1>5, AllocationFits
  <2>5. QED BY <1>2, <1>5, <2>2, <2>3, <2>4
<1>6. QED BY <1>3, <1>4, <1>5

\* A split hands out all its parts, and all are money.
LEMMA SplitAllIs ==
    ASSUME NEW a \in Money, NEW n \in Divisors
    PROVE  \E parts : SplitAll(a, n) = Ok(parts)
<1>1. PICK t : t = Split(a, n)
  OBVIOUS
<1>2. t.extra \in 0 .. n /\ \A k \in 0 .. n - 1 : PartAt(t, k) \in Money
  BY <1>1, SplitExact
<1>3. PICK parts : parts = [k \in 1 .. n |-> PartAt(t, k - 1)]
  OBVIOUS
<1>4. n \in Nat \ {0} /\ n =< MaxDivisor /\ MaxDivisor \in Nat /\ MaxDivisor =< CountMax /\ CountMax \in Nat
  BY KernelAssumption DEF Divisors
<1>5. ~(n > CountMax) /\ ~(t.extra > CountMax)
  BY <1>2, <1>4
<1>6. ASSUME NEW k \in 1 .. n PROVE parts[k] \in Narrow /\ InDomain(parts[k])
  <2>1. k - 1 \in 0 .. n - 1 /\ parts[k] = PartAt(t, k - 1)
    BY <1>3, <1>4
  <2>2. parts[k] \in Money
    BY <1>2, <2>1
  <2>3. parts[k] \in Int /\ InDomain(parts[k])
    BY <2>2, Widths DEF Money, InDomain
  <2>4. QED BY <2>3, DomainIs
<1>7. SplitAll(a, n) = IF \/ n > CountMax \/ t.extra > CountMax
                          \/ \E k \in 1 .. n : parts[k] \notin Narrow \/ ~InDomain(parts[k])
                       THEN Panic ELSE Ok(parts)
  BY <1>1, <1>3 DEF SplitAll
<1>8. SplitAll(a, n) = Ok(parts)
  BY <1>5, <1>6, <1>7
<1>9. QED BY <1>8

\* Every position is paid its share to within a unit, and a weight of zero nothing.
LEMMA PaidNear ==
    ASSUME NEW a \in Int, NEW w \in Seq(Weights), SumOf(w) # 0, NEW i \in 1 .. Len(w)
    PROVE  /\ w[i] = 0 => Paid(a, w)[i] = 0
           /\ Abs(Paid(a, w)[i] * SumOf(w) - a * w[i]) =< SumOf(w)
<1> DEFINE total == SumOf(w)
           s == Shared(a, w)[i]
           x == Extra(a, w, i)
           r == Rest(a, w, i)
           d == Paid(a, w)[i]
<1>1. /\ total \in Nat \ {0} /\ w[i] \in Nat /\ s \in Int /\ r \in Int /\ Abs(r) < total
      /\ r = a * w[i] - s * total
      /\ a >= 0 => r >= 0
      /\ a =< 0 => r =< 0
      /\ w[i] = 0 => s = 0
  BY SharesAre
<1>2. d = s + x /\ x \in {-1, 0, 1} /\ (a >= 0 => x >= 0) /\ (a =< 0 => x =< 0)
  BY PaidIs
<1>3. w[i] = 0 => x = 0
  BY DEF Extra
<1> HIDE DEF total, s, x, r, d
<1>4. (s + x) * total = s * total + x * total
  BY <1>1, <1>2
<1>5. s * total \in Int /\ a * w[i] \in Int
  BY <1>1
<1>6. d * total - a * w[i] = x * total - r
  <2>1. x * total \in Int
    BY <1>1, <1>2
  <2>2. d * total = s * total + x * total
    BY <1>2, <1>4
  <2>3. r = a * w[i] - s * total /\ r \in Int
    BY <1>1
  <2>4. QED BY <1>5, <2>1, <2>2, <2>3
<1>7. CASE a >= 0
  <2>1. x * total \in {0, total}
    BY <1>1, <1>2, <1>7
  <2>2. 0 =< r /\ r < total
    BY <1>1, <1>7 DEF Abs
  <2>3. Abs(x * total - r) =< total
    BY <1>1, <2>1, <2>2 DEF Abs
  <2>4. QED BY <1>1, <1>2, <1>3, <1>6, <2>3 DEF d, total
<1>8. CASE a < 0
  <2>1. x * total \in {0, -total}
    BY <1>1, <1>2, <1>8
  <2>2. r =< 0 /\ -total < r
    BY <1>1, <1>8 DEF Abs
  <2>3. Abs(x * total - r) =< total
    BY <1>1, <2>1, <2>2 DEF Abs
  <2>4. QED BY <1>1, <1>2, <1>3, <1>6, <2>3 DEF d, total
<1>9. QED BY <1>7, <1>8

\* Of equal claims the earlier is paid no less, and a unit more at most.
LEMMA PaidInOrder ==
    ASSUME NEW a \in Int, NEW w \in Seq(Weights), SumOf(w) # 0,
           NEW i \in 1 .. Len(w), NEW j \in 1 .. Len(w), i < j, w[i] = w[j]
    PROVE  Abs(Paid(a, w)[i]) - Abs(Paid(a, w)[j]) \in {0, 1}
<1> DEFINE s(k) == Shared(a, w)[k]
           x(k) == Extra(a, w, k)
           l == Left(a, w)
<1>1. \A k \in 1 .. Len(w) : /\ s(k) = Share(a, w[k], SumOf(w)) /\ s(k) \in Int
                             /\ a >= 0 => s(k) >= 0
                             /\ a =< 0 => s(k) =< 0
                             /\ w[k] \in Nat
  BY SharesAre
<1>2. s(i) = s(j)
  BY <1>1
<1>3. \A k \in 1 .. Len(w) : /\ Paid(a, w)[k] = s(k) + x(k) /\ x(k) \in {-1, 0, 1}
                             /\ a >= 0 => x(k) >= 0
                             /\ a =< 0 => x(k) =< 0
  BY PaidIs
<1>4. \A k \in 1 .. Len(w) : x(k) = IF w[k] # 0 /\ Claimants(w, k) =< Abs(l) THEN Sign(l) ELSE 0
  BY DEF Extra
<1>5. l \in Int
  BY LeftIs
<1>6. w[j] # 0 => Claimants(w, i) < Claimants(w, j)
  BY ClaimantsAre
<1>7. Claimants(w, i) \in Nat /\ Claimants(w, j) \in Nat
  <2>1. i \in 0 .. Len(w) /\ j \in 0 .. Len(w)
    OBVIOUS
  <2>2. QED BY <2>1, ClaimantsAre
<1> HIDE DEF s, x, l
<1>8. Abs(l) \in Int
  BY <1>5 DEF Abs
<1>9. x(j) = 0 \/ x(j) = x(i)
  BY <1>4, <1>6, <1>7, <1>8
<1>10. /\ s(i) \in Int /\ s(j) = s(i)
       /\ Paid(a, w)[i] = s(i) + x(i) /\ Paid(a, w)[j] = s(i) + x(j)
       /\ x(i) \in {-1, 0, 1} /\ x(j) \in {-1, 0, 1}
       /\ a >= 0 => s(i) >= 0 /\ x(i) >= 0 /\ x(j) >= 0
       /\ a =< 0 => s(i) =< 0 /\ x(i) =< 0 /\ x(j) =< 0
  BY <1>1, <1>2, <1>3
<1>11. CASE a >= 0
  BY <1>9, <1>10, <1>11 DEF Abs
<1>12. CASE a =< 0
  BY <1>9, <1>10, <1>12 DEF Abs
<1>13. QED BY <1>11, <1>12

\* With one claim each, the parts are those of a split.
LEMMA PaidAsSplit ==
    ASSUME NEW a \in Int, NEW w \in Seq(Weights), SumOf(w) # 0,
           \A j \in DOMAIN w : w[j] = 1, NEW i \in 1 .. Len(w)
    PROVE  Paid(a, w)[i] = PartAt(Split(a, Len(w)), i - 1)
<1> DEFINE n == Len(w)
           base == Truncated(a, n)
           left == a - base * n
           l == Left(a, w)
<1>1. n \in Nat \ {0} /\ DOMAIN w = 1 .. n /\ \A k \in 1 .. n : w[k] = 1
  OBVIOUS
<1>2. SumOf(w) = n
  <2>1. w = [j \in 1 .. n |-> 1]
    BY <1>1
  <2>2. SumOf([j \in 1 .. n |-> 1]) = 1 * n
    <3> HIDE DEF n
    <3>1. n \in Nat /\ 1 \in Int
      BY <1>1
    <3>2. QED BY <3>1, SumConstant
  <2>3. QED BY <1>1, <2>1, <2>2
<1>3. \A k \in 1 .. n : Shared(a, w)[k] = Share(a, w[k], SumOf(w))
  BY SharesAre
<1>4. Share(a, 1, n) = base
  <2>1. a * 1 = a
    OBVIOUS
  <2>2. QED BY <2>1 DEF Share, DivRound, Bump
<1>5. base \in Int
  BY <1>1, TruncatedExact
<1>6. \A k \in 1 .. n : Shared(a, w)[k] = base
  BY <1>1, <1>2, <1>3, <1>4
<1>7. Shared(a, w) = [k \in 1 .. n |-> base]
  BY <1>1, <1>6 DEF Shared
<1> HIDE DEF base
<1>8. SumOf([k \in 1 .. n |-> base]) = base * n
  <2> HIDE DEF n
  <2>1. QED BY <1>1, <1>5, SumConstant
<1>9. l = left
  BY <1>7, <1>8 DEF Left
<1>10. l \in Int
  BY LeftIs
<1>11. Claimants(w, i) = i
  <2>1. {k \in 1 .. i : w[k] # 0} = 1 .. i
    BY <1>1
  <2>2. Cardinality(1 .. i) = i
    BY FS_Interval
  <2>3. QED BY <2>1, <2>2 DEF Claimants
<1>12. Paid(a, w)[i] = base + Extra(a, w, i)
  BY <1>6, PaidIs
<1>13. Extra(a, w, i) = IF i =< Abs(l) THEN Sign(l) ELSE 0
  BY <1>1, <1>11 DEF Extra
<1>14. Split(a, n) = [base |-> base, step |-> IF left < 0 THEN -1 ELSE 1, extra |-> Abs(left)]
  BY DEF Split, base
<1>15. PartAt(Split(a, n), i - 1) =
         IF i - 1 < Abs(left) THEN base + (IF left < 0 THEN -1 ELSE 1) ELSE base
  BY <1>14 DEF PartAt
<1> HIDE DEF l, left
<1>16. i \in Nat /\ i >= 1
  OBVIOUS
<1>17. QED BY <1>5, <1>9, <1>10, <1>12, <1>13, <1>15, <1>16 DEF Abs, Sign, n

\* All that is said of an allocation.
LEMMA AllocationsFair ==
    ASSUME NEW a \in Int, NEW w \in Slices, AllocateMoney(a, w).tag = "Ok"
    PROVE  LET d == AllocateMoney(a, w).value
               total == SumOf(w)
           IN  /\ SumOf(d) = a
               /\ \A i \in DOMAIN w :
                    /\ w[i] = 0 => d[i] = 0
                    /\ Abs(d[i] * total - a * w[i]) =< total
                    /\ \A j \in DOMAIN w :
                         i < j /\ w[i] = w[j] => Abs(d[i]) - Abs(d[j]) \in {0, 1}
                    /\ (\A j \in DOMAIN w : w[j] = 1) => d[i] = PartAt(Split(a, Len(w)), i - 1)
<1>1. SumOf(w) # 0 /\ AllocateMoney(a, w).value = Paid(a, w)
  BY AllocationIs DEF OutOfDomain, InvalidWeights, Ok
<1>2. w \in Seq(Weights) /\ DOMAIN w = 1 .. Len(w)
  BY DEF Slices
<1> DEFINE d == Paid(a, w)
<1>3. SumOf(d) = a
  BY <1>1, <1>2, PaidSum
<1>4. \A i \in 1 .. Len(w) : (w[i] = 0 => d[i] = 0) /\ Abs(d[i] * SumOf(w) - a * w[i]) =< SumOf(w)
  BY <1>1, <1>2, PaidNear
<1>5. \A i \in 1 .. Len(w) : \A j \in 1 .. Len(w) :
        i < j /\ w[i] = w[j] => Abs(d[i]) - Abs(d[j]) \in {0, 1}
  BY <1>1, <1>2, PaidInOrder
<1>6. \A i \in 1 .. Len(w) :
        (\A j \in 1 .. Len(w) : w[j] = 1) => d[i] = PartAt(Split(a, Len(w)), i - 1)
  BY <1>1, <1>2, PaidAsSplit
<1> HIDE DEF d
<1>7. AllocateMoney(a, w).value = d
  BY <1>1 DEF d
<1>8. QED BY <1>2, <1>3, <1>4, <1>5, <1>6, <1>7, Zenon

-----------------------------------------------------------------------------
(* What calls answer. *)

\* A result of the code, and not one of its panics.
Answer(r) == {"tag", "value"} \subseteq DOMAIN r /\ r.tag # "Panic"

\* Ok is an answer with its value.
LEMMA OkAnswer == ASSUME NEW v PROVE Answer(Ok(v)) /\ Ok(v).tag = "Ok" /\ Ok(v).value = v
BY DEF Ok, Answer

\* The refusals of TryFromUnits and TryRate are answers.
LEMMA DomainAnswers ==
    ASSUME NEW u
    PROVE  Answer(TryFromUnits(u)) /\ Answer(TryRate(u))
           /\ Answer(OutOfDomain(u)) /\ Answer(InvalidSyntax) /\ Answer(UnknownCode) /\ Answer(NotText)
BY DEF TryFromUnits, TryRate, NonPositive, OutOfDomain, Ok, Answer, InvalidSyntax, UnknownCode, NotText

\* So is the refusal of a currency.
LEMMA WrongAnswers == ASSUME NEW c, NEW d PROVE Answer(WrongCurrency(c, d))
BY DEF WrongCurrency, Answer

\* Whatever the text, the parser answers.
LEMMA FixedPointAnswers == ASSUME NEW text PROVE Answer(ParseFixedPoint(text))
<1>1. Answer(InvalidSyntax)
  BY DEF Answer, InvalidSyntax
<1>2. \A n : Answer(ExcessPrecision(n)) /\ Answer(MagnitudeOverflow(n)) /\ Answer(Ok(n))
  BY DEF Answer, ExcessPrecision, MagnitudeOverflow, Ok
<1>3. \/ ParseFixedPoint(text) = InvalidSyntax
      \/ \E n : \/ ParseFixedPoint(text) = ExcessPrecision(n)
                \/ ParseFixedPoint(text) = MagnitudeOverflow(n)
                \/ ParseFixedPoint(text) = Ok(n)
  BY DEF ParseFixedPoint
<1>4. QED BY <1>1, <1>2, <1>3

\* Reading an amount answers.
LEMMA ReadAnswers ==
    ASSUME NEW text
    PROVE  Answer(ParseAmount(text)) /\ Answer(Then(ParseFixedPoint(text), TryRate))
BY FixedPointAnswers, DomainAnswers DEF ParseAmount, Then

\* Reading a currency code answers.
LEMMA CodeAnswers ==
    ASSUME NEW c, NEW found, NEW otherwise, Answer(otherwise)
    PROVE  Answer(CheckCode(c, found, otherwise))
BY DomainAnswers, WrongAnswers DEF CheckCode

\* Reading a tagged text answers.
LEMMA TagAnswers ==
    ASSUME NEW expected, NEW found, NEW otherwise, Answer(otherwise)
    PROVE  Answer(CheckTags(expected, found, otherwise))
<1>1. \/ CheckTags(expected, found, otherwise) = UnknownCode
      \/ CheckTags(expected, found, otherwise) = otherwise
      \/ \E c, d : CheckTags(expected, found, otherwise) = WrongCurrency(c, d)
  BY DEF CheckTags
<1>2. QED BY <1>1, DomainAnswers, WrongAnswers

\* Reading a text for a given currency, or pair of them, answers.
LEMMA StringAnswers ==
    ASSUME NEW c, NEW b, NEW quote, NEW text
    PROVE  Answer(MoneyFromStr(c, text)) /\ Answer(RateFromStr(b, quote, text)) /\ Answer(Parse(text))
<1>1. \A code : Answer(MoneyFromStr(code, text))
  BY ReadAnswers, CodeAnswers, DomainAnswers DEF MoneyFromStr
<1>2. Answer(RateFromStr(b, quote, text))
  BY ReadAnswers, CodeAnswers, DomainAnswers DEF RateFromStr
<1>3. QED BY <1>1, <1>2, DomainAnswers DEF Parse

\* Rendering answers.
LEMMA RenderAnswers ==
    ASSUME NEW u, NEW c PROVE Answer(Then(Render(u, c), Parse))
<1>1. Answer(Render(u, c))
  BY OkAnswer, DomainAnswers DEF Render
<1>2. QED BY <1>1, StringAnswers DEF Then

\* Carrying an amount or a rate in a form answers.
LEMMA CarryAnswers ==
    ASSUME NEW form \in Forms, NEW c, NEW u, NEW reader, NEW pair, NEW b, NEW quote
    PROVE  /\ Answer(CarryMoney(form, c, u, reader))
           /\ form # "cast" => Answer(CarryRate(form, pair, u, b, quote))
<1>1. \A codes, object : Answer(ReadStructuredMoney(codes, object))
  BY ReadAnswers, TagAnswers DEF ReadStructuredMoney
<1>2. \A object : Answer(ReadStructuredRate(b, quote, object))
  BY ReadAnswers, TagAnswers DEF ReadStructuredRate
<1>3. \A code, bytes : Answer(ReadBinaryMoney(code, bytes))
  BY DomainAnswers, TagAnswers DEF ReadBinaryMoney, FromBinary
<1>4. \A bytes : Answer(ReadBinaryRate(b, quote, bytes))
  BY DomainAnswers, TagAnswers DEF ReadBinaryRate, FromBinary
<1>5. \A code, type, text : Answer(FromSqlMoney(code, type, text))
  BY StringAnswers, ReadAnswers, DomainAnswers DEF FromSqlMoney, DecodeMoney
<1>6. \A type, text : Answer(FromSqlRate(b, quote, type, text))
  BY StringAnswers, DomainAnswers DEF FromSqlRate
<1>7. Answer(CarryMoney(form, c, u, reader))
  BY <1>1, <1>3, <1>5, StringAnswers DEF CarryMoney, Forms
<1>8. form # "cast" => Answer(CarryRate(form, pair, u, b, quote))
  BY <1>2, <1>4, <1>6, StringAnswers DEF CarryRate, Forms
<1>9. QED BY <1>7, <1>8

\* A display policy answers, and so does rendering by it.
LEMMA DisplayAnswers ==
    ASSUME NEW c, NEW symbol, NEW shown, NEW prefix, NEW group, NEW decimal, NEW grouping, NEW digits, NEW u
    PROVE  Answer(Then(PolicyOf(c, symbol, prefix, group, decimal, grouping, digits),
                       LAMBDA p : RenderUnits(p, u, shown)))
<1>1. \A p : Answer(RenderUnits(p, u, shown))
  <2> TAKE p
  <2>1. \/ RenderUnits(p, u, shown) = OutOfDomain(u)
        \/ \E d, e : RenderUnits(p, u, shown) = WrongCurrency(d, e)
        \/ \E v : RenderUnits(p, u, shown) = Ok(v)
    BY DEF RenderUnits
  <2>2. QED BY <2>1, DomainAnswers, WrongAnswers, OkAnswer
<1>2. \A p : Answer(TryWithSeparators(p, group, decimal))
  BY DEF TryWithSeparators, Ok, Answer
<1>3. \A p : Answer(TryWithGrouping(p, grouping))
  BY DEF TryWithGrouping, Ok, Answer
<1>4. Answer(FractionDigits(digits))
  BY DEF FractionDigits, Ok, Answer
<1>5. Answer(PolicyOf(c, symbol, prefix, group, decimal, grouping, digits))
  BY <1>2, <1>3, <1>4, OkAnswer DEF PolicyOf, Then
<1>6. QED BY <1>1, <1>5 DEF Then

\* Addition, subtraction and whole units answer, and what they hand out is money.
LEMMA ArithmeticAnswers ==
    ASSUME NEW a \in Int, NEW b \in Int
    PROVE  /\ Answer(TryAdd(a, b)) /\ (TryAdd(a, b).tag = "Ok" => TryAdd(a, b).value \in Money)
           /\ Answer(TrySub(a, b)) /\ (TrySub(a, b).tag = "Ok" => TrySub(a, b).value \in Money)
           /\ Answer(TryFromMajor(a))
           /\ (TryFromMajor(a).tag = "Ok" => TryFromMajor(a).value \in Money)
<1>1. \A u \in Int : InDomain(u) <=> u \in Money
  BY Widths DEF InDomain, Money
<1>2. \A x, y : Answer(Ok(x)) /\ Answer(OutOfDomain(y)) /\ OutOfDomain(y).tag # "Ok" /\ Ok(x).value = x
  BY DEF Ok, OutOfDomain, Answer
<1>3. /\ (TryAdd(a, b) = Ok(a + b) /\ InDomain(a + b)) \/ \E y : TryAdd(a, b) = OutOfDomain(y)
      /\ (TrySub(a, b) = Ok(a - b) /\ InDomain(a - b)) \/ \E y : TrySub(a, b) = OutOfDomain(y)
  BY DEF TryAdd, TrySub, AddRaw, SubRaw
<1>4. TryFromMajor(a) \in {TryFromUnits(a * Scale), MajorScaleOverflow(a)} /\ a * Scale \in Int
  BY Widths DEF TryFromMajor
<1>5. Answer(MajorScaleOverflow(a)) /\ MajorScaleOverflow(a).tag # "Ok"
  BY DEF MajorScaleOverflow, Answer
<1>6. /\ Answer(TryFromUnits(a * Scale))
      /\ TryFromUnits(a * Scale).tag = "Ok" => TryFromUnits(a * Scale).value \in Money
  BY <1>1, <1>2, <1>4 DEF TryFromUnits
<1>7. a + b \in Int /\ a - b \in Int
  OBVIOUS
<1>8. QED BY <1>1, <1>2, <1>3, <1>4, <1>5, <1>6, <1>7

\* A division answers: quotient and residue fit an i128.
LEMMA DivisionAnswers ==
    ASSUME NEW a \in Int, NEW n \in Divisors, NEW mode \in Modes
    PROVE  Answer(DivIntUnits(a, n, mode))
<1> DEFINE d == DivRound(a, n, mode)
<1>1. n \in Nat \ {0} /\ n =< DomainMax /\ DomainMax \in Nat
  BY Widths
<1>2. d.quotient \in Int /\ d.residue \in Int /\ Abs(d.residue) < n /\ Abs(d.quotient) =< Abs(a)
  BY <1>1, DivRoundExact
<1> HIDE DEF d
<1>3. InDomain(a) => d.quotient \in Narrow /\ d.residue \in Narrow
  <2> SUFFICES ASSUME InDomain(a) PROVE InDomain(d.quotient) /\ InDomain(d.residue)
    BY <1>2, DomainIs
  <2>1. Abs(a) =< DomainMax /\ Abs(a) \in Int /\ Abs(d.quotient) \in Int /\ Abs(d.residue) \in Int
    BY <1>2, DomainIs DEF Abs
  <2>2. QED BY <1>1, <1>2, <2>1, DomainIs
<1>4. DivIntUnits(a, n, mode) = OutOfDomain(a) \/ DivIntUnits(a, n, mode) = Ok(d)
  BY <1>3 DEF DivIntUnits, d
<1>5. QED BY <1>4, OkAnswer, DomainAnswers

\* Every mode names an integer.
LEMMA RoundedIsInt ==
    ASSUME NEW num \in Int, NEW den \in Nat \ {0}, NEW mode \in Modes
    PROVE  Rounded(num, den, mode) \in Int
BY DivRoundExact

\* Conversions answer, and what they hand out is money.
LEMMA ConversionAnswers ==
    ASSUME NEW a \in Money, NEW first \in 1 .. DomainMax, NEW second \in 1 .. DomainMax,
           NEW mode \in Modes, NEW r \in {Convert(a, first, mode), ConvertVia(a, first, second, mode)}
    PROVE  Answer(r) /\ (r.tag = "Ok" => r.value \in Money)
<1>1. \A u \in Int : InDomain(u) <=> u \in Money
  BY Widths DEF InDomain, Money
<1>2. Answer(ConversionOverflow) /\ ConversionOverflow.tag # "Ok"
  BY DEF ConversionOverflow, Answer
<1>3. a * first \in Int /\ a * first * second \in Int
  BY Widths DEF Money
<1> DEFINE one == Rounded(a * first, Scale, mode)
           two == Rounded(a * first * second, Scale * Scale, mode)
<1>4. one \in Int
  BY <1>3, Widths, RoundedIsInt
<1>5. two \in Int
  BY <1>3, Widths, RoundedIsInt
<1>6. r = (IF InDomain(one) THEN Ok(one) ELSE ConversionOverflow)
      \/ r = (IF InDomain(two) THEN Ok(two) ELSE ConversionOverflow)
  BY ConvertOnce, ConvertViaOnce
<1> HIDE DEF one, two
<1>7. QED BY <1>1, <1>2, <1>4, <1>5, <1>6, OkAnswer

\* An allocation answers: what truncation leaves is less than the claims.
LEMMA AllocationAnswers ==
    ASSUME NEW a \in Int, NEW w \in Slices PROVE Answer(AllocateMoney(a, w))
<1>1. Answer(InvalidWeights(Len(w)))
  BY DEF InvalidWeights, Answer
<1>2. QED BY <1>1, AllocationIs, OkAnswer, DomainAnswers

\* A rate that its constructor accepts is positive and within the domain.
LEMMA RateType ==
    ASSUME NEW u \in Units, TryRate(u).tag = "Ok" PROVE u \in 1 .. DomainMax
BY Widths DEF TryRate, OutOfDomain, NonPositive, Ok, InDomain, Units, Narrow

\* Amounts are integers.
LEMMA UnitsAreInt == Units \subseteq Int /\ Money \subseteq Int
BY Widths DEF Units, Narrow, Money

-----------------------------------------------------------------------------
(* Powers of the radix. *)

\* A power is Radix times the one before.
LEMMA PowerDef ==
    /\ Power(0) = 1
    /\ \A n \in Nat : Power(n + 1) = Radix * Power(n)
<1> DEFINE Solves(g, k) == g = [n \in 0 .. k |-> IF n = 0 THEN 1 ELSE Radix * g[n - 1]]
           H == {k \in Nat : \E g : Solves(g, k)}
           P(k) == CHOOSE g : Solves(g, k)
<1>1. 0 \in H
  <2>1. Solves([n \in 0 .. 0 |-> 1], 0)
    OBVIOUS
  <2>2. QED BY <2>1
<1>2. ASSUME NEW k \in Nat, k \in H PROVE k + 1 \in H
  <2> SUFFICES \E g : Solves(g, k + 1)
    OBVIOUS
  <2>1. PICK g : Solves(g, k)
    BY <1>2
  <2> DEFINE h == [n \in 0 .. (k + 1) |-> IF n = k + 1 THEN Radix * g[k] ELSE g[n]]
  <2>2. \A n \in 0 .. k : h[n] = g[n]
    OBVIOUS
  <2>3. \A n \in 0 .. k : g[n] = IF n = 0 THEN 1 ELSE Radix * g[n - 1]
    BY <2>1
  <2>4. ASSUME NEW n \in 0 .. (k + 1) PROVE h[n] = IF n = 0 THEN 1 ELSE Radix * h[n - 1]
    <3>1. CASE n = 0
      BY <2>2, <2>3, <3>1
    <3>2. CASE n # 0
      <4>1. h[n - 1] = g[n - 1]
        BY <2>2, <3>2
      <4>2. CASE n = k + 1
        BY <3>2, <4>1, <4>2
      <4>3. CASE n # k + 1
        BY <2>2, <2>3, <3>2, <4>1, <4>3
      <4>4. QED BY <4>2, <4>3
    <3>3. QED BY <3>1, <3>2
  <2>5. Solves(h, k + 1)
    BY <2>4
  <2>6. QED BY <2>5
<1>3. \A k \in Nat : k \in H
  <2> HIDE DEF H
  <2>1. QED BY <1>1, <1>2, Counting
<1>4. \A k \in Nat : Solves(P(k), k)
  BY <1>3
<1>5. \A k : Power(k) = P(k)[k]
  BY DEF Power
<1> HIDE DEF P, H
<1>6. \A k \in Nat : \A n \in 0 .. k : P(k)[n] = IF n = 0 THEN 1 ELSE Radix * P(k)[n - 1]
  BY <1>4
<1> HIDE DEF Solves
<1>7. Power(0) = 1
  BY <1>5, <1>6
<1>8. ASSUME NEW k \in Nat PROVE Power(k + 1) = Radix * Power(k)
  <2> DEFINE S == {n \in Nat : n =< k => P(k + 1)[n] = P(k)[n]}
  <2>1. 0 \in S
    BY <1>6
  <2>2. ASSUME NEW n \in Nat, n \in S PROVE n + 1 \in S
    BY <1>6, <2>2
  <2>3. k \in S
    <3> HIDE DEF S
    <3>1. QED BY <2>1, <2>2, Counting
  <2>4. P(k + 1)[k] = P(k)[k]
    BY <2>3
  <2>5. P(k + 1)[k + 1] = Radix * P(k + 1)[k + 1 - 1] /\ k + 1 - 1 = k
    BY <1>6
  <2>6. QED BY <1>5, <2>4, <2>5
<1>9. QED BY <1>7, <1>8

\* A power is positive, and greater than its exponent.
LEMMA PowerIs ==
    ASSUME NEW n \in Nat PROVE Power(n) \in Nat \ {0} /\ n < Power(n)
<1> DEFINE H == {k \in Nat : Power(k) \in Nat \ {0} /\ k < Power(k)}
<1>1. 0 \in H
  BY PowerDef
<1>2. ASSUME NEW k \in Nat, k \in H PROVE k + 1 \in H
  <2> DEFINE p == Power(k)
  <2>1. Power(k + 1) = Radix * p /\ p \in Nat \ {0} /\ k < p
    BY <1>2, PowerDef
  <2> HIDE DEF p
  <2>2. Radix \in Nat /\ Radix >= 2
    BY TextAssumption
  <2>3. Radix * p \in Nat /\ Radix * p >= 2 * p
    BY <2>1, <2>2
  <2>4. QED BY <2>1, <2>3
<1>3. \A k \in Nat : k \in H
  <2> HIDE DEF H
  <2>1. QED BY <1>1, <1>2, Counting
<1>4. QED BY <1>3

\* Exponents add up.
LEMMA PowerPlus ==
    ASSUME NEW m \in Nat, NEW n \in Nat PROVE Power(m + n) = Power(m) * Power(n)
<1> DEFINE H == {k \in Nat : Power(m + k) = Power(m) * Power(k)}
<1>1. 0 \in H
  BY PowerDef, PowerIs
<1>2. ASSUME NEW k \in Nat, k \in H PROVE k + 1 \in H
  <2> DEFINE p == Power(m)
             q == Power(k)
             r == Power(m + k)
  <2>1. Power(m + (k + 1)) = Radix * r
    <3>1. m + (k + 1) = (m + k) + 1 /\ m + k \in Nat
      OBVIOUS
    <3>2. QED BY <3>1, PowerDef
  <2>2. Power(k + 1) = Radix * q
    BY PowerDef
  <2>3. r = p * q /\ p \in Nat /\ q \in Nat /\ Radix \in Nat
    BY <1>2, PowerIs, TextAssumption
  <2> HIDE DEF p, q, r
  <2>4. Radix * (p * q) = p * (Radix * q)
    BY <2>3
  <2>5. QED BY <2>1, <2>2, <2>3, <2>4 DEF p
<1>3. n \in H
  <2> HIDE DEF H
  <2>1. QED BY <1>1, <1>2, Counting
<1>4. QED BY <1>3

\* A quotient with a remainder below the divisor is the quotient.
LEMMA Quotient ==
    ASSUME NEW n \in Nat, NEW d \in Nat \ {0}, NEW q \in Int, NEW r \in 0 .. d - 1, n = q * d + r
    PROVE  n \div d = q /\ n % d = r
<1> DEFINE a == n \div d
           b == n % d
<1>1. a \in Int /\ b \in Int /\ n = a * d + b /\ 0 =< b /\ b < d
  <2>1. a \in Int /\ b \in 0 .. d - 1
    OBVIOUS
  <2>2. n = a * d + b
    OBVIOUS
  <2>3. QED BY <2>1, <2>2
<1> HIDE DEF a, b
<1>2. (a - q) * d = r - b
  BY <1>1
<1>3. ~(a - q >= 1)
  <2>1. ASSUME a - q >= 1 PROVE (a - q) * d >= d
    BY <1>1, <2>1
  <2>2. r - b < d
    BY <1>1
  <2>3. QED BY <1>1, <1>2, <2>1, <2>2
<1>4. ~(a - q =< -1)
  <2>1. ASSUME a - q =< -1 PROVE (a - q) * d =< -d
    BY <1>1, <2>1
  <2>2. r - b > -d
    BY <1>1
  <2>3. QED BY <1>1, <1>2, <2>1, <2>2
<1>5. a = q
  BY <1>1, <1>3, <1>4
<1>6. QED BY <1>1, <1>5 DEF a, b

\* What is behind the last k + 1 digits is what is behind the last k without its
\* last digit.
LEMMA DigitAt ==
    ASSUME NEW n \in Nat, NEW k \in Nat
    PROVE  /\ n \div Power(k) \in Nat /\ n \div Power(k) =< n
           /\ (n \div Power(k)) % Radix \in Digit
           /\ n \div Power(k) = (n \div Power(k + 1)) * Radix + ((n \div Power(k)) % Radix)
           /\ n < Power(k) => n \div Power(k) = 0
<1> DEFINE p == Power(k)
           a == n \div p
           r == n % p
           b == a \div Radix
           x == a % Radix
<1>1. p \in Nat \ {0} /\ Radix \in Nat /\ Radix >= 2
  BY PowerIs, TextAssumption
<1> HIDE DEF p
<1>2. a \in Int /\ r \in 0 .. p - 1 /\ n = a * p + r
  BY <1>1
<1>3. n < p => a = 0
  <2>1. ASSUME n < p PROVE a = 0
    <3>1. n \in 0 .. p - 1 /\ n = 0 * p + n
      BY <1>1, <2>1
    <3>2. QED BY <1>1, <3>1, Quotient
  <2>2. QED BY <2>1
<1> HIDE DEF a, r
<1>4. a \in Nat
  <2>1. ASSUME a =< -1 PROVE a * p =< -p
    BY <1>1, <1>2, <2>1
  <2>2. QED BY <1>1, <1>2, <2>1
<1>5. a =< n
  <2>1. a * p >= a
    BY <1>1, <1>4
  <2>2. QED BY <1>1, <1>2, <1>4, <2>1
<1>6. b \in Int /\ x \in 0 .. Radix - 1 /\ a = b * Radix + x
  BY <1>1, <1>4
<1> HIDE DEF b, x
<1>7. n = b * (Radix * p) + (x * p + r)
  <2>1. (b * Radix + x) * p = b * (Radix * p) + x * p
    BY <1>1, <1>6
  <2>2. b * (Radix * p) \in Int /\ x * p \in Int
    BY <1>1, <1>6
  <2>3. QED BY <1>2, <1>6, <2>1, <2>2
<1>8. x * p + r \in 0 .. Radix * p - 1
  <2>1. x * p =< (Radix - 1) * p
    BY <1>1, <1>6
  <2>2. (Radix - 1) * p = Radix * p - p
    BY <1>1
  <2>3. x * p \in Nat /\ Radix * p \in Nat
    BY <1>1, <1>6
  <2>4. QED BY <1>1, <1>2, <2>1, <2>2, <2>3
<1>9. Radix * p \in Nat \ {0}
  BY <1>1
<1>10. n \div (Radix * p) = b
  BY <1>6, <1>7, <1>8, <1>9, Quotient
<1>11. Power(k + 1) = Radix * p
  BY PowerDef DEF p
<1>12. n \div Power(k + 1) = b
  BY <1>10, <1>11
<1>13. a = (n \div Power(k + 1)) * Radix + x
  BY <1>6, <1>12
<1>14. x \in Digit
  BY <1>6 DEF Digit
<1>15. a = n \div Power(k) /\ x = (n \div Power(k)) % Radix
  BY DEF a, p, x
<1>16. n < Power(k) => n \div Power(k) = 0
  BY <1>3, <1>15 DEF p
<1>17. n \div Power(k) \in Nat
  BY <1>4, <1>15
<1>18. n \div Power(k) =< n
  BY <1>5, <1>15
<1>19. (n \div Power(k)) % Radix \in Digit
  BY <1>14, <1>15
<1>20. n \div Power(k) = (n \div Power(k + 1)) * Radix + ((n \div Power(k)) % Radix)
  BY <1>13, <1>15
<1>21. QED BY <1>16, <1>17, <1>18, <1>19, <1>20, Zenon

-----------------------------------------------------------------------------
(* The magnitude of digits. *)

\* What the fold that Magnitude is solves.
Pushes(f, k, s) ==
    f = [S \in SUBSET (1 .. k) |-> IF S = {} THEN 0 ELSE PushDigit(f[S \ {Max(S)}], s[Max(S)])]

\* The fold is defined.
LEMMA PushesExist ==
    ASSUME NEW s \in Seq(Int) PROVE \E f : Pushes(f, Len(s), s)
<1> DEFINE H == {k \in Nat : \E f : Pushes(f, k, s)}
<1>1. 0 \in H
  <2>1. Pushes([S \in SUBSET (1 .. 0) |-> 0], 0, s)
    <3>1. \A S \in SUBSET (1 .. 0) : S = {}
      OBVIOUS
    <3>2. QED BY <3>1 DEF Pushes
  <2>2. QED BY <2>1
<1>2. ASSUME NEW k \in Nat, k \in H PROVE k + 1 \in H
  <2>1. PICK f : Pushes(f, k, s)
    BY <1>2
  <2> DEFINE h == [S \in SUBSET (1 .. (k + 1)) |->
                     IF k + 1 \in S THEN PushDigit(f[S \ {k + 1}], s[k + 1]) ELSE f[S]]
  <2>2. ASSUME NEW S \in SUBSET (1 .. k)
        PROVE  /\ h[S] = f[S]
               /\ f[S] = IF S = {} THEN 0 ELSE PushDigit(f[S \ {Max(S)}], s[Max(S)])
    <3>1. k + 1 \notin S /\ S \in SUBSET (1 .. (k + 1))
      OBVIOUS
    <3>2. QED BY <2>1, <3>1 DEF Pushes
  <2>3. ASSUME NEW S \in SUBSET (1 .. (k + 1))
        PROVE  h[S] = IF S = {} THEN 0 ELSE PushDigit(h[S \ {Max(S)}], s[Max(S)])
    <3>1. CASE k + 1 \in S
      <4>1. Max(S) = k + 1
        <5>1. k + 1 \in Nat /\ S \subseteq 1 .. (k + 1) /\ S # {}
          BY <3>1
        <5>2. Max(S) \in S /\ \A y \in S : y =< Max(S)
          BY <5>1, Greatest
        <5>3. Max(S) \in 1 .. (k + 1) /\ k + 1 =< Max(S)
          BY <3>1, <5>1, <5>2
        <5> HIDE DEF h
        <5>4. QED BY <5>3
      <4>2. S \ {k + 1} \in SUBSET (1 .. k)
        OBVIOUS
      <4>3. h[S \ {k + 1}] = f[S \ {k + 1}]
        BY <2>2, <4>2
      <4>4. QED BY <3>1, <4>1, <4>3
    <3>2. CASE k + 1 \notin S
      <4>1. S \in SUBSET (1 .. k)
        BY <3>2
      <4>2. S \ {Max(S)} \in SUBSET (1 .. k)
        BY <4>1
      <4>3. h[S] = f[S] /\ h[S \ {Max(S)}] = f[S \ {Max(S)}]
            /\ f[S] = IF S = {} THEN 0 ELSE PushDigit(f[S \ {Max(S)}], s[Max(S)])
        <5> HIDE DEF h
        <5>1. QED BY <2>2, <4>1, <4>2
      <4> HIDE DEF h
      <4>4. QED BY <4>3
    <3>3. QED BY <3>1, <3>2
  <2>4. Pushes(h, k + 1, s)
    BY <2>3 DEF Pushes
  <2>5. QED BY <2>4
<1>3. Len(s) \in H
  <2> HIDE DEF H
  <2>1. QED BY <1>1, <1>2, Counting, SMTT(30)
<1>4. QED BY <1>3

\* v[n] is what the first n digits of s spell.
Horner(s, v) ==
    /\ v \in [0 .. Len(s) -> Nat] /\ v[0] = 0
    /\ \A n \in 1 .. Len(s) : v[n] = v[n - 1] * Radix + s[n]

\* Digits are read as what they spell, or as too wide.
LEMMA MagnitudeIs ==
    ASSUME NEW s \in Seq(Digit), NEW v, Horner(s, v)
    PROVE  Magnitude(s) = IF v[Len(s)] > MaxMagnitude THEN MaxMagnitude + 1 ELSE v[Len(s)]
<1> DEFINE f == CHOOSE g : Pushes(g, Len(s), s)
           p == [n \in 0 .. Len(s) |-> f[1 .. n]]
           Cap(n) == IF n > MaxMagnitude THEN MaxMagnitude + 1 ELSE n
           H == {n \in Nat : n =< Len(s) => p[n] = Cap(v[n])}
<1>1. DOMAIN s = 1 .. Len(s) /\ Len(s) \in Nat /\ s \in Seq(Int)
  BY TextAssumption DEF Digit
<1>2. Magnitude(s) = f[1 .. Len(s)]
  BY <1>1 DEF Magnitude, FoldLeft, MapThenFoldSet, Pushes
<1>3. Pushes(f, Len(s), s)
  BY <1>1, PushesExist
<1> HIDE DEF f
<1>4. p[0] = 0
  BY <1>1, <1>3 DEF Pushes
<1>5. ASSUME NEW n \in 1 .. Len(s) PROVE p[n] = PushDigit(p[n - 1], s[n])
  <2>1. n \in Nat /\ 1 .. n # {} /\ 1 .. n \subseteq 1 .. Len(s)
    <3>1. n \in 1 .. n
      BY <1>1
    <3>2. 1 .. n \subseteq 1 .. Len(s)
      BY <1>1
    <3>3. n \in Nat
      OBVIOUS
    <3>4. QED BY <3>1, <3>2, <3>3
  <2>2. Max(1 .. n) = n
    <3>1. Max(1 .. n) \in 1 .. n /\ \A y \in 1 .. n : y =< Max(1 .. n)
      BY <2>1, Greatest
    <3>2. QED BY <3>1
  <2>3. (1 .. n) \ {n} = 1 .. (n - 1)
    BY <2>1
  <2>4. f[1 .. n] = PushDigit(f[(1 .. n) \ {n}], s[n])
    BY <1>3, <2>1, <2>2 DEF Pushes
  <2>5. p[n] = f[1 .. n] /\ p[n - 1] = f[1 .. (n - 1)]
    BY <1>1
  <2> HIDE DEF p
  <2>6. QED BY <2>3, <2>4, <2>5
<1>6. p[Len(s)] = f[1 .. Len(s)]
  BY <1>1
<1> HIDE DEF p
<1>7. Radix \in Nat /\ Radix >= 2 /\ MaxMagnitude \in Nat
  BY TextAssumption, KernelAssumption, Widths DEF MaxMagnitude
<1>8. 0 \in H
  BY <1>4, <1>7 DEF Horner
<1>9. ASSUME NEW n \in Nat, n \in H PROVE n + 1 \in H
  <2> SUFFICES ASSUME n + 1 =< Len(s) PROVE p[n + 1] = Cap(v[n + 1])
    OBVIOUS
  <2> DEFINE w == v[n]
             d == s[n + 1]
             m == MaxMagnitude
  <2>1. n + 1 \in 1 .. Len(s) /\ n \in 0 .. Len(s) /\ n + 1 - 1 = n
    BY <1>1
  <2>2. w \in Nat /\ d \in Digit /\ v[n + 1] = w * Radix + d
    BY <2>1 DEF Horner
  <2>3. p[n] = Cap(w) /\ p[n + 1] = PushDigit(p[n], d)
    <3>1. p[n] = Cap(w)
      BY <1>9, <2>1
    <3>2. p[n + 1] = PushDigit(p[n + 1 - 1], s[n + 1])
      BY <1>5, <2>1
    <3>3. QED BY <2>1, <3>1, <3>2
  <2>4. d \in Nat /\ m \in Nat
    BY <1>7, <2>2 DEF Digit
  <2> HIDE DEF w, d
  <2>5. w * Radix \in Nat /\ (m + 1) * Radix \in Nat
    BY <1>7, <2>2, <2>4
  <2>6. CASE w > m
    <3>1. p[n + 1] = PushDigit(m + 1, d)
      BY <2>2, <2>3, <2>6
    <3>2. w * Radix >= w
      BY <1>7, <2>2
    <3>3. (m + 1) * Radix >= m + 1
      BY <1>7
    <3>4. v[n + 1] > m
      BY <2>2, <2>4, <2>5, <2>6, <3>2
    <3>5. (m + 1) * Radix + d > m
      BY <2>4, <2>5, <3>3
    <3>6. p[n + 1] = m + 1
      BY <3>1, <3>5 DEF PushDigit
    <3>7. QED BY <3>4, <3>6
  <2>7. CASE ~(w > m)
    <3>1. p[n + 1] = PushDigit(w, d)
      BY <2>2, <2>3, <2>7
    <3>2. QED BY <2>2, <3>1 DEF PushDigit
  <2>8. QED BY <2>6, <2>7
<1>10. p[Len(s)] = Cap(v[Len(s)])
  <2> HIDE DEF H, Cap
  <2>1. Len(s) \in H
    BY <1>1, <1>8, <1>9, Counting
  <2>2. QED BY <1>1, <2>1 DEF H
<1>11. QED BY <1>2, <1>6, <1>10

-----------------------------------------------------------------------------
(* Digits of a number. *)

\* A set of naturals has a least member.
LEMMA Least ==
    ASSUME NEW S, S \subseteq Nat, S # {}
    PROVE  \E x \in S : \A y \in S : x =< y
<1> DEFINE R == {ss \in Nat \X Nat : ss[1] < ss[2]}
<1>1. IsWellFoundedOn(R, Nat)
  BY NatLessThanWellFounded DEF OpToRel
<1>2. \A x, y \in Nat : y < x => <<y, x>> \in R
  OBVIOUS
<1> HIDE DEF R
<1>3. PICK x \in S : \A y \in S : ~ (<<y, x>> \in R)
  BY <1>1, WFMin
<1>4. ASSUME NEW y \in S PROVE x =< y
  <2>1. x \in Nat /\ y \in Nat
    OBVIOUS
  <2>2. ~(y < x)
    BY <1>2, <1>3, <2>1
  <2>3. QED BY <2>1, <2>2
<1>5. QED BY <1>4

\* A numeral has just the digits that its number needs.
LEMMA NumeralIs ==
    ASSUME NEW n \in Nat
    PROVE  \E w \in Nat \ {0} : /\ n < Power(w)
                                /\ Numeral(n) = LastDigits(n, w)
<1> DEFINE S == {w \in 1 .. n + 1 : n < Power(w)}
           Fits(w) == n < Power(w) /\ (w = 1 \/ n >= Power(w - 1))
           width == CHOOSE w \in 1 .. n + 1 : Fits(w)
<1>1. S \subseteq Nat /\ S # {}
  <2>1. n + 1 \in Nat /\ n + 1 \in 1 .. n + 1
    OBVIOUS
  <2>2. Power(n + 1) \in Nat /\ n + 1 < Power(n + 1)
    BY <2>1, PowerIs
  <2>3. n < Power(n + 1)
    BY <2>1, <2>2
  <2>4. n + 1 \in S
    BY <2>1, <2>3
  <2>5. QED BY <2>4
<1>2. PICK w \in S : \A y \in S : w =< y
  BY <1>1, Least
<1>3. w \in 1 .. n + 1 /\ n < Power(w)
  OBVIOUS
<1>4. w = 1 \/ n >= Power(w - 1)
  <2>1. SUFFICES ASSUME w # 1 PROVE ~(n < Power(w - 1))
    <3>1. CASE w = 1
      BY <3>1
    <3>2. CASE w # 1
      <4>1. ~(n < Power(w - 1)) /\ w - 1 \in Nat
        BY <1>3, <2>1, <3>2
      <4>2. Power(w - 1) \in Nat
        BY <4>1, PowerIs
      <4>3. QED BY <4>1, <4>2
    <3>3. QED BY <3>1, <3>2
  <2>2. w - 1 \in 1 .. n + 1 /\ ~(w =< w - 1)
    BY <1>3, <2>1
  <2>3. QED BY <1>2, <2>2
<1>5. \E x \in 1 .. n + 1 : Fits(x)
  BY <1>3, <1>4
<1>6. width \in 1 .. n + 1 /\ Fits(width)
  <2> HIDE DEF Fits
  <2>1. QED BY <1>5
<1>7. Numeral(n) = LastDigits(n, width)
  BY DEF Numeral
<1> HIDE DEF width
<1>8. QED BY <1>6, <1>7

\* What is trimmed are zeros.
LEMMA TrimIs ==
    ASSUME NEW digits \in Seq(Digit), NEW minDp \in 0 .. Len(digits)
    PROVE  /\ Trim(digits, minDp) \in Seq(Digit)
           /\ Len(Trim(digits, minDp)) =< Len(digits)
           /\ \A i \in 1 .. Len(Trim(digits, minDp)) : Trim(digits, minDp)[i] = digits[i]
           /\ \A i \in Len(Trim(digits, minDp)) + 1 .. Len(digits) : digits[i] = 0
<1> DEFINE Zeros(n) == \A i \in n + 1 .. Len(digits) : digits[i] = 0
           S == {n \in minDp .. Len(digits) : Zeros(n)}
           Fits(n) == Zeros(n) /\ (n = minDp \/ digits[n] # 0)
           cut == CHOOSE n \in minDp .. Len(digits) : Fits(n)
<1>1. Len(digits) \in Nat /\ minDp \in Nat
  OBVIOUS
<1>2. S \subseteq Nat /\ S # {}
  <2>1. Len(digits) \in S
    BY <1>1
  <2>2. QED BY <2>1
<1>3. PICK n \in S : \A y \in S : n =< y
  <2> HIDE DEF S
  <2>1. QED BY <1>2, Least
<1>4. n \in minDp .. Len(digits) /\ Zeros(n)
  OBVIOUS
<1>5. n = minDp \/ digits[n] # 0
  <2>1. SUFFICES ASSUME n # minDp, digits[n] = 0 PROVE FALSE
    OBVIOUS
  <2>2. n - 1 \in minDp .. Len(digits) /\ ~(n =< n - 1)
    BY <1>1, <1>4, <2>1
  <2>3. Zeros(n - 1)
    BY <1>1, <1>4, <2>1
  <2>4. n - 1 \in S
    BY <2>2, <2>3
  <2>5. QED BY <1>3, <2>2, <2>4
<1>6. \E x \in minDp .. Len(digits) : Fits(x)
  BY <1>4, <1>5
<1>7. cut \in minDp .. Len(digits) /\ Fits(cut)
  <2> HIDE DEF Fits
  <2>1. QED BY <1>6
<1>8. Trim(digits, minDp) = SubSeq(digits, 1, cut)
  BY DEF Trim
<1> HIDE DEF cut
<1>9. SubSeq(digits, 1, cut) \in Seq(Digit) /\ Len(SubSeq(digits, 1, cut)) = cut
      /\ \A i \in 1 .. cut : SubSeq(digits, 1, cut)[i] = digits[i]
  <2>1. cut \in 0 .. Len(digits)
    BY <1>1, <1>7
  <2>2. QED BY <1>1, <2>1
<1>10. QED BY <1>1, <1>7, <1>8, <1>9

-----------------------------------------------------------------------------
(* The digits of a fixed-point number. *)

\* Division by the scale leaves whole units and what is behind the point.
LEMMA WholeAndRest ==
    ASSUME NEW m \in Nat
    PROVE  /\ m \div Scale \in Nat /\ m % Scale \in Nat /\ m % Scale < Scale
           /\ m = (m \div Scale) * Scale + (m % Scale)
<1> DEFINE d == Scale
<1>1. d \in Nat \ {0} /\ d = Power(Places) /\ Places \in Nat
  BY TextAssumption, KernelAssumption
<1> HIDE DEF d
<1>2. m \div d \in Nat
  BY <1>1, DigitAt
<1>3. m % d \in 0 .. d - 1
  BY <1>1
<1>4. m = (m \div d) * d + (m % d)
  BY <1>1
<1>5. QED BY <1>1, <1>2, <1>3, <1>4 DEF d

\* As many digits of a number as are asked for.
LEMMA LastDigitsAre ==
    ASSUME NEW n \in Nat, NEW w \in Nat
    PROVE  /\ LastDigits(n, w) \in Seq(Digit) /\ Len(LastDigits(n, w)) = w
           /\ \A i \in 1 .. w : LastDigits(n, w)[i] = (n \div Power(w - i)) % Radix
<1> DEFINE s == LastDigits(n, w)
<1>1. s = [i \in 1 .. w |-> (n \div Power(w - i)) % Radix]
  BY DEF LastDigits
<1> HIDE DEF s
<1>2. \A i \in 1 .. w : s[i] = (n \div Power(w - i)) % Radix
  BY <1>1
<1>3. \A i \in 1 .. w : s[i] \in Digit
  <2> TAKE i \in 1 .. w
  <2>1. w - i \in Nat
    OBVIOUS
  <2>2. QED BY <1>2, <2>1, DigitAt
<1>4. s \in [1 .. w -> Digit]
  BY <1>1, <1>3
<1>5. s \in Seq(Digit) /\ Len(s) = w
  BY <1>4
<1>6. QED BY <1>2, <1>5 DEF s

\* The whole digits and the places behind the point, all written, spell the magnitude.
LEMMA DigitsSpell ==
    ASSUME NEW m \in Nat, NEW w \in Nat \ {0}, m \div Scale < Power(w)
    PROVE  \E v : /\ Horner(LastDigits(m \div Scale, w) \o LastDigits(m % Scale, Places), v)
                  /\ v[w + Places] = m
<1> DEFINE a == m \div Scale
           b == m % Scale
           whole    == LastDigits(a, w)
           fraction == LastDigits(b, Places)
           v == [n \in 0 .. w + Places |->
                   IF n =< w THEN a \div Power(w - n)
                             ELSE a * Power(n - w) + (b \div Power(Places - (n - w)))]
<1>1. Places \in Nat /\ Scale = Power(Places) /\ Scale \in Nat \ {0} /\ Radix \in Nat
  BY TextAssumption, KernelAssumption
<1>2. a \in Nat /\ b \in Nat /\ b < Scale /\ m = a * Scale + b
  BY <1>1, WholeAndRest
<1>3. a < Power(w) /\ b < Power(Places)
  BY <1>1, <1>2
<1> HIDE DEF a, b
<1>4. \A i \in 1 .. w : whole[i] = (a \div Power(w - i)) % Radix
  BY <1>2, LastDigitsAre
<1>5. \A i \in 1 .. Places : fraction[i] = (b \div Power(Places - i)) % Radix
  BY <1>1, <1>2, LastDigitsAre
<1>6. whole \in Seq(Digit) /\ Len(whole) = w
  BY <1>2, LastDigitsAre
<1>7. fraction \in Seq(Digit) /\ Len(fraction) = Places
  BY <1>1, <1>2, LastDigitsAre
<1>8. \A n \in 0 .. w : v[n] = a \div Power(w - n)
  BY <1>1
<1>9. \A j \in 1 .. Places : v[w + j] = a * Power(j) + (b \div Power(Places - j))
  <2> TAKE j \in 1 .. Places
  <2>1. w + j \in 0 .. w + Places /\ ~(w + j =< w) /\ w + j - w = j
    BY <1>1
  <2>2. QED BY <2>1
<1>10. v = [n \in 0 .. w + Places |-> v[n]]
  OBVIOUS
<1> HIDE DEF v, whole, fraction
<1> DEFINE s == whole \o fraction
<1>11. /\ Len(s) = w + Places
       /\ \A i \in 1 .. w : s[i] = whole[i]
       /\ \A j \in 1 .. Places : s[w + j] = fraction[j]
  <2>1. Len(s) = w + Places
    BY <1>6, <1>7
  <2>2. ASSUME NEW i \in 1 .. w PROVE s[i] = whole[i]
    BY <1>6, <1>7
  <2>3. ASSUME NEW j \in 1 .. Places PROVE s[w + j] = fraction[j]
    <3>1. w + j \in 1 .. Len(whole) + Len(fraction) /\ ~(w + j =< Len(whole)) /\ w + j - Len(whole) = j
      BY <1>1, <1>6, <1>7
    <3>2. QED BY <1>6, <1>7, <3>1
  <2>4. QED BY <2>1, <2>2, <2>3
<1> HIDE DEF s
<1>12. v[w] = a
  <2>1. v[w] = a \div Power(0)
    BY <1>8
  <2>2. QED BY <1>2, <2>1, PowerDef
<1>13. \A j \in 0 .. Places : v[w + j] = a * Power(j) + (b \div Power(Places - j))
  <2> TAKE j \in 0 .. Places
  <2>1. CASE j = 0
    <3>1. b \div Power(Places) = 0
      BY <1>1, <1>2, <1>3, DigitAt
    <3>2. w + 0 = w /\ Places - 0 = Places
      BY <1>1
    <3>3. QED BY <1>2, <1>12, <2>1, <3>1, <3>2, PowerDef
  <2>2. CASE j # 0
    BY <1>1, <1>9, <2>2
  <2>3. QED BY <2>1, <2>2
<1>14. v[0] = 0
  <2>1. v[0] = a \div Power(w)
    BY <1>8
  <2>2. QED BY <1>2, <1>3, <2>1, DigitAt
<1>15. ASSUME NEW n \in 0 .. w + Places PROVE v[n] \in Nat
  <2>1. CASE n =< w
    <3>1. w - n \in Nat /\ v[n] = a \div Power(w - n)
      BY <1>8, <2>1
    <3>2. QED BY <1>2, <3>1, DigitAt
  <2>2. CASE n > w
    <3> DEFINE j == n - w
    <3>1. j \in 0 .. Places /\ j \in Nat /\ Places - j \in Nat /\ w + j = n
      BY <1>1, <2>2
    <3> HIDE DEF j
    <3>2. Power(j) \in Nat /\ b \div Power(Places - j) \in Nat
      BY <1>2, <3>1, PowerIs, DigitAt
    <3> DEFINE x == Power(j)
               y == b \div Power(Places - j)
    <3>3. v[n] = a * x + y /\ x \in Nat /\ y \in Nat
      BY <1>13, <3>1, <3>2
    <3> HIDE DEF x, y
    <3>4. QED BY <1>2, <3>3
  <2>3. QED BY <1>1, <2>1, <2>2
<1>16. ASSUME NEW n \in 1 .. w + Places PROVE v[n] = v[n - 1] * Radix + s[n]
  <2>1. CASE n =< w
    <3>1. w - n \in Nat /\ w - (n - 1) = (w - n) + 1 /\ n \in 1 .. w /\ n \in 0 .. w /\ n - 1 \in 0 .. w
      BY <2>1
    <3>2. a \div Power(w - n) = (a \div Power((w - n) + 1)) * Radix + ((a \div Power(w - n)) % Radix)
      BY <1>2, <3>1, DigitAt
    <3>3. v[n] = a \div Power(w - n) /\ v[n - 1] = a \div Power((w - n) + 1)
      BY <1>8, <3>1
    <3>4. s[n] = (a \div Power(w - n)) % Radix
      BY <1>4, <1>11, <3>1
    <3>5. QED BY <3>2, <3>3, <3>4, Zenon
  <2>2. CASE n > w
    <3> DEFINE j == n - w
    <3>1. /\ j \in 1 .. Places /\ j - 1 \in 0 .. Places /\ j \in 0 .. Places
          /\ j - 1 \in Nat /\ (j - 1) + 1 = j
          /\ Places - j \in Nat /\ Places - (j - 1) = (Places - j) + 1 /\ w + j = n /\ w + (j - 1) = n - 1
      BY <1>1, <2>2
    <3> HIDE DEF j
    <3> DEFINE x == b \div Power(Places - j)
               y == b \div Power((Places - j) + 1)
               d == (b \div Power(Places - j)) % Radix
               p == Power(j - 1)
               q == Power(j)
    <3>2. x = y * Radix + d /\ d \in Digit
      BY <1>2, <3>1, DigitAt
    <3>3. x \in Nat /\ y \in Nat
      <4>1. (Places - j) + 1 \in Nat
        BY <3>1
      <4>2. QED BY <1>2, <3>1, <4>1, DigitAt
    <3>4. q = Radix * p /\ p \in Nat
      <4>1. Power((j - 1) + 1) = Radix * p
        BY <3>1, PowerDef
      <4>2. QED BY <3>1, <4>1, PowerIs
    <3>5. v[n] = a * q + x /\ v[n - 1] = a * p + y
      <4>1. v[w + j] = a * Power(j) + (b \div Power(Places - j))
        BY <1>13, <3>1
      <4>2. v[w + (j - 1)] = a * Power(j - 1) + (b \div Power(Places - (j - 1)))
        BY <1>13, <3>1
      <4>3. QED BY <3>1, <4>1, <4>2
    <3>6. s[n] = d
      BY <1>5, <1>11, <3>1
    <3>7. d \in Int
      BY <1>1, <3>2 DEF Digit
    <3> HIDE DEF x, y, d, p, q
    <3>8. a * (Radix * p) = (a * p) * Radix
      BY <1>1, <1>2, <3>4
    <3>9. (a * p + y) * Radix = (a * p) * Radix + y * Radix
      BY <1>1, <1>2, <3>3, <3>4
    <3>10. a * p \in Int /\ (a * p) * Radix \in Int /\ y * Radix \in Int
      BY <1>1, <1>2, <3>3, <3>4
    <3>11. QED BY <3>2, <3>4, <3>5, <3>6, <3>7, <3>8, <3>9, <3>10
  <2>3. QED BY <1>1, <2>1, <2>2
<1>17. Horner(s, v)
  <2>1. v \in [0 .. Len(s) -> Nat]
    BY <1>10, <1>11, <1>15
  <2>2. \A n \in 1 .. Len(s) : v[n] = v[n - 1] * Radix + s[n]
    BY <1>11, <1>16
  <2>3. QED BY <1>14, <2>1, <2>2 DEF Horner
<1>18. v[w + Places] = m
  <2>1. Places \in 0 .. Places /\ Places - Places = 0
    BY <1>1
  <2>2. v[w + Places] = a * Power(Places) + (b \div Power(Places - Places))
    BY <1>13, <2>1
  <2>3. b \div Power(0) = b
    BY <1>2, PowerDef
  <2>4. QED BY <1>1, <1>2, <2>1, <2>2, <2>3
<1>19. \E u : Horner(whole \o fraction, u) /\ u[w + Places] = m
  BY <1>17, <1>18 DEF s
<1>20. QED BY <1>19 DEF whole, fraction, a, b

-----------------------------------------------------------------------------
(* Texts of numbers. *)

\* A number as it is written: digits, and behind a point more of them.
Body(whole, dot, fraction) == whole \o (IF dot THEN <<Point>> \o fraction ELSE <<>>)

Signed(negative, body) == IF negative THEN <<Minus>> \o body ELSE body

\* What the parser makes of a sign, digits and digits behind the point.
Read(negative, whole, fraction) ==
    LET magnitude == Magnitude(whole \o fraction \o [i \in 1 .. Places - Len(fraction) |-> 0]) IN
    IF Len(fraction) > Places THEN ExcessPrecision(Len(fraction))
    ELSE IF negative /\ magnitude = NarrowMax + 1 THEN Ok(-magnitude)
    ELSE IF magnitude > NarrowMax THEN MagnitudeOverflow(negative)
    ELSE Ok(IF negative THEN -magnitude ELSE magnitude)

\* Where its point stands, or would.
Points(body)  == {i \in DOMAIN body : body[i] = Point}
PointAt(body) == IF Points(body) = {} THEN Len(body) + 1 ELSE CHOOSE i \in Points(body) : TRUE

\* The characters of a body, by their places.
LEMMA BodyAt ==
    ASSUME NEW whole \in Seq(Digit), NEW fraction \in Seq(Digit),
           NEW dot \in BOOLEAN, ~dot => fraction = <<>>
    PROVE  LET body == Body(whole, dot, fraction)
               behind == Len(whole) + (IF dot THEN 1 ELSE 0)
           IN  /\ body \in Seq(Digit \cup {Point}) /\ Len(body) = behind + Len(fraction)
               /\ \A i \in 1 .. Len(whole) : body[i] = whole[i]
               /\ dot => body[behind] = Point
               /\ \A i \in 1 .. Len(fraction) : body[behind + i] = fraction[i]
<1> DEFINE body == Body(whole, dot, fraction)
           n == Len(whole)
           m == Len(fraction)
<1>1. n \in Nat /\ m \in Nat
  OBVIOUS
<1>2. CASE dot
  <2> DEFINE tail == <<Point>> \o fraction
  <2>1. tail \in Seq(Digit \cup {Point}) /\ Len(tail) = m + 1 /\ tail[1] = Point
        /\ \A i \in 1 .. m : tail[i + 1] = fraction[i]
    OBVIOUS
  <2>2. body = whole \o tail /\ whole \in Seq(Digit \cup {Point})
    BY <1>2 DEF Body
  <2> HIDE DEF tail
  <2>3. body \in Seq(Digit \cup {Point}) /\ Len(body) = n + 1 + m
    <3>1. whole \o tail \in Seq(Digit \cup {Point})
      BY <2>1, <2>2
    <3>2. Len(whole \o tail) = Len(whole) + Len(tail)
      BY <2>1, <2>2, ConcatProperties
    <3>3. QED BY <1>1, <2>1, <2>2, <3>1, <3>2
  <2>4. \A i \in 1 .. n : body[i] = whole[i]
    BY <1>1, <2>1, <2>2
  <2>5. \A i \in 1 .. m + 1 : body[n + i] = tail[i]
    <3> TAKE i \in 1 .. m + 1
    <3>1. n + i \in 1 .. Len(whole) + Len(tail) /\ ~(n + i =< Len(whole)) /\ n + i - Len(whole) = i
      BY <1>1, <2>1
    <3>2. QED BY <2>1, <2>2, <3>1
  <2> HIDE DEF body
  <2>6. body[n + 1] = Point
    <3>1. 1 \in 1 .. m + 1
      BY <1>1
    <3>2. QED BY <2>1, <2>5, <3>1
  <2>7. \A i \in 1 .. m : body[n + 1 + i] = fraction[i]
    <3> TAKE i \in 1 .. m
    <3>1. i + 1 \in 1 .. m + 1 /\ n + 1 + i = n + (i + 1)
      BY <1>1
    <3>2. QED BY <2>1, <2>5, <3>1
  <2> HIDE DEF n, m
  <2>8. QED BY <1>2, <2>3, <2>4, <2>6, <2>7 DEF body, n, m
<1>3. CASE ~dot
  <2>1. body = whole
    BY <1>3 DEF Body
  <2>2. m = 0
    BY <1>3
  <2>3. whole \in Seq(Digit \cup {Point}) /\ n = n + 0 + 0
    BY <1>1
  <2>4. QED BY <1>1, <1>3, <2>1, <2>2, <2>3
<1>4. QED BY <1>2, <1>3

\* A body holds its parts: they are cut at the point, or at the end if there is none.
LEMMA BodyIs ==
    ASSUME NEW whole \in Seq(Digit), whole # <<>>, NEW fraction \in Seq(Digit),
           NEW dot \in BOOLEAN, ~dot => fraction = <<>>
    PROVE  LET body == Body(whole, dot, fraction) IN
           /\ body # <<>> /\ body[1] \in Digit
           /\ body \in Seq(Digit \cup {Point})
           /\ Points(body) = IF dot THEN {Len(whole) + 1} ELSE {}
           /\ SubSeq(body, 1, PointAt(body) - 1) = whole
           /\ SubSeq(body, PointAt(body) + 1, Len(body)) = fraction
<1> DEFINE body == Body(whole, dot, fraction)
           n == Len(whole)
           m == Len(fraction)
           e == IF dot THEN 1 ELSE 0
           points == Points(body)
           point == PointAt(body)
<1>1. /\ Radix \in Nat /\ Point \in Nat /\ Point \notin Digit
      /\ n \in Nat \ {0} /\ m \in Nat /\ e \in {0, 1} /\ (e = 0 => m = 0) /\ (dot <=> e = 1)
  BY TextAssumption DEF Digit, Point
<1>2. \A i \in 1 .. n : whole[i] \in Digit
  OBVIOUS
<1>3. \A i \in 1 .. m : fraction[i] \in Digit
  OBVIOUS
<1>4. /\ body \in Seq(Digit \cup {Point}) /\ Len(body) = n + e + m
      /\ \A i \in 1 .. n : body[i] = whole[i]
      /\ dot => body[n + e] = Point
      /\ \A i \in 1 .. m : body[n + e + i] = fraction[i]
  BY BodyAt
<1> HIDE DEF body, e
<1>5. DOMAIN body = 1 .. n + e + m
  BY <1>4
<1>6. ASSUME NEW i \in DOMAIN body PROVE body[i] = Point <=> dot /\ i = n + 1
  <2>1. i \in 1 .. n + e + m
    BY <1>5
  <2>2. CASE i \in 1 .. n
    BY <1>1, <1>2, <1>4, <2>2
  <2>3. CASE i = n + 1 /\ dot
    BY <1>1, <1>4, <2>3
  <2>4. CASE i \in n + e + 1 .. n + e + m
    <3> HIDE DEF n, m
    <3>1. i - n - e \in 1 .. m /\ n + e + (i - n - e) = i /\ i # n + 1
      <4>1. n \in Nat /\ m \in Nat /\ e \in {0, 1} /\ (e = 0 => m = 0)
        BY <1>1
      <4>2. i \in Int /\ n + e + 1 =< i /\ i =< n + e + m
        BY <2>4, <4>1
      <4>3. e = 1
        BY <4>1, <4>2
      <4>4. QED BY <4>1, <4>2, <4>3
    <3>2. QED BY <1>1, <1>3, <1>4, <3>1
  <2> HIDE DEF n, m
  <2>5. QED BY <1>1, <2>1, <2>2, <2>3, <2>4
<1>7. points = IF dot THEN {n + 1} ELSE {}
  <2> HIDE DEF n, m
  <2>1. dot => n + 1 \in DOMAIN body
    BY <1>1, <1>5
  <2>2. QED BY <1>6, <2>1 DEF Points
<1> HIDE DEF points
<1>8. point = n + 1
  <2>1. CASE dot
    BY <1>7, <2>1 DEF PointAt, points
  <2>2. CASE ~dot
    BY <1>1, <1>4, <1>7, <2>2 DEF PointAt, points
  <2>3. QED BY <2>1, <2>2
<1>9. SubSeq(body, 1, n) = whole
  <2>1. SubSeq(body, 1, n) \in Seq(Digit \cup {Point}) /\ Len(SubSeq(body, 1, n)) = n
        /\ \A i \in 1 .. n : SubSeq(body, 1, n)[i] = body[i]
    BY <1>1, <1>4
  <2>2. QED BY <1>4, <2>1
<1>10. SubSeq(body, n + 2, Len(body)) = fraction
  <2> DEFINE cut == SubSeq(body, n + 2, n + e + m)
  <2>1. cut = [i \in 1 .. m |-> body[i + (n + 2) - 1]]
    <3> HIDE DEF n, m
    <3>1. CASE e = 1
      <4>1. (n + e + m) - (n + 2) + 1 = m
        BY <1>1, <3>1
      <4>2. QED BY <1>1, <1>4, <4>1
    <3>2. CASE e = 0
      <4>1. n + 2 > n + e + m /\ m = 0 /\ (n + e + m) - (n + 2) + 1 < 1
        BY <1>1, <3>2
      <4>2. cut = <<>>
        BY <1>1, <1>4, <4>1
      <4>3. QED BY <4>1, <4>2
    <3>3. QED BY <1>1, <3>1, <3>2
  <2> HIDE DEF cut
  <2>2. \A i \in 1 .. m : cut[i] = fraction[i]
    <3> TAKE i \in 1 .. m
    <3>1. i + (n + 2) - 1 = n + e + i
      <4> HIDE DEF n, m
      <4>1. QED BY <1>1
    <3>2. QED BY <1>4, <2>1, <3>1
  <2>3. cut \in Seq(Digit) /\ Len(cut) = m
    <3>1. cut \in [1 .. m -> Digit]
      BY <1>3, <2>1, <2>2
    <3>2. QED BY <1>1, <3>1
  <2>4. cut = fraction
    BY <2>2, <2>3
  <2>5. QED BY <1>4, <2>4 DEF cut
<1>11. body[1] \in Digit /\ body # <<>>
  <2>1. 1 \in 1 .. n /\ Len(body) # 0
    BY <1>1, <1>4
  <2>2. QED BY <1>2, <1>4, <2>1
<1> HIDE DEF point, n
<1>12. PointAt(body) - 1 = n /\ PointAt(body) + 1 = n + 2
  BY <1>1, <1>8 DEF point
<1>13. SubSeq(body, 1, PointAt(body) - 1) = whole
  BY <1>9, <1>12
<1>14. SubSeq(body, PointAt(body) + 1, Len(body)) = fraction
  BY <1>10, <1>12
<1>15. QED BY <1>4, <1>7, <1>11, <1>13, <1>14 DEF body, points, n

\* The parser reads a number by its parts.
LEMMA ParseIs ==
    ASSUME NEW negative \in BOOLEAN,
           NEW whole \in Seq(Digit), whole # <<>>, NEW fraction \in Seq(Digit),
           NEW dot \in BOOLEAN, ~dot => fraction = <<>>
    PROVE  ParseFixedPoint(Signed(negative, Body(whole, dot, fraction)))
             = Read(negative, whole, fraction)
<1> DEFINE b == Body(whole, dot, fraction)
           text == Signed(negative, b)
           signed == text # <<>> /\ text[1] = Minus
           body == IF signed THEN Tail(text) ELSE text
           points == Points(b)
           point  == PointAt(b)
<1>1. /\ b # <<>> /\ b[1] # Minus /\ b[1] \in Digit
      /\ b \in Seq(Digit \cup {Point})
      /\ points = IF dot THEN {Len(whole) + 1} ELSE {}
      /\ SubSeq(b, 1, point - 1) = whole
      /\ SubSeq(b, point + 1, Len(b)) = fraction
  <2>1. /\ b # <<>> /\ b[1] \in Digit
        /\ b \in Seq(Digit \cup {Point})
        /\ points = IF dot THEN {Len(whole) + 1} ELSE {}
        /\ SubSeq(b, 1, point - 1) = whole
        /\ SubSeq(b, point + 1, Len(b)) = fraction
    BY BodyIs
  <2>2. Minus \notin Digit
    BY TextAssumption DEF Minus, Digit
  <2> HIDE DEF b, points, point
  <2>3. QED BY <2>1, <2>2
<1>2. ~(\E i \in DOMAIN b : b[i] \notin Digit \cup {Point})
  BY <1>1
<1>3. Cardinality(points) \in {0, 1}
  <2> HIDE DEF points
  <2>1. QED BY <1>1, FS_EmptySet, FS_Singleton
<1>4. signed = negative /\ body = b
  <2> HIDE DEF b
  <2>1. CASE negative
    <3>1. text = <<Minus>> \o b
      BY <2>1 DEF Signed
    <3> DEFINE t == <<Minus>> \o b
    <3>2. t \in Seq(Digit \cup {Point, Minus}) /\ Len(t) = Len(b) + 1 /\ t[1] = Minus
          /\ \A i \in 1 .. Len(b) : t[i + 1] = b[i]
      BY <1>1
    <3>3. Tail(t) = b
      <4> HIDE DEF t
      <4>1. Len(b) \in Nat /\ t # <<>>
        BY <1>1, <3>2
      <4>2. Tail(t) \in Seq(Digit \cup {Point, Minus}) /\ Len(Tail(t)) = Len(b)
            /\ \A i \in 1 .. Len(b) : Tail(t)[i] = t[i + 1]
        BY <3>2, <4>1
      <4>3. b \in Seq(Digit \cup {Point, Minus})
        BY <1>1
      <4> DEFINE u == Tail(t)
      <4>4. \A i \in 1 .. Len(b) : u[i] = b[i]
        BY <3>2, <4>2
      <4>5. u \in Seq(Digit \cup {Point, Minus}) /\ Len(u) = Len(b)
        BY <4>2
      <4> HIDE DEF u
      <4>6. u = b
        BY <4>3, <4>4, <4>5
      <4>7. QED BY <4>6 DEF u
    <3>4. t # <<>>
      BY <3>2
    <3> HIDE DEF t
    <3>5. QED BY <2>1, <3>1, <3>2, <3>3, <3>4 DEF t
  <2>2. CASE ~negative
    <3>1. text = b
      BY <2>2 DEF Signed
    <3>2. QED BY <1>1, <2>2, <3>1
  <2>3. QED BY <2>1, <2>2
<1> HIDE DEF b, text
<1>5. ParseFixedPoint(text)
        = IF \/ \E i \in DOMAIN b : b[i] \notin Digit \cup {Point}
             \/ Cardinality(points) > 1
             \/ SubSeq(b, 1, point - 1) = <<>>
          THEN InvalidSyntax ELSE Read(negative, SubSeq(b, 1, point - 1), SubSeq(b, point + 1, Len(b)))
  BY <1>4, ZenonT(30) DEF ParseFixedPoint, Read, Points, PointAt
<1> HIDE DEF points, point
<1>6. ParseFixedPoint(text) = Read(negative, whole, fraction)
  <2>1. SubSeq(b, 1, point - 1) = whole
    BY <1>1
  <2>2. SubSeq(b, point + 1, Len(b)) = fraction
    BY <1>1
  <2>3. ~(Cardinality(points) > 1)
    BY <1>3
  <2>4. QED BY <1>2, <1>5, <2>1, <2>2, <2>3
<1>7. QED BY <1>6 DEF text, b

\* What RenderFixedPoint writes, by its parts.
LEMMA RenderIs ==
    ASSUME NEW u, NEW minDp,
           FixedPointParts(u, minDp).whole \in Seq(Digit),
           FixedPointParts(u, minDp).fraction \in Seq(Digit)
    PROVE  LET parts == FixedPointParts(u, minDp) IN
           RenderFixedPoint(u, minDp)
             = Signed(u < 0, Body(parts.whole, parts.fraction # <<>>, parts.fraction))
<1> DEFINE parts == FixedPointParts(u, minDp)
           whole == parts.whole
           fraction == parts.fraction
           tail == IF fraction = <<>> THEN <<>> ELSE <<Point>> \o fraction
           S == Digit \cup {Point, Minus}
<1>1. parts.negative = (u < 0)
  BY DEF FixedPointParts
<1>2. RenderFixedPoint(u, minDp) = (IF u < 0 THEN <<Minus>> ELSE <<>>) \o whole \o tail
  BY <1>1 DEF RenderFixedPoint
<1>3. Body(whole, fraction # <<>>, fraction) = whole \o tail
  BY DEF Body
<1>4. fraction \in Seq(S) /\ whole \in Seq(S) /\ <<Minus>> \in Seq(S) /\ <<Point>> \in Seq(S) /\ <<>> \in Seq(S)
  OBVIOUS
<1> HIDE DEF parts, whole, fraction, S
<1>5. tail \in Seq(S)
  BY <1>4, ConcatProperties
<1> HIDE DEF tail
<1>6. (<<Minus>> \o whole) \o tail = <<Minus>> \o (whole \o tail)
  BY <1>4, <1>5, ConcatAssociative
<1>7. <<>> \o whole = whole
  BY <1>4, ConcatEmptySeq
<1>8. RenderFixedPoint(u, minDp) = Signed(u < 0, whole \o tail)
  BY <1>2, <1>6, <1>7 DEF Signed
<1>9. QED BY <1>3, <1>8 DEF whole, fraction, parts

\* What is written is read as the number it was, whatever the least number of places:
\* trimmed zeros come back, and neither accumulator nor domain is left.
LEMMA RoundTrip ==
    ASSUME NEW u \in Int, InDomain(u), NEW minDp \in 0 .. Places
    PROVE  ParseFixedPoint(RenderFixedPoint(u, minDp)) = Ok(u)
<1> DEFINE m == Abs(u)
           all == LastDigits(m % Scale, Places)
           whole == Numeral(m \div Scale)
           fraction == Trim(all, minDp)
           zeros == [i \in 1 .. Places - Len(fraction) |-> 0]
<1>1. m \in Nat /\ m =< NarrowMax /\ NarrowMax \in Nat /\ NarrowMax < MaxMagnitude
  BY Widths DEF Abs, InDomain, MaxMagnitude
<1>2. Places \in Nat /\ Scale \in Nat \ {0} /\ Scale = Power(Places) /\ Radix \in Nat /\ 0 \in Digit
  BY TextAssumption, KernelAssumption DEF Digit
<1>3. Abs(u) = m
  OBVIOUS
<1> HIDE DEF m
<1>4. m \div Scale \in Nat /\ m % Scale \in Nat
  BY <1>1, WholeAndRest
<1>5. PICK w \in Nat \ {0} :
        m \div Scale < Power(w) /\ Numeral(m \div Scale) = LastDigits(m \div Scale, w)
  BY <1>4, NumeralIs
<1>6. /\ whole \in Seq(Digit) /\ Len(whole) = w
      /\ all \in Seq(Digit) /\ Len(all) = Places
  BY <1>2, <1>4, <1>5, LastDigitsAre
<1>7. PICK v : Horner(whole \o all, v) /\ v[w + Places] = m
  BY <1>1, <1>5, DigitsSpell
<1>8. FixedPointParts(u, minDp) = [negative |-> u < 0, whole |-> whole, fraction |-> fraction]
  BY <1>3 DEF FixedPointParts
<1> HIDE DEF all, whole
<1>9. /\ fraction \in Seq(Digit)
      /\ Len(fraction) =< Len(all)
      /\ \A i \in 1 .. Len(fraction) : fraction[i] = all[i]
      /\ \A i \in Len(fraction) + 1 .. Len(all) : all[i] = 0
  BY <1>6, TrimIs, Zenon
<1> HIDE DEF fraction
<1>10. zeros \in Seq(Digit) /\ Len(zeros) = Places - Len(fraction) /\ \A i \in 1 .. Places - Len(fraction) : zeros[i] = 0
  <2>1. Places - Len(fraction) \in Nat
    BY <1>2, <1>6, <1>9
  <2>2. zeros \in [1 .. Places - Len(fraction) -> Digit]
    BY <1>2
  <2>3. QED BY <2>1, <2>2
<1> HIDE DEF zeros
<1>11. fraction \o zeros = all
  <2>1. fraction \o zeros \in Seq(Digit) /\ Len(fraction \o zeros) = Places
        /\ \A i \in 1 .. Places : (fraction \o zeros)[i] = IF i =< Len(fraction) THEN fraction[i] ELSE zeros[i - Len(fraction)]
    <3>1. Len(fraction) \in Nat /\ Len(fraction) + Len(zeros) = Places
      BY <1>2, <1>9, <1>10
    <3>2. fraction \o zeros \in Seq(Digit)
      BY <1>9, <1>10, ConcatProperties
    <3>3. Len(fraction \o zeros) = Len(fraction) + Len(zeros)
      <4>1. fraction \in Seq(Digit) /\ zeros \in Seq(Digit)
        BY <1>9, <1>10
      <4>2. QED BY <4>1, ConcatProperties
    <3>4. \A i \in 1 .. Len(fraction) + Len(zeros) :
            (fraction \o zeros)[i] = IF i =< Len(fraction) THEN fraction[i] ELSE zeros[i - Len(fraction)]
      BY <1>9, <1>10, ConcatProperties
    <3>5. QED BY <3>1, <3>2, <3>3, <3>4
  <2> DEFINE s == fraction \o zeros
  <2>2. ASSUME NEW i \in 1 .. Places PROVE s[i] = all[i]
    <3>1. CASE i =< Len(fraction)
      BY <1>9, <2>1, <3>1
    <3>2. CASE ~(i =< Len(fraction))
      <4>1. i - Len(fraction) \in 1 .. Places - Len(fraction) /\ i \in Len(fraction) + 1 .. Len(all)
        BY <1>2, <1>6, <1>9, <3>2
      <4>2. QED BY <1>9, <1>10, <2>1, <3>2, <4>1
    <3>3. QED BY <3>1, <3>2
  <2>3. s \in Seq(Digit) /\ Len(s) = Places
    BY <2>1
  <2> HIDE DEF s
  <2>4. s = all
    BY <1>6, <2>2, <2>3
  <2>5. QED BY <2>4 DEF s
<1>12. whole \o fraction \o zeros = whole \o all
  <2>1. (whole \o fraction) \o zeros = whole \o (fraction \o zeros)
    <3>1. whole \in Seq(Digit) /\ fraction \in Seq(Digit) /\ zeros \in Seq(Digit)
      BY <1>6, <1>9, <1>10
    <3>2. QED BY <3>1, ConcatAssociative
  <2>2. QED BY <1>11, <2>1
<1>13. Magnitude(whole \o all) = m
  <2>1. Horner(whole \o all, v) /\ v[w + Places] = m
    BY <1>7
  <2>2. whole \o all \in Seq(Digit) /\ Len(whole \o all) = w + Places
    BY <1>6, ConcatProperties
  <2>3. Magnitude(whole \o all) = IF v[w + Places] > MaxMagnitude THEN MaxMagnitude + 1 ELSE v[w + Places]
    BY <2>1, <2>2, MagnitudeIs
  <2>4. MaxMagnitude \in Int
    BY <1>1 DEF MaxMagnitude
  <2>5. QED BY <1>1, <2>1, <2>3, <2>4
<1>14. Read(u < 0, whole, fraction) = Ok(u)
  <2>1. Len(fraction) \in Nat /\ Len(fraction) =< Places
    BY <1>6, <1>9
  <2>2. Magnitude(whole \o fraction \o [i \in 1 .. Places - Len(fraction) |-> 0]) = m
    BY <1>12, <1>13 DEF zeros
  <2>3. u = IF u < 0 THEN -m ELSE m
    BY <1>3 DEF Abs
  <2>4. ~(Len(fraction) > Places) /\ ~(m > NarrowMax) /\ m # NarrowMax + 1
    BY <1>1, <1>2, <2>1
  <2>5. QED BY <2>2, <2>3, <2>4 DEF Read
<1>15. whole # <<>>
  BY <1>6
<1>16. RenderFixedPoint(u, minDp) = Signed(u < 0, Body(whole, fraction # <<>>, fraction))
  BY <1>6, <1>8, <1>9, RenderIs
<1>17. ParseFixedPoint(Signed(u < 0, Body(whole, fraction # <<>>, fraction))) = Read(u < 0, whole, fraction)
  <2> DEFINE dot == fraction # <<>>
             neg == u < 0
  <2>1. dot \in BOOLEAN /\ neg \in BOOLEAN /\ (~dot => fraction = <<>>)
    OBVIOUS
  <2> HIDE DEF dot, neg
  <2>2. ParseFixedPoint(Signed(neg, Body(whole, dot, fraction))) = Read(neg, whole, fraction)
    BY <1>6, <1>9, <1>15, <2>1, ParseIs
  <2>3. QED BY <2>2 DEF dot, neg
<1>18. QED BY <1>14, <1>16, <1>17

-----------------------------------------------------------------------------
(* Forms. *)

\* The places of a currency are places.
LEMMA MinPlacesAre ==
    ASSUME NEW c \in Currencies PROVE MinPlaces(c) \in 0 .. Places
<1>1. Exponent[c] \subseteq 0 .. Places /\ 0 \in 0 .. Places
  BY TextAssumption
<1>2. Exponent[c] # {} => (CHOOSE e \in Exponent[c] : TRUE) \in Exponent[c]
  OBVIOUS
<1>3. QED BY <1>1, <1>2 DEF MinPlaces

\* An amount and a rate are read as they were written.
LEMMA NumbersBack ==
    ASSUME NEW u \in Int, InDomain(u)
    PROVE  /\ \A c \in Currencies : ParseAmount(RenderAmount(u, c)) = Ok(u)
           /\ TryRate(u).tag = "Ok" => Then(ParseFixedPoint(RenderRate(u)), TryRate) = Ok(u)
<1>1. Ok(u).tag = "Ok" /\ Ok(u).value = u
  BY DEF Ok
<1>2. TryFromUnits(u) = Ok(u)
  BY DEF TryFromUnits
<1>3. ASSUME NEW c \in Currencies PROVE ParseAmount(RenderAmount(u, c)) = Ok(u)
  <2>1. ParseFixedPoint(RenderAmount(u, c)) = Ok(u)
    BY MinPlacesAre, RoundTrip DEF RenderAmount
  <2>2. QED BY <1>1, <1>2, <2>1 DEF ParseAmount, Then
<1>4. ASSUME TryRate(u).tag = "Ok" PROVE Then(ParseFixedPoint(RenderRate(u)), TryRate) = Ok(u)
  <2>1. 0 \in 0 .. Places
    BY TextAssumption
  <2>2. ParseFixedPoint(RenderRate(u)) = Ok(u)
    BY <2>1, RoundTrip DEF RenderRate
  <2>3. TryRate(u) = Ok(u)
    BY <1>4 DEF TryRate, NonPositive, OutOfDomain, Ok
  <2>4. QED BY <1>1, <2>2, <2>3 DEF Then
<1>5. QED BY <1>3, <1>4

\* A text in a currency is read for that currency, and refused for another.
LEMMA CodeIs ==
    ASSUME NEW c, NEW found \in Currencies, NEW otherwise
    PROVE  CheckCode(c, found, otherwise) = IF found # c THEN WrongCurrency(c, found) ELSE otherwise
BY DEF CheckCode

\* The least of one or two places.
LEMMA LeastPlace == Min({1}) = 1 /\ Min({2}) = 2 /\ Min({1, 2}) = 1
<1>1. \A S : Min(S) = CHOOSE x \in S : \A y \in S : x =< y
  BY DEF Min
<1>2. Min({1}) \in {1}
  BY <1>1
<1>3. Min({2}) \in {2}
  BY <1>1
<1>4. Min({1, 2}) \in {1, 2} /\ \A y \in {1, 2} : Min({1, 2}) =< y
  <2>1. \E x \in {1, 2} : \A y \in {1, 2} : x =< y
    <3>1. 1 \in {1, 2} /\ \A y \in {1, 2} : 1 =< y
      OBVIOUS
    <3>2. QED BY <3>1
  <2>2. QED BY <1>1, <2>1
<1>5. QED BY <1>2, <1>3, <1>4

\* Where two codes differ, or two pairs of them.
Differ(codes, readers) == {i \in DOMAIN codes : codes[i] # readers[i]}

\* For one code that is the first place, if anywhere.
LEMMA DifferOne ==
    ASSUME NEW c, NEW d
    PROVE  Differ(<<c>>, <<d>>) = IF c # d THEN {1} ELSE {}
<1>1. DOMAIN <<c>> = {1} /\ <<c>>[1] = c /\ <<d>>[1] = d
  OBVIOUS
<1>2. QED BY <1>1 DEF Differ

\* The tags of a form are judged at the first place where they differ.
LEMMA TagsAre ==
    ASSUME NEW expected, NEW found, NEW otherwise,
           \A i \in DOMAIN found : found[i] \in Currencies
    PROVE  CheckTags(expected, found, otherwise)
             = IF Differ(expected, found) = {} THEN otherwise
               ELSE WrongCurrency(expected[Min(Differ(expected, found))],
                                  found[Min(Differ(expected, found))])
BY DEF CheckTags, Differ

\* A numeric code is that of its currency alone.
LEMMA NumericIs ==
    ASSUME NEW c \in Currencies
    PROVE  FromNumeric(Numeric[c]) # {} /\ (CHOOSE d \in FromNumeric(Numeric[c]) : TRUE) = c
<1>1. FromNumeric(Numeric[c]) = {c}
  BY WireAssumption DEF FromNumeric
<1>2. QED BY <1>1

\* The binary form hands the codes back, and its units.
LEMMA BinaryIs ==
    ASSUME NEW codes, \A i \in DOMAIN codes : codes[i] \in Currencies, NEW expected, NEW u,
           codes = [i \in DOMAIN codes |-> codes[i]]
    PROVE  /\ FromBinary(expected, Binary(codes, u), TryFromUnits) = CheckTags(expected, codes, TryFromUnits(u))
           /\ FromBinary(expected, Binary(codes, u), TryRate) = CheckTags(expected, codes, TryRate(u))
<1> DEFINE bytes == Binary(codes, u)
           found == [i \in DOMAIN bytes.numerics |->
                       LET known == FromNumeric(bytes.numerics[i]) IN
                       IF known = {} THEN NoCode ELSE CHOOSE c \in known : TRUE]
<1>1. bytes.units = u /\ bytes.numerics = [i \in DOMAIN codes |-> Numeric[codes[i]]]
  BY DEF Binary
<1> HIDE DEF bytes
<1>2. DOMAIN bytes.numerics = DOMAIN codes /\ \A i \in DOMAIN codes : bytes.numerics[i] = Numeric[codes[i]]
  BY <1>1
<1>3. \A i \in DOMAIN codes :
        (LET known == FromNumeric(Numeric[codes[i]]) IN
         IF known = {} THEN NoCode ELSE CHOOSE c \in known : TRUE) = codes[i]
  BY NumericIs
<1>4. found = codes
  BY <1>2, <1>3
<1>5. FromBinary(expected, bytes, TryFromUnits) = CheckTags(expected, found, TryFromUnits(bytes.units))
  BY DEF FromBinary
<1>6. FromBinary(expected, bytes, TryRate) = CheckTags(expected, found, TryRate(bytes.units))
  BY DEF FromBinary
<1> HIDE DEF found
<1>7. QED BY <1>1, <1>4, <1>5, <1>6 DEF bytes

\* What a carried value is read as.
Carried(r, form, u, codes, readers) ==
    LET differ == {i \in DOMAIN codes : codes[i] # readers[i]} IN
    IF form = "native" THEN r.tag # "Ok"
    ELSE IF form = "cast" THEN differ = {} => r = Ok(u)
    ELSE IF differ = {} THEN r = Ok(u)
    ELSE LET i == Min(differ) IN r = WrongCurrency(readers[i], codes[i])

\* Every form brings an amount back.
LEMMA MoneyCarried ==
    ASSUME NEW form \in Forms, NEW u \in Money, NEW c \in Currencies, NEW reader \in Currencies
    PROVE  Carried(CarryMoney(form, c, u, reader), form, u, <<c>>, <<reader>>)
<1> DEFINE text == [codes |-> <<c>>, number |-> RenderAmount(u, c)]
           wrong == WrongCurrency(reader, c)
           r == CarryMoney(form, c, u, reader)
<1>1. u \in Int /\ InDomain(u)
  BY Widths DEF Money, InDomain
<1>2. ParseAmount(RenderAmount(u, c)) = Ok(u) /\ TryFromUnits(u) = Ok(u)
  BY <1>1, NumbersBack DEF TryFromUnits
<1>3. Render(u, c).value = text
  BY <1>1 DEF Render, Ok
<1>4. text.codes = <<c>> /\ text.number = RenderAmount(u, c)
  OBVIOUS
<1> HIDE DEF text
<1>5. Len(<<c>>) = 1 /\ <<c>>[1] = c /\ <<c>> # <<>> /\ DOMAIN <<c>> = {1} /\ <<reader>>[1] = reader
      /\ <<c>> = [i \in DOMAIN <<c>> |-> <<c>>[i]]
  OBVIOUS
<1>6. MoneyFromStr(reader, text) = IF c # reader THEN wrong ELSE Ok(u)
  BY <1>2, <1>4, <1>5, CodeIs DEF MoneyFromStr
<1>7. CheckTags(<<reader>>, <<c>>, Ok(u)) = IF c # reader THEN wrong ELSE Ok(u)
  BY <1>5, TagsAre, DifferOne, LeastPlace
<1>8. CASE form \in {"string", "structured", "binary", "column"}
  <2> DEFINE read == IF c # reader THEN wrong ELSE Ok(u)
  <2>1. ASSUME form = "string" PROVE r = read
    BY <1>3, <1>6, <2>1 DEF CarryMoney
  <2>2. ASSUME form = "structured" PROVE r = read
    <3>1. r = ReadStructuredMoney(reader, StructuredMoney(c, u))
      BY <2>2 DEF CarryMoney
    <3>2. StructuredMoney(c, u).codes = <<c>> /\ StructuredMoney(c, u).number = RenderAmount(u, c)
      BY DEF StructuredMoney
    <3>3. QED BY <1>2, <1>7, <3>1, <3>2 DEF ReadStructuredMoney
  <2>3. ASSUME form = "binary" PROVE r = read
    <3>1. r = ReadBinaryMoney(reader, Binary(<<c>>, u))
      BY <2>3 DEF CarryMoney
    <3>2. FromBinary(<<reader>>, Binary(<<c>>, u), TryFromUnits) = CheckTags(<<reader>>, <<c>>, TryFromUnits(u))
      <4>1. \A i \in DOMAIN <<c>> : <<c>>[i] \in Currencies
        BY <1>5
      <4> DEFINE codes == <<c>>
                 expected == <<reader>>
      <4>2. codes = [i \in DOMAIN codes |-> codes[i]] /\ \A i \in DOMAIN codes : codes[i] \in Currencies
        BY <1>5, <4>1
      <4> HIDE DEF codes, expected
      <4>3. FromBinary(expected, Binary(codes, u), TryFromUnits) = CheckTags(expected, codes, TryFromUnits(u))
        BY <4>2, BinaryIs, ZenonT(60)
      <4>4. QED BY <4>3 DEF codes, expected
    <3>3. QED BY <1>2, <1>7, <3>1, <3>2 DEF ReadBinaryMoney
  <2>4. ASSUME form = "column" PROVE r = read
    <3>1. r = FromSqlMoney(reader, "text", text)
      BY <1>3, <2>4 DEF CarryMoney
    <3>2. QED BY <1>4, <1>5, <1>6, <3>1 DEF FromSqlMoney, Compatible, DecodeMoney
  <2>5. r = IF c # reader THEN wrong ELSE Ok(u)
    BY <1>8, <2>1, <2>2, <2>3, <2>4
  <2> HIDE DEF r
  <2>6. Differ(<<c>>, <<reader>>) = IF c # reader THEN {1} ELSE {}
    BY DifferOne
  <2>7. Carried(r, form, u, <<c>>, <<reader>>)
          <=> IF Differ(<<c>>, <<reader>>) = {} THEN r = Ok(u)
              ELSE r = WrongCurrency(<<reader>>[Min(Differ(<<c>>, <<reader>>))], <<c>>[Min(Differ(<<c>>, <<reader>>))])
    BY <1>8 DEF Carried, Differ
  <2>8. CASE c = reader
    BY <2>5, <2>6, <2>7, <2>8 DEF r
  <2>9. CASE c # reader
    BY <1>5, <2>5, <2>6, <2>7, <2>9, LeastPlace DEF r
  <2>10. QED BY <2>8, <2>9
<1>9. CASE form = "native"
  <2>1. r = NotText
    BY <1>9 DEF CarryMoney, FromSqlMoney, Compatible
  <2>2. QED BY <1>9, <2>1 DEF Carried, NotText
<1>10. CASE form = "cast"
  <2>1. r = FromSqlMoney(reader, "text", [text EXCEPT !.codes = <<>>])
    BY <1>3, <1>10 DEF CarryMoney
  <2>2. [text EXCEPT !.codes = <<>>].codes = <<>> /\ [text EXCEPT !.codes = <<>>].number = RenderAmount(u, c)
    BY DEF text
  <2>3. r = Ok(u)
    BY <1>2, <2>1, <2>2 DEF FromSqlMoney, Compatible, DecodeMoney
  <2>4. QED BY <1>10, <2>3 DEF Carried
<1>11. QED BY <1>8, <1>9, <1>10 DEF Forms

\* Every form brings a rate back.
LEMMA RateCarried ==
    ASSUME NEW form \in Forms \ {"cast"}, NEW u \in Units, TryRate(u).tag = "Ok",
           NEW pair \in Currencies \X Currencies, NEW b \in Currencies, NEW quote \in Currencies
    PROVE  Carried(CarryRate(form, pair, u, b, quote), form, u, pair, <<b, quote>>)
<1> DEFINE text == DisplayRate(u, pair[1], pair[2])
           readers == <<b, quote>>
           first == WrongCurrency(b, pair[1])
           second == WrongCurrency(quote, pair[2])
           read == IF pair[1] # b THEN first ELSE IF pair[2] # quote THEN second ELSE Ok(u)
           r == CarryRate(form, pair, u, b, quote)
<1>1. u \in Int /\ InDomain(u) /\ TryRate(u) = Ok(u)
  <2>1. u \in 1 .. DomainMax
    BY RateType
  <2>2. u \in Int /\ InDomain(u)
    BY <2>1, Widths DEF InDomain
  <2>3. QED BY <2>2 DEF TryRate, NonPositive, OutOfDomain, Ok
<1>2. Then(ParseFixedPoint(RenderRate(u)), TryRate) = Ok(u)
  BY <1>1, NumbersBack
<1>3. text.codes = <<pair[1], pair[2]>> /\ text.number = RenderRate(u)
  BY DEF DisplayRate
<1>4. pair = <<pair[1], pair[2]>> /\ pair[1] \in Currencies /\ pair[2] \in Currencies
  OBVIOUS
<1>5. /\ Len(pair) = 2 /\ DOMAIN pair = {1, 2} /\ readers[1] = b /\ readers[2] = quote
      /\ pair = [i \in DOMAIN pair |-> pair[i]] /\ \A i \in DOMAIN pair : pair[i] \in Currencies
  <2>1. DOMAIN pair = {1, 2} /\ Len(pair) = 2
    BY <1>4
  <2>2. pair = [i \in DOMAIN pair |-> pair[i]]
    BY <1>4
  <2>3. \A i \in DOMAIN pair : pair[i] \in Currencies
    BY <1>4, <2>1
  <2>4. QED BY <2>1, <2>2, <2>3
<1>6. text.codes = pair
  BY <1>3, <1>4
<1>7. Differ(pair, readers) = IF pair[1] # b THEN (IF pair[2] # quote THEN {1, 2} ELSE {1})
                              ELSE IF pair[2] # quote THEN {2} ELSE {}
  BY <1>5 DEF Differ
<1>8. Differ(readers, pair) = Differ(pair, readers)
  <2>1. DOMAIN readers = {1, 2}
    OBVIOUS
  <2>2. QED BY <1>5, <2>1 DEF Differ
<1> HIDE DEF text, readers
<1>9. CheckTags(readers, pair, Ok(u)) = read
  <2>1. CheckTags(readers, pair, Ok(u))
          = IF Differ(pair, readers) = {} THEN Ok(u)
            ELSE WrongCurrency(readers[Min(Differ(pair, readers))], pair[Min(Differ(pair, readers))])
    BY <1>5, <1>8, TagsAre
  <2>2. CASE pair[1] # b
    BY <1>5, <1>7, <2>1, <2>2, LeastPlace
  <2>3. CASE pair[1] = b /\ pair[2] # quote
    BY <1>5, <1>7, <2>1, <2>3, LeastPlace
  <2>4. CASE pair[1] = b /\ pair[2] = quote
    BY <1>7, <2>1, <2>4
  <2>5. QED BY <2>2, <2>3, <2>4
<1>10. RateFromStr(b, quote, text) = read
  <2>1. RateFromStr(b, quote, text)
          = CheckCode(b, pair[1], CheckCode(quote, pair[2], Ok(u)))
    BY <1>2, <1>3, <1>5, <1>6 DEF RateFromStr
  <2>2. QED BY <1>4, <2>1, CodeIs
<1>11. CASE form \in {"string", "structured", "binary", "column"}
  <2>1. ASSUME form = "string" PROVE r = read
    BY <1>10, <2>1 DEF CarryRate, text
  <2>2. ASSUME form = "structured" PROVE r = read
    <3>1. r = ReadStructuredRate(b, quote, StructuredRate(pair[1], pair[2], u))
      BY <2>2 DEF CarryRate
    <3>2. StructuredRate(pair[1], pair[2], u) = text
      BY DEF StructuredRate, text
    <3>3. ReadStructuredRate(b, quote, text) = CheckTags(readers, pair, Ok(u))
      BY <1>2, <1>3, <1>6 DEF ReadStructuredRate, readers
    <3>4. QED BY <1>9, <3>1, <3>2, <3>3
  <2>3. ASSUME form = "binary" PROVE r = read
    <3>1. r = ReadBinaryRate(b, quote, Binary(pair, u))
      BY <2>3 DEF CarryRate
    <3>2. FromBinary(readers, Binary(pair, u), TryRate) = CheckTags(readers, pair, TryRate(u))
      <4> DEFINE codes == pair
      <4>1. codes = [i \in DOMAIN codes |-> codes[i]] /\ \A i \in DOMAIN codes : codes[i] \in Currencies
        BY <1>5
      <4> HIDE DEF codes
      <4>2. FromBinary(readers, Binary(codes, u), TryRate) = CheckTags(readers, codes, TryRate(u))
        BY <4>1, BinaryIs, ZenonT(60)
      <4>3. QED BY <4>2 DEF codes
    <3>3. QED BY <1>1, <1>9, <3>1, <3>2 DEF ReadBinaryRate, readers
  <2>4. ASSUME form = "column" PROVE r = read
    <3>1. r = FromSqlRate(b, quote, "text", text)
      BY <2>4 DEF CarryRate, text
    <3>2. QED BY <1>10, <3>1 DEF FromSqlRate, Compatible
  <2>5. r = read
    BY <1>11, <2>1, <2>2, <2>3, <2>4
  <2> HIDE DEF r
  <2>6. Carried(r, form, u, pair, readers)
          <=> IF Differ(pair, readers) = {} THEN r = Ok(u)
              ELSE r = WrongCurrency(readers[Min(Differ(pair, readers))], pair[Min(Differ(pair, readers))])
    BY <1>11 DEF Carried, Differ
  <2>7. Carried(r, form, u, pair, readers)
    <3>1. CASE pair[1] # b
      BY <1>5, <1>7, <2>5, <2>6, <3>1, LeastPlace
    <3>2. CASE pair[1] = b /\ pair[2] # quote
      BY <1>5, <1>7, <2>5, <2>6, <3>2, LeastPlace
    <3>3. CASE pair[1] = b /\ pair[2] = quote
      BY <1>7, <2>5, <2>6, <3>3
    <3>4. QED BY <3>1, <3>2, <3>3
  <2>8. QED BY <2>7 DEF r, readers
<1>12. CASE form = "native"
  <2>1. r = NotText
    BY <1>12 DEF CarryRate, FromSqlRate, Compatible
  <2>2. QED BY <1>12, <2>1 DEF Carried, NotText
<1>13. QED BY <1>11, <1>12 DEF Forms

\* The codec that learns the currency from the text brings an amount back, and
\* refuses to write what is none.
LEMMA CodecBack ==
    ASSUME NEW u \in Int, NEW c \in Currencies
    PROVE  Then(Render(u, c), Parse) = TryFromUnits(u)
<1>1. CASE InDomain(u)
  <2> DEFINE text == [codes |-> <<c>>, number |-> RenderAmount(u, c)]
  <2>1. Render(u, c) = Ok(text)
    BY <1>1 DEF Render
  <2>2. text.codes = <<c>> /\ text.number = RenderAmount(u, c)
    OBVIOUS
  <2> HIDE DEF text
  <2>3. Len(<<c>>) = 1 /\ <<c>>[1] = c
    OBVIOUS
  <2>4. ParseAmount(text.number) = Ok(u)
    BY <1>1, <2>2, NumbersBack
  <2>5. MoneyFromStr(c, text) = Ok(u)
    BY <2>2, <2>3, <2>4, CodeIs DEF MoneyFromStr
  <2>6. Parse(text) = Ok(u)
    BY <2>2, <2>3, <2>5 DEF Parse
  <2>7. Then(Ok(text), Parse) = Parse(text)
    BY DEF Then, Ok
  <2>8. QED BY <1>1, <2>1, <2>6, <2>7 DEF TryFromUnits
<1>2. CASE ~InDomain(u)
  <2>1. Render(u, c) = OutOfDomain(u) /\ TryFromUnits(u) = OutOfDomain(u)
    BY <1>2 DEF Render, TryFromUnits
  <2>2. OutOfDomain(u).tag # "Ok"
    BY DEF OutOfDomain
  <2>3. QED BY <2>1, <2>2 DEF Then
<1>3. QED BY <1>1, <1>2

-----------------------------------------------------------------------------
(* What a text spells. *)

\* Digits have their partial values.
LEMMA HornerExists ==
    ASSUME NEW s \in Seq(Digit) PROVE \E v : Horner(s, v)
<1> DEFINE Values(k, v) == /\ v \in [0 .. k -> Nat] /\ v[0] = 0
                           /\ \A n \in 1 .. k : n =< Len(s) => v[n] = v[n - 1] * Radix + s[n]
           H == {k \in Nat : \E v : Values(k, v)}
<1>1. Radix \in Nat /\ Len(s) \in Nat /\ \A n \in 1 .. Len(s) : s[n] \in Nat
  BY TextAssumption DEF Digit
<1>2. 0 \in H
  <2>1. Values(0, [n \in 0 .. 0 |-> 0])
    OBVIOUS
  <2>2. QED BY <2>1
<1>3. ASSUME NEW k \in Nat, k \in H PROVE k + 1 \in H
  <2>1. PICK v : Values(k, v)
    BY <1>3
  <2> DEFINE x == IF k + 1 =< Len(s) THEN v[k] * Radix + s[k + 1] ELSE 0
             u == [n \in 0 .. k + 1 |-> IF n = k + 1 THEN x ELSE v[n]]
  <2>2. x \in Nat
    <3>1. v[k] \in Nat
      BY <2>1
    <3> DEFINE a == v[k]
    <3> HIDE DEF a
    <3>2. a * Radix \in Nat
      BY <1>1, <3>1 DEF a
    <3>3. QED BY <1>1, <3>2 DEF a
  <2>3. u[k + 1] = x /\ \A n \in 0 .. k : u[n] = v[n]
    OBVIOUS
  <2> HIDE DEF x
  <2>4. u \in [0 .. k + 1 -> Nat] /\ u[0] = 0
    <3>1. \A n \in 0 .. k + 1 : u[n] \in Nat
      BY <2>1, <2>2
    <3>2. u[0] = v[0]
      BY <2>3
    <3>3. QED BY <2>1, <3>1, <3>2
  <2> HIDE DEF u
  <2>5. ASSUME NEW n \in 1 .. k + 1, n =< Len(s) PROVE u[n] = u[n - 1] * Radix + s[n]
    <3>1. CASE n = k + 1
      BY <2>3, <2>5, <3>1 DEF x
    <3>2. CASE n # k + 1
      BY <2>1, <2>3, <2>5, <3>2
    <3>3. QED BY <3>1, <3>2
  <2>6. Values(k + 1, u)
    BY <2>4, <2>5
  <2> HIDE DEF Values
  <2>7. \E w : Values(k + 1, w)
    BY <2>6
  <2>8. QED BY <2>7
<1>4. Len(s) \in H
  <2> HIDE DEF H
  <2>1. QED BY <1>1, <1>2, <1>3, Counting
<1>5. PICK v : Values(Len(s), v)
  BY <1>4
<1>6. Horner(s, v)
  BY <1>5 DEF Horner
<1>7. QED BY <1>6

\* Zeros behind digits shift what these spell.
LEMMA Shifted ==
    ASSUME NEW s \in Seq(Digit), NEW v, Horner(s, v), NEW k \in Nat
    PROVE  LET t == s \o [i \in 1 .. k |-> 0]
               u == [n \in 0 .. Len(s) + k |->
                       IF n =< Len(s) THEN v[n] ELSE v[Len(s)] * Power(n - Len(s))]
           IN  /\ t \in Seq(Digit) /\ Len(t) = Len(s) + k /\ Horner(t, u)
               /\ u[Len(s) + k] = v[Len(s)] * Power(k)
<1> DEFINE zeros == [i \in 1 .. k |-> 0]
           t == s \o zeros
           l == Len(s)
           a == v[l]
           u == [n \in 0 .. l + k |-> IF n =< l THEN v[n] ELSE a * Power(n - l)]
<1>1. Radix \in Nat /\ 0 \in Digit /\ l \in Nat
  BY TextAssumption DEF Digit
<1>2. zeros \in Seq(Digit) /\ Len(zeros) = k /\ \A i \in 1 .. k : zeros[i] = 0
  <2>1. zeros \in [1 .. k -> Digit]
    BY <1>1
  <2>2. QED BY <2>1
<1> HIDE DEF zeros
<1>3. t \in Seq(Digit)
  BY <1>2, ConcatProperties
<1>4. Len(t) = l + k
  BY <1>2, ConcatProperties
<1>5. \A i \in 1 .. l + k : t[i] = IF i =< l THEN s[i] ELSE 0
  <2>1. \A i \in 1 .. l + k : t[i] = IF i =< l THEN s[i] ELSE zeros[i - l]
    BY <1>2, ConcatProperties
  <2>2. \A i \in 1 .. l + k : i =< l \/ zeros[i - l] = 0
    BY <1>1, <1>2
  <2>3. QED BY <2>1, <2>2
<1>6. a \in Nat /\ v[0] = 0 /\ \A n \in 0 .. l : v[n] \in Nat
  <2>1. v \in [0 .. l -> Nat] /\ v[0] = 0
    BY DEF Horner
  <2>2. QED BY <1>1, <2>1
<1>7. \A n \in 1 .. l : v[n] = v[n - 1] * Radix + s[n]
  BY DEF Horner
<1>8. \A n \in 0 .. l : u[n] = v[n]
  BY <1>1
<1>9. \A j \in 0 .. k : u[l + j] = a * Power(j)
  <2> TAKE j \in 0 .. k
  <2>1. CASE j = 0
    <3>1. u[l] = v[l] /\ l + 0 = l
      BY <1>1, <1>8
    <3>2. Power(0) = 1
      BY PowerDef
    <3> HIDE DEF u
    <3>3. a * 1 = a
      BY <1>6
    <3>4. QED BY <2>1, <3>1, <3>2, <3>3
  <2>2. CASE j # 0
    <3>1. l + j \in 0 .. l + k /\ ~(l + j =< l) /\ l + j - l = j
      BY <1>1, <2>2
    <3>2. QED BY <3>1
  <2>3. QED BY <2>1, <2>2
<1>10. u = [n \in 0 .. l + k |-> u[n]]
  OBVIOUS
<1> HIDE DEF t, u, a
<1>11. ASSUME NEW n \in 0 .. l + k PROVE u[n] \in Nat
  <2>1. CASE n =< l
    BY <1>6, <1>8, <2>1
  <2>2. CASE n > l
    <3> DEFINE j == n - l
    <3>1. j \in 0 .. k /\ j \in Nat /\ l + j = n
      BY <1>1, <2>2
    <3> HIDE DEF j
    <3> DEFINE p == Power(j)
    <3>2. p \in Nat /\ u[n] = a * p
      BY <1>9, <3>1, PowerIs
    <3> HIDE DEF p
    <3>3. QED BY <1>6, <3>2
  <2>3. QED BY <1>1, <2>1, <2>2
<1>12. ASSUME NEW n \in 1 .. l + k PROVE u[n] = u[n - 1] * Radix + t[n]
  <2>1. CASE n =< l
    BY <1>1, <1>5, <1>7, <1>8, <2>1
  <2>2. CASE n > l
    <3> DEFINE j == n - l
    <3>1. j \in 0 .. k /\ j - 1 \in 0 .. k /\ j - 1 \in Nat /\ (j - 1) + 1 = j /\ l + j = n /\ l + (j - 1) = n - 1
      BY <1>1, <2>2
    <3> HIDE DEF j
    <3> DEFINE p == Power(j - 1)
               q == Power(j)
    <3>2. q = Radix * p /\ p \in Nat
      <4>1. Power((j - 1) + 1) = Radix * p
        BY <3>1, PowerDef
      <4>2. QED BY <3>1, <4>1, PowerIs
    <3>3. u[n] = a * q /\ u[n - 1] = a * p
      <4>1. u[l + j] = a * Power(j)
        BY <1>9, <3>1
      <4>2. u[l + (j - 1)] = a * Power(j - 1)
        BY <1>9, <3>1
      <4>3. QED BY <3>1, <4>1, <4>2
    <3>4. t[n] = 0
      BY <1>1, <1>5, <2>2
    <3> HIDE DEF p, q
    <3>5. a * (Radix * p) = (a * p) * Radix
      BY <1>1, <1>6, <3>2
    <3>6. (a * p) * Radix + 0 = (a * p) * Radix
      BY <1>1, <1>6, <3>2
    <3>7. QED BY <3>2, <3>3, <3>4, <3>5, <3>6
  <2>3. QED BY <1>1, <2>1, <2>2
<1>13. Horner(t, u)
  <2>1. u \in [0 .. Len(t) -> Nat]
    BY <1>4, <1>10, <1>11
  <2>2. u[0] = 0
    BY <1>1, <1>6, <1>8
  <2>3. \A n \in 1 .. Len(t) : u[n] = u[n - 1] * Radix + t[n]
    BY <1>4, <1>12
  <2>4. QED BY <2>1, <2>2, <2>3 DEF Horner
<1>14. u[l + k] = a * Power(k)
  BY <1>9
<1>15. QED BY <1>3, <1>4, <1>13, <1>14 DEF t, u, a, zeros

\* The digits of a text, each weighed by the digits behind it, sum up to what they
\* spell one after the other.
LEMMA DigitsSum ==
    ASSUME NEW text \in Seq(Nat), NEW point, NEW q \in [0 .. Len(text) -> Nat], q[0] = 0,
           \A k \in 1 .. Len(text) :
             q[k] = IF text[k] \in Digit THEN q[k - 1] * Radix + text[k] ELSE q[k - 1]
    PROVE  Spelled(text, point).digits = q[Len(text)]
<1> DEFINE digits == {i \in DOMAIN text : text[i] \in Digit}
           Behind(i) == {j \in digits : j > i}
           C(i) == Cardinality(Behind(i))
           s == [i \in DOMAIN text |-> IF i \in digits THEN text[i] * Power(C(i)) ELSE 0]
           l == Len(text)
           p == [k \in 0 .. l |-> q[k] * Power(C(k))]
<1>1. l \in Nat /\ DOMAIN text = 1 .. l /\ Radix \in Nat /\ \A i \in 1 .. l : text[i] \in Nat
  BY TextAssumption
<1>2. Spelled(text, point).digits = SumOf(s)
  BY DEF Spelled
<1>3. IsFiniteSet(digits)
  <2>1. IsFiniteSet(1 .. l)
    BY <1>1, FS_Interval
  <2>2. digits \subseteq 1 .. l
    BY <1>1
  <2> HIDE DEF digits
  <2>3. QED BY <2>1, <2>2, FS_Subset
<1>4. \A i : IsFiniteSet(Behind(i)) /\ C(i) \in Nat
  <2> TAKE i
  <2>1. Behind(i) \subseteq digits
    OBVIOUS
  <2> HIDE DEF digits, Behind
  <2>2. IsFiniteSet(Behind(i))
    BY <1>3, <2>1, FS_Subset
  <2>3. QED BY <2>2, FS_CardinalityType
<1>5. ASSUME NEW k \in 1 .. l
      PROVE  C(k - 1) = IF k \in digits THEN C(k) + 1 ELSE C(k)
  <2>1. Behind(k - 1) = IF k \in digits THEN Behind(k) \cup {k} ELSE Behind(k)
    <3>1. \A j \in digits : j > k - 1 <=> (j > k \/ j = k)
      BY <1>1
    <3>2. QED BY <3>1
  <2>2. k \notin Behind(k)
    OBVIOUS
  <2> HIDE DEF digits, Behind
  <2>3. Cardinality(Behind(k) \cup {k}) = Cardinality(Behind(k)) + 1
    BY <1>4, <2>2, FS_AddElement
  <2>4. QED BY <2>1, <2>3
<1>6. C(l) = 0
  <2>1. Behind(l) = {}
    BY <1>1
  <2> HIDE DEF Behind
  <2>2. QED BY <2>1, FS_EmptySet
<1>7. \A i \in 1 .. l : i \in digits <=> text[i] \in Digit
  BY <1>1
<1>8. \A i \in 1 .. l : s[i] = IF i \in digits THEN text[i] * Power(C(i)) ELSE 0
  BY <1>1
<1>9. s = [i \in 1 .. l |-> s[i]]
  BY <1>1
<1>10. \A k \in 0 .. l : p[k] = q[k] * Power(C(k))
  OBVIOUS
<1>11. p = [k \in 0 .. l |-> p[k]]
  OBVIOUS
<1>12. \A k \in 0 .. l : q[k] \in Nat
  OBVIOUS
<1> HIDE DEF digits, C, s, p
<1>13. ASSUME NEW i \in 1 .. l PROVE s[i] \in Int
  <2> DEFINE w == Power(C(i))
             d == text[i]
  <2>1. w \in Nat /\ d \in Nat
    <3>1. C(i) \in Nat
      BY <1>4 DEF C
    <3>2. QED BY <1>1, <3>1, PowerIs
  <2>2. s[i] = IF i \in digits THEN d * w ELSE 0
    BY <1>8
  <2> HIDE DEF w, d
  <2>3. QED BY <2>1, <2>2
<1>14. s \in Seq(Int) /\ Len(s) = l
  <2>1. s \in [1 .. l -> Int]
    BY <1>9, <1>13
  <2>2. QED BY <1>1, <2>1, SMTT(30)
<1>15. ASSUME NEW k \in 0 .. l PROVE p[k] \in Int
  <2> DEFINE w == Power(C(k))
             d == q[k]
  <2>1. w \in Nat /\ d \in Nat
    <3>1. C(k) \in Nat
      BY <1>4 DEF C
    <3>2. QED BY <1>12, <3>1, PowerIs
  <2>2. p[k] = d * w
    BY <1>10
  <2> HIDE DEF w, d
  <2>3. QED BY <2>1, <2>2
<1>16. p[0] = 0
  <2> DEFINE w == Power(C(0))
  <2>1. C(0) \in Nat
    BY <1>4 DEF C
  <2>2. 0 \in 0 .. l
    BY <1>1
  <2>3. p[0] = 0 * w
    BY <1>10, <2>2
  <2>4. w \in Nat
    BY <2>1, PowerIs
  <2> HIDE DEF w
  <2>5. 0 * w = 0
    BY <2>4
  <2>6. QED BY <2>3, <2>5
<1>17. ASSUME NEW k \in 1 .. l PROVE p[k] = p[k - 1] + s[k]
  <2> DEFINE w == Power(C(k))
             x == Power(C(k - 1))
             a == q[k - 1]
             b == q[k]
             d == text[k]
  <2>1. /\ k \in 0 .. l /\ k - 1 \in 0 .. l /\ w \in Nat /\ C(k) \in Nat
        /\ a \in Nat /\ b \in Nat /\ d \in Nat
    <3>1. C(k) \in Nat
      BY <1>4 DEF C
    <3>2. k \in 0 .. l /\ k - 1 \in 0 .. l
      BY <1>1
    <3>3. QED BY <1>1, <1>12, <3>1, <3>2, PowerIs
  <2>2. p[k] = b * w /\ p[k - 1] = a * x
    BY <1>10, <2>1
  <2>3. b = IF k \in digits THEN a * Radix + d ELSE a
    BY <1>1, <1>7
  <2>4. s[k] = IF k \in digits THEN d * w ELSE 0
    BY <1>8
  <2>5. x = IF k \in digits THEN Radix * w ELSE w
    BY <1>5, <2>1, PowerDef
  <2>6. CASE k \in digits
    <3> HIDE DEF w, x, a, b, d
    <3>1. (a * Radix + d) * w = a * (Radix * w) + d * w
      BY <1>1, <2>1
    <3>2. QED BY <2>2, <2>3, <2>4, <2>5, <2>6, <3>1
  <2>7. CASE k \notin digits
    <3> HIDE DEF w, x, a, b, d
    <3>1. a * w \in Int
      BY <2>1
    <3>2. QED BY <2>2, <2>3, <2>4, <2>5, <2>7, <3>1
  <2>8. QED BY <2>6, <2>7
<1>18. Partial(s, p)
  <2>1. p \in [0 .. Len(s) -> Int]
    BY <1>11, <1>14, <1>15
  <2>2. QED BY <1>14, <1>16, <1>17, <2>1 DEF Partial
<1>19. SumOf(s) = p[l]
  BY <1>14, <1>18, SumFrom
<1>20. p[l] = q[l]
  <2>1. l \in 0 .. l
    BY <1>1
  <2>2. p[l] = q[l] * Power(0)
    BY <1>6, <1>10, <2>1
  <2> DEFINE a == q[l]
  <2>3. a \in Nat
    BY <1>12, <2>1
  <2>4. p[l] = a * 1
    BY <2>2, PowerDef
  <2> HIDE DEF a
  <2>5. a * 1 = a
    BY <2>3
  <2>6. QED BY <2>4, <2>5 DEF a
<1>21. QED BY <1>2, <1>19, <1>20

\* A text that is a sign, digits, and behind a point more of them.
IsNumber(text, negative, whole, dot, fraction) ==
    /\ negative \in BOOLEAN /\ dot \in BOOLEAN
    /\ whole \in Seq(Digit) /\ whole # <<>> /\ fraction \in Seq(Digit)
    /\ ~dot => fraction = <<>>
    /\ text = Signed(negative, Body(whole, dot, fraction))

\* Digits with a point among them at most once, and not ahead of them, are a body.
LEMMA BodyShape ==
    ASSUME NEW body \in Seq(Nat), body # <<>>, body[1] # Point,
           \A i \in DOMAIN body : body[i] \in Digit \cup {Point},
           \A i, j \in DOMAIN body : body[i] = Point /\ body[j] = Point => i = j
    PROVE  \E whole \in Seq(Digit), dot \in BOOLEAN, fraction \in Seq(Digit) :
             /\ whole # <<>> /\ (~dot => fraction = <<>>)
             /\ body = Body(whole, dot, fraction)
<1> DEFINE l == Len(body)
<1>1. l \in Nat \ {0} /\ DOMAIN body = 1 .. l /\ body = [i \in 1 .. l |-> body[i]]
  OBVIOUS
<1>2. CASE \A i \in 1 .. l : body[i] # Point
  <2>1. body \in [1 .. l -> Digit]
    BY <1>1, <1>2
  <2>2. body \in Seq(Digit)
    BY <1>1, <2>1
  <2>3. body = Body(body, FALSE, <<>>)
    BY DEF Body
  <2>4. <<>> \in Seq(Digit) /\ FALSE \in BOOLEAN
    OBVIOUS
  <2>5. QED BY <2>2, <2>3, <2>4
<1>3. CASE \E i \in 1 .. l : body[i] = Point
  <2>1. PICK p \in 1 .. l : body[p] = Point
    BY <1>3
  <2>2. p # 1
    BY <2>1
  <2>3. \A i \in 1 .. l : i # p => body[i] \in Digit
    BY <1>1, <2>1
  <2> DEFINE n == p - 1
             m == l - p
             whole == [i \in 1 .. n |-> body[i]]
             fraction == [i \in 1 .. m |-> body[p + i]]
  <2>4. n \in Nat \ {0} /\ m \in Nat /\ p = n + 1 /\ l = n + 1 + m
    BY <1>1, <2>1, <2>2
  <2>5. \A i \in 1 .. n : i \in 1 .. l /\ i # p
    BY <1>1, <2>1
  <2>6. \A i \in 1 .. m : p + i \in 1 .. l /\ p + i # p
    BY <1>1, <2>1
  <2> HIDE DEF n, m, l
  <2>7. \A i \in 1 .. n : whole[i] = body[i] /\ whole[i] \in Digit
    BY <2>3, <2>5
  <2>8. \A i \in 1 .. m : fraction[i] = body[p + i] /\ fraction[i] \in Digit
    BY <2>3, <2>6
  <2>9. whole \in Seq(Digit) /\ Len(whole) = n
    <3>1. whole \in [1 .. n -> Digit]
      BY <2>7
    <3>2. QED BY <2>4, <3>1
  <2>10. fraction \in Seq(Digit) /\ Len(fraction) = m
    <3>1. fraction \in [1 .. m -> Digit]
      BY <2>8 DEF fraction
    <3>2. m \in Nat
      BY <2>4
    <3> HIDE DEF fraction, whole
    <3>3. QED BY <3>1, <3>2
  <2> HIDE DEF whole, fraction
  <2> DEFINE b == Body(whole, TRUE, fraction)
  <2>11. /\ b \in Seq(Digit \cup {Point}) /\ Len(b) = (n + 1) + m
         /\ \A i \in 1 .. n : b[i] = whole[i]
         /\ b[n + 1] = Point
         /\ \A i \in 1 .. m : b[(n + 1) + i] = fraction[i]
    <3> DEFINE dot == TRUE
    <3>1. dot \in BOOLEAN /\ (~dot => fraction = <<>>) /\ dot
      OBVIOUS
    <3>2. /\ Body(whole, dot, fraction) \in Seq(Digit \cup {Point})
          /\ Len(Body(whole, dot, fraction)) = (Len(whole) + (IF dot THEN 1 ELSE 0)) + Len(fraction)
          /\ \A i \in 1 .. Len(whole) : Body(whole, dot, fraction)[i] = whole[i]
          /\ dot => Body(whole, dot, fraction)[Len(whole) + (IF dot THEN 1 ELSE 0)] = Point
          /\ \A i \in 1 .. Len(fraction) :
               Body(whole, dot, fraction)[(Len(whole) + (IF dot THEN 1 ELSE 0)) + i] = fraction[i]
      <4> HIDE DEF dot
      <4>1. whole \in Seq(Digit) /\ fraction \in Seq(Digit)
        BY <2>9, <2>10
      <4>2. QED BY <3>1, <4>1, BodyAt, ZenonT(60)
    <3>3. QED BY <2>9, <2>10, <3>2
  <2> HIDE DEF b
  <2>12. ASSUME NEW i \in 1 .. l PROVE b[i] = body[i]
    <3>1. CASE i \in 1 .. n
      BY <2>7, <2>11, <3>1
    <3>2. CASE i = n + 1
      BY <2>1, <2>4, <2>11, <3>2
    <3>3. CASE i > n + 1
      <4>1. i - (n + 1) \in 1 .. m /\ (n + 1) + (i - (n + 1)) = i /\ p + (i - (n + 1)) = i
        BY <2>4, <3>3
      <4>2. QED BY <2>8, <2>11, <4>1
    <3>4. QED BY <2>4, <3>1, <3>2, <3>3
  <2>13. b = body
    <3>1. Len(b) = Len(body) /\ Len(body) = l
      BY <2>4, <2>11 DEF l
    <3>2. b = [i \in 1 .. l |-> b[i]]
      BY <2>11, <3>1
    <3>3. QED BY <1>1, <2>12, <3>2
  <2>14. whole # <<>> /\ TRUE \in BOOLEAN
    BY <2>4, <2>9
  <2>15. body = Body(whole, TRUE, fraction)
    BY <2>13 DEF b
  <2>16. QED BY <2>9, <2>10, <2>14, <2>15
<1>4. QED BY <1>2, <1>3

\* A sign ahead of a text is its first character.
LEMMA SignAt ==
    ASSUME NEW S, NEW body \in Seq(S), NEW negative \in BOOLEAN
    PROVE  LET text == Signed(negative, body)
               sign == IF negative THEN 1 ELSE 0
           IN  /\ text \in Seq(S \cup {Minus}) /\ Len(text) = sign + Len(body)
               /\ negative => text[1] = Minus
               /\ \A i \in 1 .. Len(body) : text[sign + i] = body[i]
<1>1. CASE negative
  <2> DEFINE t == <<Minus>> \o body
  <2>1. t \in Seq(S \cup {Minus}) /\ Len(t) = 1 + Len(body) /\ t[1] = Minus
        /\ \A i \in 1 .. Len(body) : t[1 + i] = body[i]
    OBVIOUS
  <2>2. Signed(negative, body) = t
    BY <1>1 DEF Signed
  <2> HIDE DEF t
  <2>3. QED BY <1>1, <2>1, <2>2
<1>2. CASE ~negative
  <2>1. Signed(negative, body) = body
    BY <1>2 DEF Signed
  <2>2. body \in Seq(S \cup {Minus}) /\ Len(body) = 0 + Len(body) /\ \A i \in 1 .. Len(body) : 0 + i = i
    OBVIOUS
  <2>3. QED BY <1>2, <2>1, <2>2
<1>3. QED BY <1>1, <1>2

\* A text that starts with a sign is that sign and the rest.
LEMMA SignShape ==
    ASSUME NEW text \in Seq(Nat), text # <<>>, text[1] = Minus
    PROVE  text = Signed(TRUE, Tail(text)) /\ Tail(text) \in Seq(Nat)
           /\ Len(Tail(text)) = Len(text) - 1 /\ \A i \in 1 .. Len(text) - 1 : Tail(text)[i] = text[i + 1]
<1> DEFINE rest == Tail(text)
           t == <<Minus>> \o rest
           l == Len(text)
<1>1. l \in Nat \ {0} /\ rest \in Seq(Nat) /\ Len(rest) = l - 1 /\ \A i \in 1 .. l - 1 : rest[i] = text[i + 1]
  OBVIOUS
<1> HIDE DEF rest
<1>2. t \in Seq(Nat) /\ Len(t) = Len(rest) + 1 /\ t[1] = Minus
      /\ \A i \in 1 .. Len(rest) : t[i + 1] = rest[i]
  <2>1. Minus \in Nat
    BY TextAssumption DEF Minus
  <2>2. QED BY <1>1, <2>1
<1> HIDE DEF t
<1>3. ASSUME NEW i \in 1 .. l PROVE t[i] = text[i]
  <2>1. CASE i = 1
    BY <1>2, <2>1
  <2>2. CASE i # 1
    <3>1. i - 1 \in 1 .. l - 1 /\ (i - 1) + 1 = i
      BY <1>1, <2>2
    <3>2. QED BY <1>1, <1>2, <3>1
  <2>3. QED BY <2>1, <2>2
<1>4. t = text
  <2>1. Len(t) = Len(text) /\ l = Len(text)
    BY <1>1, <1>2
  <2> HIDE DEF l
  <2>2. QED BY <1>2, <1>3, <2>1, SMTT(30)
<1>5. Signed(TRUE, rest) = t
  BY DEF Signed, t
<1>6. QED BY <1>1, <1>4, <1>5 DEF rest

\* A decimal is a number.
LEMMA DecimalShape ==
    ASSUME NEW text \in Seq(Nat), IsDecimal(text)
    PROVE  \E negative, whole, dot, fraction : IsNumber(text, negative, whole, dot, fraction)
<1>1. PICK signs \in {0, 1} :
        /\ signs = 1 => text # <<>> /\ text[1] = Minus
        /\ Len(text) > signs /\ text[signs + 1] \in Digit
        /\ \A i \in signs + 1 .. Len(text) : text[i] \in Digit \cup {Point}
        /\ \A i, j \in DOMAIN text : text[i] = Point /\ text[j] = Point => i = j
  BY DEF IsDecimal
<1>2. Point \notin Digit /\ DOMAIN text = 1 .. Len(text) /\ Len(text) \in Nat
  BY TextAssumption DEF Point, Digit
<1>3. CASE signs = 0
  <2>1. \A i \in DOMAIN text : text[i] \in Digit \cup {Point}
    BY <1>1, <1>2, <1>3
  <2>2. text # <<>> /\ text[1] # Point
    <3>1. Len(text) # 0 /\ text[1] \in Digit
      BY <1>1, <1>2, <1>3
    <3>2. QED BY <1>2, <3>1
  <2>3. PICK whole \in Seq(Digit), dot \in BOOLEAN, fraction \in Seq(Digit) :
          whole # <<>> /\ (~dot => fraction = <<>>) /\ text = Body(whole, dot, fraction)
    BY <1>1, <2>1, <2>2, BodyShape
  <2>4. text = Signed(FALSE, text) /\ FALSE \in BOOLEAN
    BY DEF Signed
  <2>5. IsNumber(text, FALSE, whole, dot, fraction)
    BY <2>3, <2>4 DEF IsNumber
  <2>6. QED BY <2>5
<1>4. CASE signs = 1
  <2> DEFINE body == Tail(text)
  <2>1. text = Signed(TRUE, body) /\ body \in Seq(Nat) /\ Len(body) = Len(text) - 1
        /\ \A i \in 1 .. Len(text) - 1 : body[i] = text[i + 1]
    BY <1>1, <1>4, SignShape
  <2> HIDE DEF body
  <2>2. DOMAIN body = 1 .. Len(text) - 1
    <3>1. body \in Seq(Nat) /\ Len(body) = Len(text) - 1
      BY <2>1
    <3>2. DOMAIN body = 1 .. Len(body)
      BY <3>1
    <3>3. QED BY <3>1, <3>2
  <2>3. \A i \in DOMAIN body : body[i] = text[i + 1] /\ i + 1 \in 2 .. Len(text) /\ i + 1 \in DOMAIN text
    <3>1. \A i \in 1 .. Len(text) - 1 : body[i] = text[i + 1]
      BY <2>1
    <3>2. \A i \in 1 .. Len(text) - 1 : i + 1 \in 2 .. Len(text) /\ i + 1 \in 1 .. Len(text)
      BY <1>2
    <3>3. QED BY <1>2, <2>2, <3>1, <3>2
  <2>4. \A i \in DOMAIN body : body[i] \in Digit \cup {Point}
    BY <1>1, <1>4, <2>3
  <2>5. \A i, j \in DOMAIN body : body[i] = Point /\ body[j] = Point => i = j
    <3> TAKE i, j \in DOMAIN body
    <3>1. body[i] = Point /\ body[j] = Point => i + 1 = j + 1
      BY <1>1, <2>3
    <3>2. i \in Int /\ j \in Int
      BY <2>2
    <3>3. QED BY <3>1, <3>2
  <2>6. body # <<>> /\ body[1] # Point
    <3>1. 1 \in 1 .. Len(text) - 1 /\ text[1 + 1] \in Digit
      BY <1>1, <1>2, <1>4
    <3>2. body[1] \in Digit
      BY <2>2, <2>3, <3>1
    <3>3. 1 \in DOMAIN body
      BY <2>2, <3>1
    <3>4. QED BY <1>2, <3>2, <3>3
  <2>7. PICK whole \in Seq(Digit), dot \in BOOLEAN, fraction \in Seq(Digit) :
          whole # <<>> /\ (~dot => fraction = <<>>) /\ body = Body(whole, dot, fraction)
    BY <2>1, <2>4, <2>5, <2>6, BodyShape
  <2>8. IsNumber(text, TRUE, whole, dot, fraction)
    BY <2>1, <2>7 DEF IsNumber
  <2>9. QED BY <2>8
<1>5. QED BY <1>1, <1>3, <1>4

\* So is a text that the parser accepts.
LEMMA ParsedShape ==
    ASSUME NEW text \in Seq(Nat), ParseFixedPoint(text).tag = "Ok"
    PROVE  \E negative, whole, dot, fraction : IsNumber(text, negative, whole, dot, fraction)
<1> DEFINE negative == text # <<>> /\ text[1] = Minus
           body == IF negative THEN Tail(text) ELSE text
           points == Points(body)
           whole == SubSeq(body, 1, PointAt(body) - 1)
<1>1. ~(\E i \in DOMAIN body : body[i] \notin Digit \cup {Point}) /\ ~(Cardinality(points) > 1) /\ whole # <<>>
  <2>1. InvalidSyntax.tag # "Ok"
    BY DEF InvalidSyntax
  <2>2. (\/ \E i \in DOMAIN body : body[i] \notin Digit \cup {Point}
         \/ Cardinality(points) > 1
         \/ whole = <<>>)
        => ParseFixedPoint(text) = InvalidSyntax
    BY DEF ParseFixedPoint, Points, PointAt
  <2>3. QED BY <2>1, <2>2
<1>2. text = Signed(negative, body) /\ body \in Seq(Nat) /\ negative \in BOOLEAN
  <2>1. CASE negative
    <3>1. text = Signed(TRUE, Tail(text)) /\ Tail(text) \in Seq(Nat)
      BY <2>1, SignShape
    <3>2. QED BY <2>1, <3>1
  <2>2. CASE ~negative
    BY <2>2 DEF Signed
  <2>3. QED BY <2>1, <2>2
<1> HIDE DEF negative, body
<1>3. Len(body) \in Nat /\ DOMAIN body = 1 .. Len(body)
  BY <1>2
<1>4. IsFiniteSet(points)
  <2>1. points \subseteq 1 .. Len(body)
    BY <1>3 DEF Points
  <2>2. IsFiniteSet(1 .. Len(body))
    BY <1>3, FS_Interval
  <2> HIDE DEF points
  <2>3. QED BY <2>1, <2>2, FS_Subset
<1>5. ASSUME NEW i \in points, NEW j \in points PROVE i = j
  <2> DEFINE one == {i}
  <2>1. one \subseteq points /\ IsFiniteSet(one) /\ Cardinality(one) = 1
    BY FS_Singleton
  <2> HIDE DEF points
  <2>2. Cardinality(one) =< Cardinality(points) /\ (Cardinality(points) = Cardinality(one) => points = one)
    <3> HIDE DEF one
    <3>1. QED BY <1>4, <2>1, FS_Subset
  <2>3. Cardinality(points) \in Nat
    BY <1>4, FS_CardinalityType
  <2>4. Cardinality(points) = 1
    BY <1>1, <2>1, <2>2, <2>3
  <2>5. points = one
    BY <2>1, <2>2, <2>4
  <2>6. QED BY <2>5
<1>6. \A i, j \in DOMAIN body : body[i] = Point /\ body[j] = Point => i = j
  BY <1>5 DEF Points
<1>7. body # <<>> /\ body[1] # Point
  <2>1. CASE body = <<>>
    <3>1. points = {} /\ Len(body) = 0
      BY <2>1 DEF Points
    <3>2. PointAt(body) - 1 = 0
      BY <3>1 DEF PointAt
    <3>3. whole = <<>>
      BY <2>1, <3>2
    <3>4. QED BY <1>1, <3>3
  <2>2. CASE body # <<>> /\ body[1] = Point
    <3>1. 1 \in points
      BY <1>3, <2>2 DEF Points
    <3>2. PointAt(body) \in points
      BY <3>1 DEF PointAt
    <3>3. PointAt(body) = 1
      BY <1>5, <3>1, <3>2
    <3>4. whole = <<>>
      BY <1>2, <3>3
    <3>5. QED BY <1>1, <3>4
  <2>3. QED BY <2>1, <2>2
<1>8. PICK digits \in Seq(Digit), dot \in BOOLEAN, fraction \in Seq(Digit) :
        digits # <<>> /\ (~dot => fraction = <<>>) /\ body = Body(digits, dot, fraction)
  BY <1>1, <1>2, <1>6, <1>7, BodyShape
<1>9. IsNumber(text, negative, digits, dot, fraction)
  BY <1>2, <1>8 DEF IsNumber
<1>10. QED BY <1>9

\* How many characters a sign or a point takes.
One(written) == IF written THEN 1 ELSE 0

\* The characters of a number, by their places.
LEMMA NumberAt ==
    ASSUME NEW text, NEW negative, NEW whole, NEW dot, NEW fraction,
           IsNumber(text, negative, whole, dot, fraction)
    PROVE  LET n == Len(whole)
               m == Len(fraction)
               s == One(negative)
               e == One(dot)
           IN
           /\ text \in Seq(Nat) /\ Len(text) = s + n + e + m
           /\ n \in Nat \ {0} /\ m \in Nat /\ s \in {0, 1} /\ e \in {0, 1} /\ (e = 0 => m = 0)
           /\ \A i \in 1 .. Len(text) :
                \/ i =< s /\ s = 1 /\ text[i] = Minus
                \/ i - s \in 1 .. n /\ text[i] = whole[i - s]
                \/ i = s + n + 1 /\ e = 1 /\ text[i] = Point
                \/ i - s - n - e \in 1 .. m /\ text[i] = fraction[i - s - n - e]
<1> DEFINE n == Len(whole)
           m == Len(fraction)
           s == One(negative)
           e == One(dot)
           body == Body(whole, dot, fraction)
<1>1. /\ negative \in BOOLEAN /\ dot \in BOOLEAN
      /\ whole \in Seq(Digit) /\ whole # <<>> /\ fraction \in Seq(Digit)
      /\ ~dot => fraction = <<>>
      /\ text = Signed(negative, body)
  BY DEF IsNumber
<1>2. n \in Nat \ {0} /\ m \in Nat /\ s \in {0, 1} /\ e \in {0, 1}
  BY <1>1 DEF One
<1>3. (e = 0 => m = 0) /\ (dot <=> e = 1) /\ (negative <=> s = 1)
  BY <1>1 DEF One
<1>4. Digit \cup {Point} \cup {Minus} \subseteq Nat
  BY TextAssumption DEF Digit, Point, Minus
<1>5. /\ body \in Seq(Digit \cup {Point}) /\ Len(body) = n + e + m
      /\ \A i \in 1 .. n : body[i] = whole[i]
      /\ dot => body[n + e] = Point
      /\ \A i \in 1 .. m : body[n + e + i] = fraction[i]
  BY <1>1, BodyAt DEF One
<1> HIDE DEF body
<1>6. /\ text \in Seq((Digit \cup {Point}) \cup {Minus}) /\ Len(text) = s + Len(body)
      /\ negative => text[1] = Minus
      /\ \A i \in 1 .. Len(body) : text[s + i] = body[i]
  <2> DEFINE S == Digit \cup {Point}
  <2>1. body \in Seq(S) /\ negative \in BOOLEAN /\ text = Signed(negative, body)
    BY <1>1, <1>5
  <2> HIDE DEF S
  <2>2. LET t == Signed(negative, body)
            sign == IF negative THEN 1 ELSE 0
        IN  /\ t \in Seq(S \cup {Minus}) /\ Len(t) = sign + Len(body)
            /\ negative => t[1] = Minus
            /\ \A i \in 1 .. Len(body) : t[sign + i] = body[i]
    BY <2>1, SignAt
  <2>3. QED BY <2>1, <2>2 DEF S, One
<1> HIDE DEF n, m, s, e
<1>7. text \in Seq(Nat)
  <2> DEFINE S == (Digit \cup {Point}) \cup {Minus}
  <2>1. text \in Seq(S) /\ S \subseteq Nat
    BY <1>4, <1>6
  <2> HIDE DEF S
  <2>2. text = [i \in 1 .. Len(text) |-> text[i]] /\ Len(text) \in Nat /\ \A i \in 1 .. Len(text) : text[i] \in Nat
    BY <2>1
  <2>3. QED BY <2>1, <2>2
<1>8. Len(text) = s + n + e + m
  <2>1. Len(text) = s + (n + e + m)
    BY <1>5, <1>6
  <2>2. QED BY <1>2, <2>1
<1>9. e = 1 => body[n + 1] = Point
  BY <1>3, <1>5
<1>10. s = 1 => text[1] = Minus
  BY <1>3, <1>6
<1>11. ASSUME NEW i \in 1 .. Len(text)
       PROVE  \/ i =< s /\ s = 1 /\ text[i] = Minus
              \/ i - s \in 1 .. n /\ text[i] = whole[i - s]
              \/ i = s + n + 1 /\ e = 1 /\ text[i] = Point
              \/ i - s - n - e \in 1 .. m /\ text[i] = fraction[i - s - n - e]
  <2>1. CASE i =< s
    BY <1>2, <1>10, <2>1
  <2>2. CASE ~(i =< s)
    <3> DEFINE j == i - s
    <3>1. j \in 1 .. n + e + m /\ s + j = i
      BY <1>2, <1>8, <2>2
    <3>2. text[i] = body[j]
      BY <1>5, <1>6, <3>1
    <3> HIDE DEF j
    <3>3. CASE j =< n
      <4>1. j \in 1 .. n
        BY <1>2, <3>1, <3>3
      <4>2. text[i] = whole[j]
        BY <1>5, <3>2, <4>1
      <4>3. QED BY <4>1, <4>2 DEF j
    <3>4. CASE ~(j =< n) /\ j =< n + e
      <4>1. e = 1 /\ j = n + 1
        BY <1>2, <3>1, <3>4
      <4>2. i = s + n + 1
        BY <1>2, <3>1, <4>1
      <4>3. text[i] = Point
        BY <1>9, <3>2, <4>1
      <4>4. QED BY <4>1, <4>2, <4>3
    <3>5. CASE ~(j =< n + e)
      <4> DEFINE k == j - n - e
      <4>1. k \in 1 .. m /\ n + e + k = j
        BY <1>2, <3>1, <3>5
      <4> HIDE DEF k
      <4>2. text[i] = fraction[k]
        BY <1>5, <3>2, <4>1
      <4>3. QED BY <4>1, <4>2 DEF k, j
    <3>6. QED BY <1>2, <3>1, <3>3, <3>4, <3>5
  <2>3. QED BY <2>1, <2>2
<1>12. QED BY <1>2, <1>3, <1>7, <1>8, <1>11 DEF n, m, s, e

\* Which characters of a number are digits, and which is the point.
LEMMA NumberIs ==
    ASSUME NEW text, NEW negative, NEW whole, NEW dot, NEW fraction,
           IsNumber(text, negative, whole, dot, fraction)
    PROVE  LET n == Len(whole)
               m == Len(fraction)
               s == One(negative)
               e == One(dot)
           IN
           \A i \in 1 .. Len(text) :
             /\ text[i] = Minus <=> i =< s
             /\ text[i] = Point <=> i = s + n + 1 /\ e = 1
             /\ text[i] \in Digit <=> i > s /\ ~(i = s + n + 1 /\ e = 1)
<1> DEFINE n == Len(whole)
           m == Len(fraction)
           s == One(negative)
           e == One(dot)
<1>1. /\ text \in Seq(Nat) /\ Len(text) = s + n + e + m
      /\ n \in Nat \ {0} /\ m \in Nat /\ s \in {0, 1} /\ e \in {0, 1} /\ (e = 0 => m = 0)
      /\ \A i \in 1 .. Len(text) :
           \/ i =< s /\ s = 1 /\ text[i] = Minus
           \/ i - s \in 1 .. n /\ text[i] = whole[i - s]
           \/ i = s + n + 1 /\ e = 1 /\ text[i] = Point
           \/ i - s - n - e \in 1 .. m /\ text[i] = fraction[i - s - n - e]
  <2>1. text \in Seq(Nat) /\ Len(text) = s + n + e + m
    BY NumberAt
  <2>2. n \in Nat \ {0} /\ m \in Nat /\ s \in {0, 1} /\ e \in {0, 1} /\ (e = 0 => m = 0)
    BY NumberAt
  <2>3. ASSUME NEW i \in 1 .. Len(text)
        PROVE  \/ i =< s /\ s = 1 /\ text[i] = Minus
               \/ i - s \in 1 .. n /\ text[i] = whole[i - s]
               \/ i = s + n + 1 /\ e = 1 /\ text[i] = Point
               \/ i - s - n - e \in 1 .. m /\ text[i] = fraction[i - s - n - e]
    BY NumberAt
  <2> HIDE DEF n, m, s, e
  <2>4. QED BY <2>1, <2>2, <2>3
<1>2. Point \notin Digit /\ Minus \notin Digit /\ Point # Minus
  BY TextAssumption DEF Point, Minus, Digit
<1>3. (\A i \in 1 .. n : whole[i] \in Digit) /\ (\A i \in 1 .. m : fraction[i] \in Digit)
  BY DEF IsNumber
<1> HIDE DEF n, m, s, e
<1> SUFFICES ASSUME NEW i \in 1 .. Len(text)
             PROVE  /\ text[i] = Minus <=> i =< s
                    /\ text[i] = Point <=> i = s + n + 1 /\ e = 1
                    /\ text[i] \in Digit <=> i > s /\ ~(i = s + n + 1 /\ e = 1)
  BY DEF n, m, s, e
<1>4. CASE i =< s /\ s = 1 /\ text[i] = Minus
  BY <1>1, <1>2, <1>4
<1>5. CASE i - s \in 1 .. n /\ text[i] = whole[i - s]
  <2>1. text[i] \in Digit /\ ~(i =< s) /\ i # s + n + 1
    BY <1>1, <1>3, <1>5
  <2>2. QED BY <1>1, <1>2, <2>1
<1>6. CASE i = s + n + 1 /\ e = 1 /\ text[i] = Point
  BY <1>1, <1>2, <1>6
<1>7. CASE i - s - n - e \in 1 .. m /\ text[i] = fraction[i - s - n - e]
  <2>1. text[i] \in Digit
    BY <1>3, <1>7
  <2>2. ~(i =< s) /\ i # s + n + 1
    <3>1. m >= 1 /\ i >= s + n + e + 1
      BY <1>1, <1>7
    <3>2. e = 1
      BY <1>1, <3>1
    <3>3. QED BY <1>1, <3>1, <3>2
  <2>3. QED BY <1>1, <1>2, <2>1, <2>2
<1>8. QED BY <1>1, <1>4, <1>5, <1>6, <1>7

\* A number is a decimal.
LEMMA NumberIsDecimal ==
    ASSUME NEW text, NEW negative, NEW whole, NEW dot, NEW fraction,
           IsNumber(text, negative, whole, dot, fraction)
    PROVE  text \in Seq(Nat) /\ IsDecimal(text)
<1> DEFINE n == Len(whole)
           m == Len(fraction)
           s == One(negative)
           e == One(dot)
<1>1. /\ text \in Seq(Nat) /\ Len(text) = s + n + e + m
      /\ n \in Nat \ {0} /\ m \in Nat /\ s \in {0, 1} /\ e \in {0, 1}
  BY NumberAt
<1>2. \A i \in 1 .. Len(text) :
        /\ text[i] = Minus <=> i =< s
        /\ text[i] = Point <=> i = s + n + 1 /\ e = 1
        /\ text[i] \in Digit <=> i > s /\ ~(i = s + n + 1 /\ e = 1)
  BY NumberIs
<1> HIDE DEF n, m, s, e
<1>3. DOMAIN text = 1 .. Len(text) /\ Len(text) \in Nat
  BY <1>1
<1>4. s = 1 => text # <<>> /\ text[1] = Minus
  <2>1. ASSUME s = 1 PROVE text # <<>> /\ text[1] = Minus
    <3>1. 1 \in 1 .. Len(text) /\ Len(text) # 0
      BY <1>1, <2>1
    <3>2. text[1] = Minus
      BY <1>2, <2>1, <3>1
    <3>3. QED BY <3>1, <3>2
  <2>2. QED BY <2>1
<1>5. Len(text) > s /\ text[s + 1] \in Digit
  <2>1. s + 1 \in 1 .. Len(text) /\ s + 1 > s /\ s + 1 # s + n + 1
    BY <1>1
  <2>2. QED BY <1>1, <1>2, <2>1
<1>6. \A i \in s + 1 .. Len(text) : text[i] \in Digit \cup {Point}
  <2> TAKE i \in s + 1 .. Len(text)
  <2>1. i \in 1 .. Len(text) /\ i > s
    BY <1>1
  <2>2. QED BY <1>2, <2>1
<1>7. \A i, j \in DOMAIN text : text[i] = Point /\ text[j] = Point => i = j
  BY <1>2, <1>3
<1>8. IsDecimal(text)
  <2>1. QED BY <1>1, <1>4, <1>5, <1>6, <1>7 DEF IsDecimal
<1>9. QED BY <1>1, <1>8

\* A piece of a text.
LEMMA PieceIs ==
    ASSUME NEW s \in Seq(Nat), NEW m \in Nat \ {0}, NEW n \in Nat, m =< n + 1, n =< Len(s)
    PROVE  /\ SubSeq(s, m, n) \in Seq(Nat) /\ Len(SubSeq(s, m, n)) = n - m + 1
           /\ \A i \in 1 .. n - m + 1 : SubSeq(s, m, n)[i] = s[m + i - 1]
<1>1. m \in Int /\ n \in Int /\ Len(s) \in Nat
  OBVIOUS
<1>2. \A i \in m .. n : s[i] \in Nat
  <2> TAKE i \in m .. n
  <2>1. i \in 1 .. Len(s)
    BY <1>1
  <2>2. QED BY <2>1
<1>3. /\ SubSeq(s, m, n) \in Seq(Nat) /\ Len(SubSeq(s, m, n)) = IF m <= n THEN n - m + 1 ELSE 0
      /\ \A i \in 1 .. n - m + 1 : SubSeq(s, m, n)[i] = s[m + i - 1]
  BY <1>1, <1>2, SubSeqProperties
<1>4. (IF m <= n THEN n - m + 1 ELSE 0) = n - m + 1
  BY <1>1
<1>5. QED BY <1>3, <1>4

\* Digits behind a mark between two digits are places.
LEMMA PlacesAre ==
    ASSUME NEW text, NEW mark, NEW at \in Nat, NEW m \in Nat, Len(text) \in Nat,
           DOMAIN text = 1 .. Len(text), at + m =< Len(text),
           \A i \in 1 .. Len(text) : (text[i] \in Digit /\ i > at) <=> i \in at + 1 .. at + m,
           m > 0 => \E j \in 1 .. at : text[j] \in Digit /\ SubSeq(text, j + 1, at) = mark,
           \A j, k \in 1 .. Len(text) :
             j < k /\ text[j] \in Digit /\ text[k] \in Digit /\ SubSeq(text, j + 1, k - 1) = mark => k > at
    PROVE  Spelled(text, mark).places = m
<1> DEFINE digits == {i \in DOMAIN text : text[i] \in Digit}
           behind == {i \in digits : \E j, k \in digits :
                        j < k /\ k =< i /\ SubSeq(text, j + 1, k - 1) = mark}
           b == at + m
           a == at + 1
<1>1. Spelled(text, mark).places = Cardinality(behind)
  BY DEF Spelled
<1>2. behind = at + 1 .. at + m
  <2>1. ASSUME NEW i \in behind PROVE i \in at + 1 .. at + m
    <3>1. i \in 1 .. Len(text) /\ text[i] \in Digit
      OBVIOUS
    <3>2. PICK j \in digits, k \in digits : j < k /\ k =< i /\ SubSeq(text, j + 1, k - 1) = mark
      OBVIOUS
    <3>3. j \in 1 .. Len(text) /\ k \in 1 .. Len(text) /\ text[j] \in Digit /\ text[k] \in Digit
      OBVIOUS
    <3>4. k > at
      BY <3>2, <3>3
    <3>5. i > at
      BY <3>1, <3>2, <3>3, <3>4
    <3>6. QED BY <3>1, <3>5
  <2>2. ASSUME NEW i \in at + 1 .. at + m PROVE i \in behind
    <3>1. i \in 1 .. Len(text) /\ m > 0 /\ at + 1 \in at + 1 .. at + m /\ at + 1 \in 1 .. Len(text)
      OBVIOUS
    <3>2. i \in digits /\ at + 1 \in digits
      BY <3>1
    <3>3. PICK j \in 1 .. at : text[j] \in Digit /\ SubSeq(text, j + 1, at) = mark
      BY <3>1
    <3>4. j \in digits /\ j < at + 1 /\ at + 1 =< i /\ (at + 1) - 1 = at
      BY <3>1, <3>3
    <3>5. SubSeq(text, j + 1, (at + 1) - 1) = mark
      BY <3>3, <3>4
    <3> DEFINE k == at + 1
    <3>6. k \in digits /\ j < k /\ k =< i /\ SubSeq(text, j + 1, k - 1) = mark
      BY <3>2, <3>4, <3>5
    <3> HIDE DEF k, digits
    <3>7. QED BY <3>2, <3>4, <3>6
  <2>3. QED BY <2>1, <2>2
<1> HIDE DEF behind
<1>3. a \in Int /\ b \in Int /\ (a > b => m = 0) /\ b - a + 1 = m
  OBVIOUS
<1>4. behind = a .. b
  BY <1>2
<1> HIDE DEF a, b
<1>5. Cardinality(a .. b) = IF a > b THEN 0 ELSE b - a + 1
  BY <1>3, FS_Interval
<1>6. QED BY <1>1, <1>3, <1>4, <1>5

\* What a number spells.
LEMMA SpelledIs ==
    ASSUME NEW text, NEW negative, NEW whole, NEW dot, NEW fraction,
           IsNumber(text, negative, whole, dot, fraction),
           NEW v, Horner(whole \o fraction, v)
    PROVE  /\ Spelled(text, <<Point>>).sign = IF negative THEN -1 ELSE 1
           /\ Spelled(text, <<Point>>).digits = v[Len(whole) + Len(fraction)]
           /\ Spelled(text, <<Point>>).places = Len(fraction)
<1> DEFINE n == Len(whole)
           m == Len(fraction)
           s == One(negative)
           e == One(dot)
           l == Len(text)
           d == whole \o fraction
           Count(k) == IF k =< s THEN 0 ELSE IF k =< s + n THEN k - s ELSE k - s - e
           q == [k \in 0 .. l |-> v[Count(k)]]
<1>1. /\ text \in Seq(Nat) /\ Len(text) = s + n + e + m
      /\ n \in Nat \ {0} /\ m \in Nat /\ s \in {0, 1} /\ e \in {0, 1} /\ (e = 0 => m = 0)
      /\ \A i \in 1 .. Len(text) :
           \/ i =< s /\ s = 1 /\ text[i] = Minus
           \/ i - s \in 1 .. n /\ text[i] = whole[i - s]
           \/ i = s + n + 1 /\ e = 1 /\ text[i] = Point
           \/ i - s - n - e \in 1 .. m /\ text[i] = fraction[i - s - n - e]
  <2>1. text \in Seq(Nat) /\ Len(text) = s + n + e + m
    BY NumberAt
  <2>2. n \in Nat \ {0} /\ m \in Nat /\ s \in {0, 1} /\ e \in {0, 1} /\ (e = 0 => m = 0)
    BY NumberAt
  <2>3. ASSUME NEW i \in 1 .. Len(text)
        PROVE  \/ i =< s /\ s = 1 /\ text[i] = Minus
               \/ i - s \in 1 .. n /\ text[i] = whole[i - s]
               \/ i = s + n + 1 /\ e = 1 /\ text[i] = Point
               \/ i - s - n - e \in 1 .. m /\ text[i] = fraction[i - s - n - e]
    BY NumberAt
  <2> HIDE DEF n, m, s, e
  <2>4. QED BY <2>1, <2>2, <2>3
<1>2. \A i \in 1 .. Len(text) :
        /\ text[i] = Minus <=> i =< s
        /\ text[i] = Point <=> i = s + n + 1 /\ e = 1
        /\ text[i] \in Digit <=> i > s /\ ~(i = s + n + 1 /\ e = 1)
  BY NumberIs
<1>3. Spelled(text, <<Point>>).sign = IF negative THEN -1 ELSE 1
  <2>1. (text # <<>> /\ text[1] = Minus) <=> s = 1
    <3> HIDE DEF n, m, s, e
    <3>1. 1 \in 1 .. Len(text) /\ text # <<>>
      BY <1>1
    <3>2. text[1] = Minus <=> 1 =< s
      BY <1>2, <3>1
    <3>3. QED BY <1>1, <3>1, <3>2
  <2>2. negative \in BOOLEAN /\ (s = 1 <=> negative)
    BY DEF IsNumber, One
  <2>3. QED BY <2>1, <2>2 DEF Spelled
<1>4. Spelled(text, <<Point>>).places = m
  <2> DEFINE at == s + n + e
             mark == <<Point>>
  <2> HIDE DEF n, m, s, e
  <2>1. at \in Nat /\ DOMAIN text = 1 .. Len(text) /\ at + m = Len(text) /\ Len(text) \in Nat
    BY <1>1
  <2>2. mark \in Seq(Nat) /\ Len(mark) = 1 /\ mark[1] = Point
    BY TextAssumption DEF Point
  <2> HIDE DEF mark
  <2>3. ASSUME m > 0 PROVE \E j \in 1 .. at : text[j] \in Digit /\ SubSeq(text, j + 1, at) = mark
    <3> DEFINE j == s + n
    <3>1. e = 1 /\ j \in 1 .. Len(text) /\ j \in 1 .. at /\ at = j + 1 /\ at \in 1 .. Len(text)
          /\ j > s /\ j # s + n + 1
      BY <1>1, <2>1, <2>3
    <3>2. text[j] \in Digit /\ text[at] = Point
      BY <1>2, <3>1
    <3> HIDE DEF j, at
    <3>3. SubSeq(text, j + 1, at) = mark
      <4>1. /\ Len(SubSeq(text, at, at)) = 1
            /\ SubSeq(text, at, at)[1] = text[at]
            /\ SubSeq(text, at, at) \in Seq(Nat)
        <5>1. at \in Nat \ {0} /\ at =< at + 1 /\ at =< Len(text)
          BY <2>1, <3>1
        <5>2. /\ SubSeq(text, at, at) \in Seq(Nat)
              /\ Len(SubSeq(text, at, at)) = at - at + 1
              /\ \A i \in 1 .. at - at + 1 : SubSeq(text, at, at)[i] = text[at + i - 1]
          BY <1>1, <5>1, PieceIs
        <5>3. at - at + 1 = 1 /\ at + 1 - 1 = at /\ 1 \in 1 .. 1
          BY <2>1
        <5>4. QED BY <5>2, <5>3
      <4> DEFINE x == SubSeq(text, at, at)
      <4>2. x \in Seq(Nat) /\ Len(x) = Len(mark) /\ \A i \in 1 .. Len(x) : x[i] = mark[i]
        BY <2>2, <3>2, <4>1
      <4> HIDE DEF x
      <4>3. x = mark
        BY <2>2, <4>2, SeqEqual
      <4>4. QED BY <3>1, <4>3 DEF x
    <3>4. QED BY <3>1, <3>2, <3>3
  <2>4. \A i \in 1 .. Len(text) : (text[i] \in Digit /\ i > at) <=> i \in at + 1 .. at + m
    BY <1>1, <1>2, <2>1
  <2>5. ASSUME NEW j \in 1 .. Len(text), NEW k \in 1 .. Len(text),
               j < k, text[k] \in Digit, SubSeq(text, j + 1, k - 1) = mark
        PROVE  k > at
    <3>1. /\ j \in Nat /\ k \in Nat /\ j + 1 \in Nat \ {0} /\ k - 1 \in Nat
          /\ j + 1 =< (k - 1) + 1 /\ k - 1 =< Len(text)
      BY <2>1, <2>5
    <3>2. /\ Len(SubSeq(text, j + 1, k - 1)) = (k - 1) - (j + 1) + 1
          /\ \A i \in 1 .. (k - 1) - (j + 1) + 1 : SubSeq(text, j + 1, k - 1)[i] = text[(j + 1) + i - 1]
      BY <1>1, <3>1, PieceIs
    <3>3. (k - 1) - (j + 1) + 1 = 1 /\ (j + 1) + 1 - 1 = j + 1 /\ 1 \in 1 .. (k - 1) - (j + 1) + 1
      <4> DEFINE w == (k - 1) - (j + 1) + 1
      <4>1. Len(SubSeq(text, j + 1, k - 1)) = w /\ SubSeq(text, j + 1, k - 1) = mark
        BY <2>5, <3>2
      <4>2. w = 1
        BY <2>2, <4>1
      <4>3. QED BY <3>1, <4>2
    <3>4. text[j + 1] = Point
      BY <2>2, <2>5, <3>2, <3>3
    <3>5. j + 1 \in 1 .. Len(text) /\ k = (j + 1) + 1
      BY <2>1, <3>1, <3>3
    <3>6. j + 1 = s + n + 1 /\ e = 1
      BY <1>2, <3>4, <3>5
    <3>7. QED BY <1>1, <3>5, <3>6
  <2> HIDE DEF at
  <2>6. at + m =< Len(text) /\ m \in Nat
    BY <1>1, <2>1
  <2>7. \A j, k \in 1 .. Len(text) :
          j < k /\ text[j] \in Digit /\ text[k] \in Digit /\ SubSeq(text, j + 1, k - 1) = mark => k > at
    BY <2>5
  <2>8. Spelled(text, mark).places = m
    <3> HIDE DEF e, n, s
    <3>1. QED BY <2>1, <2>3, <2>4, <2>6, <2>7, PlacesAre
  <2>9. QED BY <2>8 DEF mark
<1>5. /\ d \in Seq(Digit) /\ Len(d) = n + m
      /\ \A i \in 1 .. n + m : d[i] = IF i =< n THEN whole[i] ELSE fraction[i - n]
  <2>1. whole \in Seq(Digit) /\ fraction \in Seq(Digit)
    BY DEF IsNumber
  <2>2. QED BY <2>1, ConcatProperties
<1>6. v \in [0 .. n + m -> Nat] /\ v[0] = 0 /\ \A i \in 1 .. n + m : v[i] = v[i - 1] * Radix + d[i]
  BY <1>5 DEF Horner
<1> HIDE DEF n, m, s, e, d
<1>7. l = s + n + e + m /\ l \in Nat
  BY <1>1
<1>8. \A k \in 0 .. l : Count(k) \in 0 .. n + m
  BY <1>1, <1>7
<1>9. \A k \in 0 .. l : q[k] = v[Count(k)]
  OBVIOUS
<1>10. q \in [0 .. l -> Nat]
  <2>1. \A k \in 0 .. l : v[Count(k)] \in Nat
    <3> HIDE DEF Count
    <3>1. QED BY <1>6, <1>8
  <2> HIDE DEF Count
  <2>2. QED BY <2>1
<1>11. q[0] = 0
  <2>1. Count(0) = 0 /\ 0 \in 0 .. l
    BY <1>1, <1>7
  <2> HIDE DEF Count, q
  <2>2. QED BY <1>6, <1>9, <2>1
<1>12. q[l] = v[n + m]
  <2>1. Count(l) = n + m /\ l \in 0 .. l
    BY <1>1, <1>7
  <2> HIDE DEF Count, q
  <2>2. QED BY <1>9, <2>1
<1>13. ASSUME NEW k \in 1 .. l
       PROVE  q[k] = IF text[k] \in Digit THEN q[k - 1] * Radix + text[k] ELSE q[k - 1]
  <2>1. k \in 0 .. l /\ k - 1 \in 0 .. l /\ k \in 1 .. Len(text)
    BY <1>7
  <2>2. q[k] = v[Count(k)] /\ q[k - 1] = v[Count(k - 1)]
    <3> HIDE DEF q, Count
    <3>1. QED BY <1>9, <2>1
  <2> HIDE DEF q
  <2>3. CASE k =< s
    <3>1. Count(k) = 0 /\ Count(k - 1) = 0
      BY <1>1, <2>3
    <3>2. ~(text[k] \in Digit)
      BY <1>1, <1>2, <2>1, <2>3
    <3> HIDE DEF Count
    <3>3. QED BY <2>2, <3>1, <3>2
  <2>4. CASE k = s + n + 1 /\ e = 1
    <3>1. Count(k) = n /\ Count(k - 1) = n
      BY <1>1, <2>4
    <3>2. ~(text[k] \in Digit)
      BY <1>2, <2>1, <2>4
    <3> HIDE DEF Count
    <3>3. QED BY <2>2, <3>1, <3>2
  <2>5. CASE ~(k =< s) /\ ~(k = s + n + 1 /\ e = 1)
    <3> DEFINE c == Count(k)
    <3>1. c \in 1 .. n + m /\ Count(k - 1) = c - 1
      BY <1>1, <1>7, <2>5
    <3>2. text[k] \in Digit
      BY <1>1, <1>2, <2>1, <2>5, SMTT(30)
    <3>3. text[k] = d[c]
      <4>1. CASE k - s \in 1 .. n /\ text[k] = whole[k - s]
        <5>1. c = k - s /\ c =< n
          BY <1>1, <4>1, SMTT(30)
        <5> HIDE DEF c
        <5>2. QED BY <1>5, <3>1, <4>1, <5>1
      <4>2. CASE k - s - n - e \in 1 .. m /\ text[k] = fraction[k - s - n - e]
        <5>1. c = k - s - e /\ ~(c =< n) /\ c - n = k - s - n - e
          BY <1>1, <4>2
        <5> HIDE DEF c
        <5>2. QED BY <1>5, <3>1, <4>2, <5>1
      <4>3. QED BY <1>1, <2>1, <2>5, <4>1, <4>2
    <3> HIDE DEF c
    <3>4. v[c] = v[c - 1] * Radix + d[c]
      BY <1>6, <3>1
    <3>5. q[k] = v[c]
      BY <2>2 DEF c
    <3> HIDE DEF Count
    <3>6. QED BY <2>2, <3>1, <3>2, <3>3, <3>4, <3>5
  <2>6. QED BY <2>3, <2>4, <2>5
<1>14. Spelled(text, <<Point>>).digits = q[l]
  <2> HIDE DEF q
  <2>1. QED BY <1>1, <1>10, <1>11, <1>13, DigitsSum
<1>15. QED BY <1>3, <1>4, <1>12, <1>14 DEF n, m

\* A positive factor cancels.
LEMMA Cancel ==
    ASSUME NEW a \in Int, NEW b \in Int, NEW p \in Nat \ {0}, a * p = b * p
    PROVE  a = b
<1>1. (a - b) * p = 0
  BY Z3
<1>2. ASSUME a - b >= 1 PROVE (a - b) * p >= p
  BY <1>2
<1>3. ASSUME a - b =< -1 PROVE (a - b) * p =< -p
  BY <1>3
<1>4. QED BY <1>1, <1>2, <1>3

\* What the parser takes a number for: its digits, shifted to the scale.
LEMMA NumberRead ==
    ASSUME NEW text, NEW negative, NEW whole, NEW dot, NEW fraction,
           IsNumber(text, negative, whole, dot, fraction),
           NEW v, Horner(whole \o fraction, v)
    PROVE  /\ ParseFixedPoint(text) = Read(negative, whole, fraction)
           /\ Len(whole) \in Nat /\ Len(fraction) \in Nat /\ v[Len(whole) + Len(fraction)] \in Nat
           /\ Len(fraction) > Places => Read(negative, whole, fraction).tag # "Ok"
           /\ Len(fraction) =< Places =>
                LET value == v[Len(whole) + Len(fraction)] * Power(Places - Len(fraction)) IN
                Magnitude(whole \o fraction \o [i \in 1 .. Places - Len(fraction) |-> 0])
                  = IF value > MaxMagnitude THEN MaxMagnitude + 1 ELSE value
<1> DEFINE n == Len(whole)
           m == Len(fraction)
           d == whole \o fraction
<1>1. /\ negative \in BOOLEAN /\ dot \in BOOLEAN
      /\ whole \in Seq(Digit) /\ whole # <<>> /\ fraction \in Seq(Digit)
      /\ ~dot => fraction = <<>>
      /\ text = Signed(negative, Body(whole, dot, fraction))
  BY DEF IsNumber
<1>2. ParseFixedPoint(text) = Read(negative, whole, fraction)
  BY <1>1, ParseIs
<1>3. d \in Seq(Digit) /\ Len(d) = n + m
  BY <1>1, ConcatProperties
<1>4. n \in Nat /\ m \in Nat /\ Places \in Nat
  BY <1>1, TextAssumption
<1>5. v[n + m] \in Nat
  BY <1>3, <1>4 DEF Horner
<1>6. ASSUME m > Places PROVE Read(negative, whole, fraction).tag # "Ok"
  <2>1. Read(negative, whole, fraction) = ExcessPrecision(m)
    BY <1>6 DEF Read
  <2>2. QED BY <2>1 DEF ExcessPrecision
<1>7. ASSUME m =< Places
      PROVE  LET value == v[n + m] * Power(Places - m) IN
             Magnitude(d \o [i \in 1 .. Places - m |-> 0])
               = IF value > MaxMagnitude THEN MaxMagnitude + 1 ELSE value
  <2> DEFINE k == Places - m
             t == d \o [i \in 1 .. k |-> 0]
             u == [j \in 0 .. Len(d) + k |->
                     IF j =< Len(d) THEN v[j] ELSE v[Len(d)] * Power(j - Len(d))]
  <2>1. k \in Nat
    BY <1>4, <1>7
  <2>2. Horner(d, v)
    OBVIOUS
  <2> HIDE DEF k, d
  <2>3. /\ t \in Seq(Digit) /\ Len(t) = Len(d) + k /\ Horner(t, u)
        /\ u[Len(d) + k] = v[Len(d)] * Power(k)
    BY <1>3, <2>1, <2>2, Shifted
  <2> HIDE DEF t, u
  <2>4. Magnitude(t) = IF u[Len(t)] > MaxMagnitude THEN MaxMagnitude + 1 ELSE u[Len(t)]
    BY <2>3, MagnitudeIs
  <2>5. u[Len(t)] = v[n + m] * Power(k)
    BY <1>3, <2>3
  <2>6. QED BY <2>4, <2>5 DEF t, k
<1>8. QED BY <1>2, <1>4, <1>5, <1>6, <1>7

\* The amount that a number spells is what it is read as, if it is one.
LEMMA NumberParsed ==
    ASSUME NEW text, NEW negative, NEW whole, NEW dot, NEW fraction,
           IsNumber(text, negative, whole, dot, fraction),
           NEW v, Horner(whole \o fraction, v), Len(fraction) =< Places
    PROVE  LET value == v[Len(whole) + Len(fraction)] * Power(Places - Len(fraction))
               u == IF negative THEN -value ELSE value
           IN  /\ InDomain(u) => ParseAmount(text) = Ok(u)
               /\ ~InDomain(u) => ParseAmount(text).tag # "Ok"
               /\ u \in Int
               /\ \A x \in Int : Spells(text, <<Point>>, x) <=> x = u
<1> DEFINE n == Len(whole)
           m == Len(fraction)
           a == v[n + m]
           p == Power(m)
           q == Power(Places - m)
           value == a * q
           u == IF negative THEN -value ELSE value
           big == MaxMagnitude
<1>1. n \in Nat /\ m \in Nat /\ a \in Nat /\ Places \in Nat /\ negative \in BOOLEAN
  BY NumberRead, TextAssumption DEF IsNumber
<1>2. p \in Nat \ {0} /\ q \in Nat \ {0} /\ Scale = p * q
  <2>1. Places - m \in Nat /\ m + (Places - m) = Places
    BY <1>1
  <2>2. Power(m + (Places - m)) = p * q
    BY <1>1, <2>1, PowerPlus
  <2>3. QED BY <1>1, <2>1, <2>2, PowerIs, TextAssumption
<1>3. ParseFixedPoint(text) = Read(negative, whole, fraction)
  BY NumberRead
<1>4. Magnitude(whole \o fraction \o [i \in 1 .. Places - m |-> 0]) = IF value > big THEN big + 1 ELSE value
  BY NumberRead
<1>5. /\ Spelled(text, <<Point>>).sign = IF negative THEN -1 ELSE 1
      /\ Spelled(text, <<Point>>).digits = a
      /\ Spelled(text, <<Point>>).places = m
  BY SpelledIs
<1> HIDE DEF a, p, q
<1>6. value \in Nat
  BY <1>1, <1>2
<1>7. \A x \in Int : Spells(text, <<Point>>, x) <=> x = u
  <2> DEFINE g == IF negative THEN -1 ELSE 1
  <2> TAKE x \in Int
  <2>1. Spells(text, <<Point>>, x) <=> x * p = g * a * Scale
    BY <1>5 DEF Spells, p
  <2>2. g * a * Scale = u * p
    <3>1. CASE negative
      <4>1. (-1) * a * (p * q) = (-(a * q)) * p
        BY <1>1, <1>2
      <4>2. QED BY <1>2, <3>1, <4>1
    <3>2. CASE ~negative
      <4>1. 1 * a * (p * q) = (a * q) * p
        BY <1>1, <1>2
      <4>2. QED BY <1>2, <3>2, <4>1
    <3>3. QED BY <3>1, <3>2
  <2>3. u \in Int
    BY <1>6
  <2> HIDE DEF u
  <2>4. x * p = u * p => x = u
    BY <1>2, <2>3, Cancel
  <2>5. QED BY <2>1, <2>2, <2>4
<1> HIDE DEF value
<1>8. /\ NarrowMax \in Nat /\ DomainMax \in Nat /\ DomainMax =< NarrowMax
      /\ big = 2 * NarrowMax + 1 /\ big \in Nat
  BY Widths DEF MaxMagnitude
<1> HIDE DEF big
<1> DEFINE mag == IF value > big THEN big + 1 ELSE value
<1>9. ParseFixedPoint(text)
        = IF negative /\ mag = NarrowMax + 1 THEN Ok(-mag)
          ELSE IF mag > NarrowMax THEN MagnitudeOverflow(negative)
          ELSE Ok(IF negative THEN -mag ELSE mag)
  <2>1. ~(m > Places)
    BY <1>1
  <2> HIDE DEF mag
  <2>2. Magnitude(whole \o fraction \o [i \in 1 .. Places - m |-> 0]) = mag
    BY <1>4 DEF mag
  <2>3. QED BY <1>3, <2>1, <2>2 DEF Read
<1>10. InDomain(u) <=> value =< DomainMax
  BY <1>1, <1>6, <1>8 DEF InDomain
<1>11. \A x \in Int : ParseFixedPoint(text) = Ok(x) => ParseAmount(text) = TryFromUnits(x)
  BY OkAnswer DEF ParseAmount, Then
<1>12. u \in Int
  BY <1>6
<1>13. ASSUME InDomain(u) PROVE ParseAmount(text) = Ok(u)
  <2>1. value =< NarrowMax /\ mag = value
    BY <1>6, <1>8, <1>10, <1>13
  <2>2. ~(mag > NarrowMax) /\ mag # NarrowMax + 1
    BY <1>6, <1>8, <2>1
  <2> HIDE DEF mag
  <2>3. ParseFixedPoint(text) = Ok(u)
    BY <1>9, <2>1, <2>2
  <2> HIDE DEF u
  <2>4. QED BY <1>11, <1>12, <1>13, <2>3 DEF TryFromUnits
<1>14. ASSUME ~InDomain(u) PROVE ParseAmount(text).tag # "Ok"
  <2>1. value > DomainMax
    BY <1>6, <1>8, <1>10, <1>14
  <2>2. \A x \in Int : ~InDomain(x) => TryFromUnits(x).tag # "Ok"
    BY DEF TryFromUnits, OutOfDomain
  <2>3. mag \in Nat /\ mag > DomainMax
    BY <1>6, <1>8, <2>1
  <2> HIDE DEF mag
  <2>4. CASE negative /\ mag = NarrowMax + 1
    <3>1. ~InDomain(-mag) /\ -mag \in Int
      BY <1>8, <2>3 DEF InDomain
    <3>2. ParseAmount(text) = TryFromUnits(-mag)
      BY <1>9, <1>11, <2>4, <3>1
    <3>3. QED BY <2>2, <3>1, <3>2
  <2>5. CASE ~(negative /\ mag = NarrowMax + 1) /\ mag > NarrowMax
    <3>1. ParseFixedPoint(text) = MagnitudeOverflow(negative)
      BY <1>9, <2>5
    <3>2. MagnitudeOverflow(negative).tag # "Ok"
      BY DEF MagnitudeOverflow
    <3>3. QED BY <3>1, <3>2 DEF ParseAmount, Then
  <2>6. CASE ~(negative /\ mag = NarrowMax + 1) /\ ~(mag > NarrowMax)
    <3> DEFINE y == IF negative THEN -mag ELSE mag
    <3>1. y \in Int /\ ~InDomain(y)
      BY <1>8, <2>3 DEF InDomain
    <3>2. ParseFixedPoint(text) = Ok(y)
      BY <1>9, <2>6
    <3> HIDE DEF y
    <3>3. QED BY <1>11, <2>2, <3>1, <3>2
  <2>7. QED BY <2>4, <2>5, <2>6
<1>15. QED BY <1>7, <1>12, <1>13, <1>14 DEF value, a, q

\* A text is read as what it spells, or spells no amount.
LEMMA ParsesAsSpelled ==
    ASSUME NEW text \in Seq(Nat), NEW r, r = ParseAmount(text)
    PROVE  /\ r.tag = "Ok" => IsDecimal(text) /\ Spells(text, <<Point>>, r.value)
           /\ IsDecimal(text) /\ Spelled(text, <<Point>>).places =< Places =>
                r.tag = "Ok" \/ ~\E u \in Money : Spells(text, <<Point>>, u)
<1>1. Places \in Nat
  BY TextAssumption
<1>2. ASSUME r.tag = "Ok" PROVE IsDecimal(text) /\ Spells(text, <<Point>>, r.value)
  <2>1. ParseFixedPoint(text).tag = "Ok"
    BY <1>2 DEF ParseAmount, Then
  <2>2. PICK negative, whole, dot, fraction : IsNumber(text, negative, whole, dot, fraction)
    BY <2>1, ParsedShape
  <2>3. PICK v : Horner(whole \o fraction, v)
    BY <2>2, HornerExists, ConcatProperties DEF IsNumber
  <2>4. Len(fraction) =< Places
    <3>1. ~(Len(fraction) > Places) /\ Len(fraction) \in Nat
      BY <2>1, <2>2, <2>3, NumberRead
    <3>2. QED BY <1>1, <3>1
  <2> DEFINE value == v[Len(whole) + Len(fraction)] * Power(Places - Len(fraction))
             u == IF negative THEN -value ELSE value
  <2>5. /\ InDomain(u) => ParseAmount(text) = Ok(u)
        /\ ~InDomain(u) => ParseAmount(text).tag # "Ok"
        /\ u \in Int
        /\ \A x \in Int : Spells(text, <<Point>>, x) <=> x = u
    BY <2>2, <2>3, <2>4, NumberParsed
  <2> HIDE DEF u
  <2>6. r = Ok(u) /\ Spells(text, <<Point>>, u)
    BY <1>2, <2>5
  <2>7. IsDecimal(text)
    BY <2>2, NumberIsDecimal
  <2>8. QED BY <2>6, <2>7, OkAnswer
<1>3. ASSUME IsDecimal(text), Spelled(text, <<Point>>).places =< Places, r.tag # "Ok",
             NEW x \in Money, Spells(text, <<Point>>, x)
      PROVE  FALSE
  <2>1. PICK negative, whole, dot, fraction : IsNumber(text, negative, whole, dot, fraction)
    BY <1>3, DecimalShape
  <2>2. PICK v : Horner(whole \o fraction, v)
    BY <2>1, HornerExists, ConcatProperties DEF IsNumber
  <2>3. Len(fraction) =< Places
    BY <1>3, <2>1, <2>2, SpelledIs
  <2> DEFINE value == v[Len(whole) + Len(fraction)] * Power(Places - Len(fraction))
             u == IF negative THEN -value ELSE value
  <2>4. /\ InDomain(u) => ParseAmount(text) = Ok(u)
        /\ ~InDomain(u) => ParseAmount(text).tag # "Ok"
        /\ u \in Int
        /\ \A y \in Int : Spells(text, <<Point>>, y) <=> y = u
    BY <2>1, <2>2, <2>3, NumberParsed
  <2> HIDE DEF u
  <2>5. x \in Int /\ InDomain(x)
    BY Widths DEF Money, InDomain
  <2>6. x = u
    BY <1>3, <2>4, <2>5
  <2>7. QED BY <1>3, <2>4, <2>5, <2>6, OkAnswer
<1>4. QED BY <1>2, <1>3

-----------------------------------------------------------------------------
(* Reading a text on from an accumulator. *)

\* q are the values that digits reach, character by character; nothing else counts.
Reading(text, q) ==
    /\ q \in [0 .. Len(text) -> Nat]
    /\ \A k \in 1 .. Len(text) :
         q[k] = IF text[k] \in Digit THEN q[k - 1] * Radix + text[k] ELSE q[k - 1]

\* A text over the characters A that takes an accumulator from x to y.
Takes(text, A, x, y) == text \in Seq(A) /\ \E q : Reading(text, q) /\ q[0] = x /\ q[Len(text)] = y

\* One text behind another takes on where that left off.
LEMMA TakesBoth ==
    ASSUME NEW A, NEW s, NEW t, NEW x, NEW y, NEW z, Takes(s, A, x, y), Takes(t, A, y, z)
    PROVE  Takes(s \o t, A, x, z)
<1>1. PICK q : Reading(s, q) /\ q[0] = x /\ q[Len(s)] = y
  BY DEF Takes
<1>2. PICK r : Reading(t, r) /\ r[0] = y /\ r[Len(t)] = z
  BY DEF Takes
<1> DEFINE l == Len(s)
           m == Len(t)
           c == s \o t
           w == [k \in 0 .. l + m |-> IF k =< l THEN q[k] ELSE r[k - l]]
<1>3. s \in Seq(A) /\ t \in Seq(A) /\ l \in Nat /\ m \in Nat
  BY DEF Takes
<1>4. c \in Seq(A) /\ Len(c) = l + m
  BY <1>3, ConcatProperties
<1>5. \A k \in 1 .. l + m : c[k] = IF k =< l THEN s[k] ELSE t[k - l]
  BY <1>3, ConcatProperties
<1>6. /\ q \in [0 .. l -> Nat] /\ r \in [0 .. m -> Nat]
      /\ \A k \in 1 .. l : q[k] = IF s[k] \in Digit THEN q[k - 1] * Radix + s[k] ELSE q[k - 1]
      /\ \A k \in 1 .. m : r[k] = IF t[k] \in Digit THEN r[k - 1] * Radix + t[k] ELSE r[k - 1]
  BY <1>1, <1>2 DEF Reading
<1> HIDE DEF c
<1>7. (\A k \in 0 .. l : w[k] = q[k]) /\ \A k \in l .. l + m : w[k] = r[k - l]
  <2>1. \A k \in 0 .. l : w[k] = q[k]
    BY <1>3
  <2>2. w[l] = r[0]
    BY <1>1, <1>2, <1>3, <2>1
  <2>3. ASSUME NEW k \in l .. l + m PROVE w[k] = r[k - l]
    <3>1. CASE k = l
      BY <1>3, <2>2, <3>1
    <3>2. CASE k > l
      BY <1>3, <3>2
    <3>3. QED BY <1>3, <3>1, <3>2
  <2>4. QED BY <2>1, <2>3
<1>8. w \in [0 .. l + m -> Nat]
  <2>1. \A k \in 0 .. l + m : (IF k =< l THEN q[k] ELSE r[k - l]) \in Nat
    <3> TAKE k \in 0 .. l + m
    <3>1. CASE k =< l
      <4>1. k \in 0 .. l
        BY <1>3, <3>1
      <4>2. QED BY <1>6, <3>1, <4>1
    <3>2. CASE ~(k =< l)
      <4>1. k - l \in 0 .. m
        BY <1>3, <3>2
      <4>2. QED BY <1>6, <3>2, <4>1
    <3>3. QED BY <3>1, <3>2
  <2>2. QED BY <2>1
<1> HIDE DEF w
<1>9. ASSUME NEW k \in 1 .. l + m
      PROVE  w[k] = IF c[k] \in Digit THEN w[k - 1] * Radix + c[k] ELSE w[k - 1]
  <2>1. CASE k =< l
    <3>1. k \in 1 .. l /\ k \in 0 .. l /\ k - 1 \in 0 .. l
      BY <1>3, <2>1
    <3>2. w[k] = q[k] /\ w[k - 1] = q[k - 1] /\ c[k] = s[k]
      BY <1>5, <1>7, <2>1, <3>1
    <3>3. QED BY <1>6, <3>1, <3>2
  <2>2. CASE ~(k =< l)
    <3>1. k - l \in 1 .. m /\ k \in l .. l + m /\ k - 1 \in l .. l + m /\ (k - 1) - l = (k - l) - 1
      BY <1>3, <2>2
    <3>2. w[k] = r[k - l] /\ w[k - 1] = r[(k - l) - 1] /\ c[k] = t[k - l]
      BY <1>5, <1>7, <2>2, <3>1
    <3> DEFINE i == k - l
    <3> HIDE DEF i
    <3>3. i \in 1 .. m /\ w[k] = r[i] /\ w[k - 1] = r[i - 1] /\ c[k] = t[i]
      BY <3>1, <3>2 DEF i
    <3>4. QED BY <1>6, <3>3
  <2>3. QED BY <2>1, <2>2
<1>10. w[0] = x /\ w[l + m] = z
  <2>1. 0 \in 0 .. l /\ l + m \in l .. l + m /\ (l + m) - l = m
    BY <1>3
  <2>2. QED BY <1>1, <1>2, <1>7, <2>1
<1>11. Reading(c, w) /\ w[Len(c)] = z
  BY <1>4, <1>8, <1>9, <1>10 DEF Reading
<1>12. QED BY <1>4, <1>10, <1>11 DEF Takes, c

\* Nothing, one character that is no digit, and one digit.
LEMMA TakesOne ==
    ASSUME NEW A, NEW x \in Nat
    PROVE  /\ Takes(<<>>, A, x, x)
           /\ \A ch \in A \ Digit : Takes(<<ch>>, A, x, x)
           /\ \A d \in A \cap Digit : Takes(<<d>>, A, x, x * Radix + d)
<1>1. Radix \in Nat /\ Digit \subseteq Nat
  BY TextAssumption DEF Digit
<1>2. Takes(<<>>, A, x, x)
  <2> DEFINE q == [k \in 0 .. 0 |-> x]
  <2>1. Reading(<<>>, q) /\ q[0] = x /\ q[Len(<<>>)] = x
    BY DEF Reading
  <2> HIDE DEF q
  <2>2. QED BY <2>1 DEF Takes
<1>3. ASSUME NEW ch \in A, NEW y \in Nat, y = IF ch \in Digit THEN x * Radix + ch ELSE x
      PROVE  Takes(<<ch>>, A, x, y)
  <2> DEFINE q == [k \in 0 .. 1 |-> IF k = 0 THEN x ELSE y]
             t == <<ch>>
  <2>1. t \in Seq(A) /\ Len(t) = 1 /\ t[1] = ch
    OBVIOUS
  <2> HIDE DEF t
  <2>2. q \in [0 .. 1 -> Nat] /\ q[0] = x /\ q[1] = y
    OBVIOUS
  <2> HIDE DEF q
  <2>3. \A k \in 1 .. 1 : q[k] = IF t[k] \in Digit THEN q[k - 1] * Radix + t[k] ELSE q[k - 1]
    <3> TAKE k \in 1 .. 1
    <3>1. k = 1 /\ k - 1 = 0
      OBVIOUS
    <3>2. QED BY <1>3, <2>1, <2>2, <3>1
  <2>4. Reading(t, q)
    BY <2>1, <2>2, <2>3 DEF Reading
  <2>5. QED BY <2>1, <2>2, <2>4 DEF Takes, t
<1>4. ASSUME NEW ch \in A \ Digit PROVE Takes(<<ch>>, A, x, x)
  BY <1>3
<1>5. ASSUME NEW d \in A \cap Digit PROVE Takes(<<d>>, A, x, x * Radix + d)
  <2>1. d \in Nat
    BY <1>1
  <2>2. x * Radix + d \in Nat
    <3> DEFINE p == x * Radix
    <3>1. p \in Nat
      BY <1>1
    <3> HIDE DEF p
    <3>2. p + d \in Nat
      BY <2>1, <3>1
    <3>3. QED BY <3>2 DEF p
  <2>3. QED BY <1>3, <2>2
<1>6. QED BY <1>2, <1>4, <1>5

\* f are sequences put together one after the other.
Joins(f, ss, n) == f[1] = ss[1] /\ \A i \in 2 .. n : f[i] = f[i - 1] \o ss[i]

\* What FlattenSeq makes of sequences.
LEMMA FlattenIs ==
    ASSUME NEW n \in Nat \ {0}, NEW ss, Len(ss) = n
    PROVE  \E f : FlattenSeq(ss) = f[n] /\ Joins(f, ss, n)
<1> DEFINE Solves(g, k) == g = [i \in 1 .. k |-> IF i = 1 THEN ss[i] ELSE g[i - 1] \o ss[i]]
           H == {k \in Nat : \E g : Solves(g, k)}
           f == CHOOSE g : Solves(g, n)
<1>1. 0 \in H
  <2>1. Solves([i \in 1 .. 0 |-> 0], 0)
    OBVIOUS
  <2>2. QED BY <2>1
<1>2. ASSUME NEW k \in Nat, k \in H PROVE k + 1 \in H
  <2>1. PICK g : Solves(g, k)
    BY <1>2
  <2> DEFINE x == IF k = 0 THEN ss[1] ELSE g[k] \o ss[k + 1]
             h == [i \in 1 .. (k + 1) |-> IF i = k + 1 THEN x ELSE g[i]]
  <2>2. (k = 0 => x = ss[1]) /\ (k # 0 => x = g[k] \o ss[k + 1])
    OBVIOUS
  <2> HIDE DEF x
  <2>3. h[k + 1] = x /\ \A i \in 1 .. k : h[i] = g[i]
    OBVIOUS
  <2>4. \A i \in 1 .. k : g[i] = IF i = 1 THEN ss[i] ELSE g[i - 1] \o ss[i]
    BY <2>1
  <2>5. h = [i \in 1 .. (k + 1) |-> h[i]]
    OBVIOUS
  <2> HIDE DEF h
  <2>6. ASSUME NEW i \in 1 .. (k + 1) PROVE h[i] = IF i = 1 THEN ss[i] ELSE h[i - 1] \o ss[i]
    <3>1. CASE i = k + 1
      <4>1. CASE k = 0
        BY <2>2, <2>3, <3>1, <4>1
      <4>2. CASE k # 0
        <5>1. i - 1 = k /\ k \in 1 .. k /\ i # 1
          BY <3>1, <4>2
        <5>2. h[i - 1] = g[k] /\ x = g[k] \o ss[i]
          BY <2>2, <2>3, <3>1, <4>2, <5>1
        <5>3. QED BY <2>3, <3>1, <5>1, <5>2
      <4>3. QED BY <4>1, <4>2
    <3>2. CASE i # k + 1
      <4>1. i \in 1 .. k /\ h[i] = g[i] /\ (i # 1 => h[i - 1] = g[i - 1])
        BY <2>3, <3>2
      <4>2. QED BY <2>4, <4>1
    <3>3. QED BY <3>1, <3>2
  <2>7. Solves(h, k + 1)
    BY <2>5, <2>6, Zenon
  <2> HIDE DEF Solves
  <2>8. \E w : Solves(w, k + 1)
    BY <2>7
  <2>9. QED BY <2>8
<1>3. n \in H
  <2> HIDE DEF H
  <2>1. QED BY <1>1, <1>2, Counting
<1>4. Solves(f, n)
  <2> HIDE DEF Solves
  <2>1. \E g : Solves(g, n)
    BY <1>3
  <2>2. QED BY <2>1
<1>5. FlattenSeq(ss) = f[n]
  BY DEF FlattenSeq
<1> HIDE DEF f
<1>6. \A i \in 1 .. n : f[i] = IF i = 1 THEN ss[i] ELSE f[i - 1] \o ss[i]
  BY <1>4
<1>7. f[1] = ss[1] /\ \A i \in 2 .. n : f[i] = f[i - 1] \o ss[i]
  <2>1. 1 \in 1 .. n /\ \A i \in 2 .. n : i \in 1 .. n /\ i # 1
    OBVIOUS
  <2>2. QED BY <1>6, <2>1, Zenon
<1>8. QED BY <1>5, <1>7 DEF Joins

\* A text over fewer characters is one over more.
LEMMA TakesMore ==
    ASSUME NEW A, NEW B, A \subseteq B, NEW s, NEW x, NEW y, Takes(s, A, x, y)
    PROVE  Takes(s, B, x, y)
BY SeqMonotonic DEF Takes

\* Digits take the accumulator along their values.
LEMMA DigitsTake ==
    ASSUME NEW s \in Seq(Digit), NEW t \in Seq(Digit), NEW v, Horner(s \o t, v)
    PROVE  /\ v[0] = 0 /\ \A i \in 0 .. Len(s) + Len(t) : v[i] \in Nat
           /\ Takes(s, Digit, 0, v[Len(s)])
           /\ Takes(t, Digit, v[Len(s)], v[Len(s) + Len(t)])
           /\ \A i \in 1 .. Len(s) : v[i] = v[i - 1] * Radix + s[i]
<1> DEFINE n == Len(s)
           m == Len(t)
           d == s \o t
           q == [k \in 0 .. n |-> v[k]]
           r == [k \in 0 .. m |-> v[n + k]]
<1>1. n \in Nat /\ m \in Nat /\ (\A i \in 1 .. n : s[i] \in Digit) /\ \A i \in 1 .. m : t[i] \in Digit
  OBVIOUS
<1>2. Len(d) = n + m /\ \A i \in 1 .. n + m : d[i] = IF i =< n THEN s[i] ELSE t[i - n]
  BY ConcatProperties
<1>3. v \in [0 .. n + m -> Nat] /\ v[0] = 0 /\ \A i \in 1 .. n + m : v[i] = v[i - 1] * Radix + d[i]
  BY <1>2 DEF Horner
<1> HIDE DEF n, m, d
<1>4. \A i \in 1 .. n : v[i] = v[i - 1] * Radix + s[i]
  <2> TAKE i \in 1 .. n
  <2>1. i \in 1 .. n + m /\ i =< n
    BY <1>1
  <2>2. d[i] = s[i]
    BY <1>2, <2>1
  <2>3. QED BY <1>3, <2>1, <2>2
<1>5. \A i \in 1 .. m : v[n + i] = v[n + (i - 1)] * Radix + t[i]
  <2> TAKE i \in 1 .. m
  <2>1. n + i \in 1 .. n + m /\ ~(n + i =< n) /\ (n + i) - n = i /\ (n + i) - 1 = n + (i - 1)
    BY <1>1
  <2>2. d[n + i] = t[i]
    BY <1>2, <2>1
  <2>3. QED BY <1>3, <2>1, <2>2
<1>6. Takes(s, Digit, 0, v[n])
  <2>1. q \in [0 .. n -> Nat] /\ q[0] = 0 /\ q[n] = v[n]
    BY <1>1, <1>3
  <2>2. \A k \in 0 .. n : q[k] = v[k]
    OBVIOUS
  <2> HIDE DEF q
  <2>3. \A k \in 1 .. n : q[k] = q[k - 1] * Radix + s[k]
    <3> TAKE k \in 1 .. n
    <3>1. k \in 0 .. n /\ k - 1 \in 0 .. n
      BY <1>1
    <3>2. QED BY <1>4, <2>2, <3>1
  <2>4. Reading(s, q)
    BY <1>1, <2>1, <2>3 DEF Reading, n
  <2>5. QED BY <2>1, <2>4 DEF Takes, n
<1>7. Takes(t, Digit, v[n], v[n + m])
  <2>1. \A k \in 0 .. m : r[k] = v[n + k]
    OBVIOUS
  <2>2. r \in [0 .. m -> Nat]
    <3>1. \A k \in 0 .. m : n + k \in 0 .. n + m
      BY <1>1
    <3>2. \A k \in 0 .. m : v[n + k] \in Nat
      BY <1>3, <3>1
    <3>3. QED BY <3>2
  <2>3. r[0] = v[n] /\ r[m] = v[n + m]
    BY <1>1, <2>1
  <2> HIDE DEF r
  <2>4. \A k \in 1 .. m : r[k] = r[k - 1] * Radix + t[k]
    <3> TAKE k \in 1 .. m
    <3>1. k \in 0 .. m /\ k - 1 \in 0 .. m
      BY <1>1
    <3>2. QED BY <1>5, <2>1, <3>1
  <2>5. Reading(t, r)
    BY <1>1, <2>2, <2>4 DEF Reading, m
  <2>6. QED BY <2>3, <2>5 DEF Takes, m
<1>8. QED BY <1>3, <1>4, <1>6, <1>7 DEF n, m

-----------------------------------------------------------------------------
(* Digits with marks among them. *)

\* A text without a digit.
Bare(s) == s \in Seq(Nat) /\ \A i \in 1 .. Len(s) : s[i] \notin Digit

\* Such a text leaves the accumulator alone.
LEMMA BareTakes ==
    ASSUME NEW s, Bare(s), NEW x \in Nat
    PROVE  Takes(s, Nat, x, x)
<1> DEFINE q == [k \in 0 .. Len(s) |-> x]
<1>1. s \in Seq(Nat) /\ Len(s) \in Nat /\ \A i \in 1 .. Len(s) : s[i] \notin Digit
  BY DEF Bare
<1>2. q \in [0 .. Len(s) -> Nat] /\ \A k \in 0 .. Len(s) : q[k] = x
  OBVIOUS
<1> HIDE DEF q
<1>3. q[0] = x /\ q[Len(s)] = x
  BY <1>1, <1>2
<1>4. \A k \in 1 .. Len(s) : q[k] = IF s[k] \in Digit THEN q[k - 1] * Radix + s[k] ELSE q[k - 1]
  <2> TAKE k \in 1 .. Len(s)
  <2>1. k \in 0 .. Len(s) /\ k - 1 \in 0 .. Len(s) /\ s[k] \notin Digit
    BY <1>1
  <2>2. QED BY <1>2, <2>1
<1>5. Reading(s, q)
  BY <1>2, <1>4 DEF Reading
<1>6. QED BY <1>1, <1>3, <1>5 DEF Takes

\* Where the characters of two texts stand when one is put behind the other.
LEMMA BothAt ==
    ASSUME NEW s \in Seq(Nat), NEW t \in Seq(Nat)
    PROVE  /\ s \o t \in Seq(Nat) /\ Len(s \o t) = Len(s) + Len(t)
           /\ Len(s) \in Nat /\ Len(t) \in Nat
           /\ \A i \in 1 .. Len(s) : (s \o t)[i] = s[i]
           /\ \A i \in 1 .. Len(t) : (s \o t)[Len(s) + i] = t[i]
<1>1. \A i \in 1 .. Len(s) + Len(t) : (s \o t)[i] = IF i =< Len(s) THEN s[i] ELSE t[i - Len(s)]
  BY ConcatProperties
<1>2. /\ s \o t \in Seq(Nat) /\ Len(s \o t) = Len(s) + Len(t)
      /\ Len(s) \in Nat /\ Len(t) \in Nat
  BY ConcatProperties
<1>3. \A i \in 1 .. Len(s) : (s \o t)[i] = s[i]
  BY <1>1, <1>2
<1>4. \A i \in 1 .. Len(t) : (s \o t)[Len(s) + i] = t[i]
  <2> TAKE i \in 1 .. Len(t)
  <2>1. Len(s) + i \in 1 .. Len(s) + Len(t) /\ ~(Len(s) + i =< Len(s)) /\ (Len(s) + i) - Len(s) = i
    BY <1>2
  <2>2. QED BY <1>1, <2>1
<1>5. QED BY <1>2, <1>3, <1>4

\* Two texts without a digit are one.
LEMMA BareBoth ==
    ASSUME NEW s, NEW t, Bare(s), Bare(t)
    PROVE  Bare(s \o t)
<1>1. s \in Seq(Nat) /\ t \in Seq(Nat)
  BY DEF Bare
<1>2. /\ s \o t \in Seq(Nat) /\ Len(s \o t) = Len(s) + Len(t) /\ Len(s) \in Nat /\ Len(t) \in Nat
      /\ \A i \in 1 .. Len(s) : (s \o t)[i] = s[i]
      /\ \A i \in 1 .. Len(t) : (s \o t)[Len(s) + i] = t[i]
  BY <1>1, BothAt
<1> DEFINE w == s \o t
           n == Len(s)
           m == Len(t)
<1>3. /\ w \in Seq(Nat) /\ Len(w) = n + m /\ n \in Nat /\ m \in Nat
      /\ (\A i \in 1 .. n : w[i] = s[i] /\ s[i] \notin Digit)
      /\ \A i \in 1 .. m : w[n + i] = t[i] /\ t[i] \notin Digit
  BY <1>2 DEF Bare
<1> HIDE DEF w, n, m
<1>4. ASSUME NEW i \in 1 .. Len(w) PROVE w[i] \notin Digit
  <2>1. CASE i \in 1 .. n
    BY <1>3, <2>1
  <2>2. CASE i \notin 1 .. n
    <3> DEFINE k == i - n
    <3>1. k \in 1 .. m /\ n + k = i
      BY <1>3, <2>2
    <3> HIDE DEF k
    <3>2. QED BY <1>3, <3>1
  <2>3. QED BY <2>1, <2>2
<1>5. Bare(w)
  BY <1>3, <1>4 DEF Bare
<1>6. QED BY <1>5 DEF w

\* Pieces of two texts that agree there are the same.
LEMMA SamePiece ==
    ASSUME NEW s \in Seq(Nat), NEW t \in Seq(Nat), NEW h \in Nat, NEW m \in Nat \ {0}, NEW n \in Nat,
           m =< n + 1, n =< Len(s), h + n =< Len(t), \A i \in m .. n : t[h + i] = s[i]
    PROVE  SubSeq(t, h + m, h + n) = SubSeq(s, m, n)
<1> DEFINE a == h + m
           b == h + n
           x == SubSeq(t, a, b)
           y == SubSeq(s, m, n)
           l == n - m + 1
<1>1. a \in Nat \ {0} /\ b \in Nat /\ a =< b + 1 /\ b =< Len(t) /\ b - a + 1 = l /\ l \in Nat
  OBVIOUS
<1>2. x \in Seq(Nat) /\ Len(x) = l /\ \A i \in 1 .. l : x[i] = t[a + i - 1]
  <2> HIDE DEF a, b, l
  <2>1. x \in Seq(Nat) /\ Len(x) = b - a + 1 /\ \A i \in 1 .. b - a + 1 : x[i] = t[a + i - 1]
    BY <1>1, PieceIs
  <2>2. QED BY <1>1, <2>1
<1>3. y \in Seq(Nat) /\ Len(y) = l /\ \A i \in 1 .. l : y[i] = s[m + i - 1]
  BY PieceIs
<1> HIDE DEF x, y
<1>4. \A i \in 1 .. l : x[i] = y[i]
  <2> TAKE i \in 1 .. l
  <2> DEFINE k == m + i - 1
  <2>1. k \in m .. n /\ a + i - 1 = h + k
    OBVIOUS
  <2>2. y[i] = s[k] /\ x[i] = t[a + i - 1]
    BY <1>2, <1>3
  <2> HIDE DEF k, a, l
  <2>3. t[h + k] = s[k]
    BY <2>1
  <2>4. QED BY <2>1, <2>2, <2>3
<1> HIDE DEF l
<1>5. x = y
  BY <1>2, <1>3, <1>4, SeqEqual
<1>6. QED BY <1>5 DEF x, y, a, b

\* A text is a piece of itself.
LEMMA WholePiece ==
    ASSUME NEW s \in Seq(Nat)
    PROVE  SubSeq(s, 1, Len(s)) = s
<1> DEFINE y == SubSeq(s, 1, Len(s))
           n == Len(s)
<1>1. n \in Nat /\ 1 =< n + 1 /\ n - 1 + 1 = n
  OBVIOUS
<1>2. y \in Seq(Nat) /\ Len(y) = n - 1 + 1 /\ \A i \in 1 .. n - 1 + 1 : y[i] = s[1 + i - 1]
  BY <1>1, PieceIs
<1> HIDE DEF y
<1>3. Len(y) = Len(s) /\ \A i \in 1 .. Len(y) : y[i] = s[i]
  <2>1. Len(y) = n /\ \A i \in 1 .. n : y[i] = s[1 + i - 1] /\ 1 + i - 1 = i
    BY <1>1, <1>2
  <2>2. QED BY <2>1
<1>4. y = s
  BY <1>2, <1>3, SeqEqual
<1>5. QED BY <1>4 DEF y

\* Digits with one mark among them: a digit first and last, and between two neighbours
\* nothing or the mark.
Marked(s, mark) ==
    /\ s \in Seq(Nat) /\ Len(s) \in Nat \ {0} /\ s[1] \in Digit /\ s[Len(s)] \in Digit
    /\ \A j, k \in 1 .. Len(s) :
         /\ j < k /\ s[j] \in Digit /\ s[k] \in Digit
         /\ \A i \in j + 1 .. k - 1 : s[i] \notin Digit
         => SubSeq(s, j + 1, k - 1) \in {<<>>, mark}

\* Digits alone have no mark among them.
LEMMA DigitsMarked ==
    ASSUME NEW s \in Seq(Digit), s # <<>>, NEW mark
    PROVE  Marked(s, mark)
<1>1. s \in Seq(Nat) /\ Len(s) \in Nat \ {0} /\ \A i \in 1 .. Len(s) : s[i] \in Digit
  <2>1. Digit \subseteq Nat
    BY TextAssumption DEF Digit
  <2>2. s \in Seq(Nat)
    BY <2>1, SeqMonotonic, Zenon
  <2>3. QED BY <2>2
<1>2. 1 \in 1 .. Len(s) /\ Len(s) \in 1 .. Len(s)
  BY <1>1
<1>3. ASSUME NEW j \in 1 .. Len(s), NEW k \in 1 .. Len(s), j < k,
             \A i \in j + 1 .. k - 1 : s[i] \notin Digit
      PROVE  SubSeq(s, j + 1, k - 1) \in {<<>>, mark}
  <2>1. j \in Int /\ k \in Int
    BY <1>1
  <2>2. k - 1 < j + 1
    <3>1. SUFFICES ASSUME j + 1 =< k - 1 PROVE FALSE
      BY <2>1
    <3>2. j + 1 \in j + 1 .. k - 1 /\ j + 1 \in 1 .. Len(s)
      BY <1>1, <2>1, <3>1
    <3>3. QED BY <1>1, <1>3, <3>2
  <2>3. SubSeq(s, j + 1, k - 1) = <<>>
    BY <2>1, <2>2, SubSeqEmpty
  <2>4. QED BY <2>3
<1>4. QED BY <1>1, <1>2, <1>3 DEF Marked

\* One more digit, with the mark ahead of it or without, is one more of them.
LEMMA MarkedMore ==
    ASSUME NEW s, NEW mark, Marked(s, mark), NEW c \in {<<>>, mark}, Bare(c), NEW d \in Digit
    PROVE  Marked(s \o (c \o <<d>>), mark)
<1> DEFINE t == c \o <<d>>
           w == s \o t
           l == Len(s)
           b == Len(c)
           z == l + b + 1
<1>1. d \in Nat
  BY TextAssumption DEF Digit
<1>2. /\ s \in Seq(Nat) /\ l \in Nat \ {0} /\ s[1] \in Digit /\ s[l] \in Digit
      /\ \A j, k \in 1 .. l :
           /\ j < k /\ s[j] \in Digit /\ s[k] \in Digit
           /\ \A i \in j + 1 .. k - 1 : s[i] \notin Digit
           => SubSeq(s, j + 1, k - 1) \in {<<>>, mark}
  BY DEF Marked
<1>3. c \in Seq(Nat) /\ b \in Nat /\ \A i \in 1 .. b : c[i] \notin Digit
  BY DEF Bare
<1>4. /\ t \in Seq(Nat) /\ Len(t) = b + 1 /\ (\A i \in 1 .. b : t[i] = c[i]) /\ t[b + 1] = d
  <2> DEFINE o == <<d>>
  <2>1. o \in Seq(Nat) /\ Len(o) = 1 /\ o[1] = d /\ 1 \in 1 .. Len(o)
    BY <1>1
  <2> HIDE DEF o
  <2>2. /\ c \o o \in Seq(Nat) /\ Len(c \o o) = Len(c) + Len(o)
        /\ \A i \in 1 .. Len(c) : (c \o o)[i] = c[i]
        /\ \A i \in 1 .. Len(o) : (c \o o)[Len(c) + i] = o[i]
    BY <1>3, <2>1, BothAt
  <2>3. QED BY <2>1, <2>2 DEF o
<1> HIDE DEF t, l, b
<1>5. /\ w \in Seq(Nat) /\ Len(w) = z /\ (\A i \in 1 .. l : w[i] = s[i])
      /\ (\A i \in 1 .. b : w[l + i] = c[i]) /\ w[z] = d
  <2>1. /\ s \o t \in Seq(Nat) /\ Len(s \o t) = l + Len(t)
        /\ \A i \in 1 .. l : (s \o t)[i] = s[i]
        /\ \A i \in 1 .. Len(t) : (s \o t)[l + i] = t[i]
    BY <1>2, <1>4, BothAt DEF l
  <2> HIDE DEF w
  <2>2. w \in Seq(Nat) /\ Len(w) = l + (b + 1) /\ (\A i \in 1 .. l : w[i] = s[i])
        /\ \A i \in 1 .. b + 1 : w[l + i] = t[i]
    BY <1>4, <2>1 DEF w
  <2>3. l + (b + 1) = z /\ b + 1 \in 1 .. b + 1 /\ \A i \in 1 .. b : i \in 1 .. b + 1
    BY <1>2, <1>3
  <2> HIDE DEF z
  <2>4. QED BY <1>4, <2>2, <2>3
<1> HIDE DEF w
<1>6. z \in Nat \ {0} /\ l < z /\ z - 1 = l + b /\ 1 \in 1 .. l /\ l \in 1 .. l
  BY <1>2, <1>3
<1>7. w[1] \in Digit /\ w[l] \in Digit /\ w[z] \in Digit
  BY <1>2, <1>5, <1>6
<1>8. ASSUME NEW i \in l + 1 .. z - 1 PROVE w[i] \notin Digit
  <2> DEFINE k == i - l
  <2>1. k \in 1 .. b /\ l + k = i
    BY <1>2, <1>3
  <2> HIDE DEF k
  <2>2. QED BY <1>3, <1>5, <2>1
<1>9. ASSUME NEW j \in 1 .. z, NEW k \in 1 .. z, j < k, w[j] \in Digit, w[k] \in Digit,
             \A i \in j + 1 .. k - 1 : w[i] \notin Digit
      PROVE  SubSeq(w, j + 1, k - 1) \in {<<>>, mark}
  <2>1. j \in Nat /\ k \in Nat /\ l \in Nat /\ z \in Nat
    BY <1>2, <1>6
  <2>2. CASE k =< l
    <3>1. j \in 1 .. l /\ k \in 1 .. l /\ s[j] \in Digit /\ s[k] \in Digit
      BY <1>5, <1>9, <2>1, <2>2
    <3>2. \A i \in j + 1 .. k - 1 : i \in 1 .. l /\ s[i] \notin Digit
      BY <1>5, <1>9, <2>1, <2>2
    <3>3. SubSeq(s, j + 1, k - 1) \in {<<>>, mark}
      BY <1>2, <1>9, <3>1, <3>2
    <3>4. SubSeq(w, j + 1, k - 1) = SubSeq(s, j + 1, k - 1)
      <4> DEFINE x == j + 1
                 y == k - 1
      <4>1. /\ x \in Nat \ {0} /\ y \in Nat /\ x =< y + 1 /\ y =< l /\ 0 + y =< z
            /\ 0 + x = x /\ 0 + y = y /\ \A i \in x .. y : i \in 1 .. l /\ 0 + i = i
        BY <1>6, <1>9, <2>1, <2>2
      <4> HIDE DEF x, y, z
      <4>2. \A i \in x .. y : w[0 + i] = s[i]
        BY <1>5, <4>1
      <4>3. SubSeq(w, 0 + x, 0 + y) = SubSeq(s, x, y)
        BY <1>2, <1>5, <4>1, <4>2, SamePiece DEF l
      <4>4. QED BY <4>1, <4>3 DEF x, y
    <3>5. QED BY <3>3, <3>4
  <2>3. CASE ~(k =< l)
    <3>1. k = z
      <4>1. SUFFICES ASSUME k # z PROVE FALSE
        OBVIOUS
      <4>2. k \in l + 1 .. z - 1
        BY <2>1, <2>3, <4>1
      <4>3. QED BY <1>8, <1>9, <4>2
    <3>2. j = l
      <4>1. ~(j > l)
        <5>1. SUFFICES ASSUME j > l PROVE FALSE
          OBVIOUS
        <5>2. j \in l + 1 .. z - 1
          BY <1>9, <2>1, <3>1, <5>1
        <5>3. QED BY <1>8, <1>9, <5>2
      <4>2. ~(j < l)
        <5>1. SUFFICES ASSUME j < l PROVE FALSE
          OBVIOUS
        <5>2. l \in j + 1 .. k - 1
          BY <2>1, <2>3, <5>1
        <5>3. QED BY <1>7, <1>9, <5>2
      <4>3. QED BY <2>1, <4>1, <4>2
    <3>3. SubSeq(w, l + 1, l + b) = SubSeq(c, 1, b)
      <4>1. /\ 1 \in Nat \ {0} /\ 1 =< b + 1 /\ b =< b /\ l + b =< z
        BY <1>2, <1>3, <1>6
      <4> HIDE DEF z
      <4>2. QED BY <1>2, <1>3, <1>5, <4>1, SamePiece DEF b
    <3>4. SubSeq(c, 1, b) = c
      BY <1>3, WholePiece DEF b
    <3>5. k - 1 = l + b /\ j + 1 = l + 1
      BY <1>6, <3>1, <3>2
    <3> HIDE DEF z
    <3>6. QED BY <3>3, <3>4, <3>5
  <2>4. QED BY <2>2, <2>3
<1>10. w[Len(w)] \in Digit /\ Len(w) \in Nat \ {0}
  BY <1>5, <1>6, <1>7
<1> HIDE DEF z
<1>11. Marked(w, mark)
  BY <1>5, <1>7, <1>9, <1>10 DEF Marked
<1>12. QED BY <1>11 DEF w, t

\* Grouped digits spell what the digits do, with the separator among them.
LEMMA GroupTakes ==
    ASSUME NEW whole \in Seq(Digit), whole # <<>>, NEW fraction \in Seq(Digit),
           NEW v, Horner(whole \o fraction, v), NEW grouping, NEW group, Bare(group)
    PROVE  /\ Takes(Group(whole, grouping, group), Nat, 0, v[Len(whole)])
           /\ Marked(Group(whole, grouping, group), group)
<1> DEFINE n == Len(whole)
           ss == [i \in 1 .. n |->
                    IF i > 1 /\ n - i + 1 \in Cuts(grouping, n) THEN group \o <<whole[i]>>
                                                                ELSE <<whole[i]>>]
<1>1. n \in Nat \ {0} /\ \A i \in 1 .. n : whole[i] \in Digit
  OBVIOUS
<1>2. Digit \subseteq Nat
  BY TextAssumption DEF Digit
<1>3. /\ v[0] = 0 /\ (\A i \in 0 .. n : v[i] \in Nat) /\ Takes(whole, Digit, 0, v[n])
      /\ \A i \in 1 .. n : v[i] = v[i - 1] * Radix + whole[i]
  <2>1. \A i \in 0 .. n : i \in 0 .. n + Len(fraction)
    BY <1>1
  <2>2. QED BY <2>1, DigitsTake
<1>4. CASE grouping = <<>>
  <2>1. Group(whole, grouping, group) = whole
    BY <1>4 DEF Group
  <2>2. Marked(whole, group)
    BY DigitsMarked
  <2>3. Takes(whole, Nat, 0, v[n])
    BY <1>2, <1>3, TakesMore
  <2>4. QED BY <2>1, <2>2, <2>3
<1>5. CASE grouping # <<>>
  <2>1. Group(whole, grouping, group) = FlattenSeq(ss)
    BY <1>5 DEF Group
  <2>2. Len(ss) = n
    BY <1>1
  <2>3. \A i \in 1 .. n : ss[i] = <<whole[i]>> \/ (i > 1 /\ ss[i] = group \o <<whole[i]>>)
    OBVIOUS
  <2> HIDE DEF ss, n
  <2>4. Bare(<<>>)
    <3>1. <<>> \in Seq(Nat) /\ Len(<<>>) = 0
      OBVIOUS
    <3>2. QED BY <3>1 DEF Bare
  <2>5. ASSUME NEW i \in 1 .. n
        PROVE  /\ Takes(ss[i], Nat, v[i - 1], v[i])
               /\ \E c \in {<<>>, group} : Bare(c) /\ ss[i] = c \o <<whole[i]>>
               /\ i = 1 => ss[i] = <<whole[i]>>
    <3> DEFINE d == whole[i]
               x == v[i - 1]
    <3>1. x \in Nat /\ d \in Nat \cap Digit /\ v[i] = x * Radix + d
      <4>1. i - 1 \in 0 .. n
        BY <1>1
      <4>2. QED BY <1>1, <1>2, <1>3, <4>1
    <3>2. ss[i] = <<d>> \/ (i > 1 /\ ss[i] = group \o <<d>>)
      BY <2>3
    <3> HIDE DEF d, x
    <3>3. Takes(<<d>>, Nat, x, v[i])
      BY <3>1, TakesOne
    <3>4. Takes(group, Nat, x, x)
      BY <3>1, BareTakes
    <3>5. Takes(group \o <<d>>, Nat, x, v[i])
      BY <3>3, <3>4, TakesBoth
    <3>6. <<>> \o <<d>> = <<d>>
      <4>1. <<d>> \in Seq(Nat)
        BY <3>1
      <4>2. QED BY <4>1, ConcatEmptySeq
    <3>7. \E c \in {<<>>, group} : Bare(c) /\ ss[i] = c \o <<d>>
      BY <2>4, <3>2, <3>6
    <3>8. i = 1 => ss[i] = <<d>>
      BY <3>2
    <3>9. Takes(ss[i], Nat, x, v[i])
      BY <3>2, <3>3, <3>5
    <3>10. QED BY <3>7, <3>8, <3>9 DEF x, d
  <2>6. PICK f : FlattenSeq(ss) = f[n] /\ Joins(f, ss, n)
    BY <1>1, <2>2, FlattenIs
  <2> DEFINE Good(k) == Takes(f[k], Nat, v[0], v[k]) /\ Marked(f[k], group)
             H == {k \in Nat : k < n => Good(k + 1)}
  <2>7. 0 \in H
    <3>1. 1 \in 1 .. n /\ 1 - 1 = 0 /\ 0 + 1 = 1
      BY <1>1
    <3>2. f[1] = <<whole[1]>> /\ whole[1] \in Digit
      BY <1>1, <2>5, <2>6, <3>1 DEF Joins
    <3>3. Takes(f[1], Nat, v[0], v[1])
      BY <2>5, <2>6, <3>1 DEF Joins
    <3>4. Marked(f[1], group)
      <4> DEFINE o == <<whole[1]>>
      <4>1. o \in Seq(Digit) /\ o # <<>>
        BY <3>2
      <4> HIDE DEF o
      <4>2. Marked(o, group)
        BY <4>1, DigitsMarked
      <4>3. QED BY <3>2, <4>2 DEF o
    <3>5. QED BY <3>1, <3>3, <3>4
  <2>8. ASSUME NEW k \in Nat, k \in H PROVE k + 1 \in H
    <3> DEFINE i == k + 2
    <3>1. SUFFICES ASSUME k + 1 < n PROVE Good(i)
      OBVIOUS
    <3>2. i \in 2 .. n /\ i \in 1 .. n /\ i - 1 = k + 1 /\ k < n
      BY <1>1, <3>1
    <3> HIDE DEF i
    <3>3. Takes(f[i - 1], Nat, v[0], v[i - 1]) /\ Marked(f[i - 1], group)
      BY <2>8, <3>2
    <3>4. Takes(ss[i], Nat, v[i - 1], v[i]) /\ \E c \in {<<>>, group} : Bare(c) /\ ss[i] = c \o <<whole[i]>>
      BY <2>5, <3>2
    <3>5. PICK c \in {<<>>, group} : Bare(c) /\ ss[i] = c \o <<whole[i]>>
      BY <3>4
    <3>6. Takes(f[i - 1] \o ss[i], Nat, v[0], v[i])
      BY <3>3, <3>4, TakesBoth
    <3>7. Marked(f[i - 1] \o ss[i], group)
      <4>1. whole[i] \in Digit
        BY <1>1, <3>2
      <4>2. Marked(f[i - 1] \o (c \o <<whole[i]>>), group)
        BY <3>3, <3>5, <4>1, MarkedMore
      <4>3. QED BY <3>5, <4>2
    <3>8. f[i] = f[i - 1] \o ss[i]
      BY <2>6, <3>2 DEF Joins
    <3>9. QED BY <3>6, <3>7, <3>8
  <2>9. n - 1 \in H
    <3> HIDE DEF H
    <3>1. n - 1 \in Nat
      BY <1>1
    <3>2. QED BY <2>7, <2>8, <3>1, Counting
  <2>10. n - 1 < n /\ (n - 1) + 1 = n
    BY <1>1
  <2>11. Takes(f[n], Nat, v[0], v[n]) /\ Marked(f[n], group)
    BY <2>9, <2>10
  <2>12. QED BY <1>3, <2>1, <2>6, <2>11 DEF n
<1>6. QED BY <1>4, <1>5

-----------------------------------------------------------------------------
(* What is shown. *)

\* A text where there is one.
Written(there, s) == IF there THEN s ELSE <<>>

\* What is shown, its parts in order: a sign, a symbol on either side, grouped
\* digits, and behind a mark more of them.
Shown(negative, prefix, symbol, whole, decimal, fraction) ==
    LET body  == whole \o (IF fraction = <<>> THEN <<>> ELSE decimal \o fraction)
        shown == IF prefix THEN symbol \o body ELSE body \o symbol
    IN  IF negative THEN <<Minus>> \o shown ELSE shown

\* Five texts, one behind the other.
Five(front, whole, mark, fraction, back) == front \o (whole \o (mark \o (fraction \o back)))

\* One text behind another, and six texts as a rendering puts them together.
Cat(s, t) == s \o t
Six(sign, pre, whole, mark, fraction, post) == sign \o (pre \o ((whole \o (mark \o fraction)) \o post))
AreFive(sign, pre, whole, mark, fraction, post) ==
    Six(sign, pre, whole, mark, fraction, post) = Five(Cat(sign, pre), whole, mark, fraction, post)

\* A text behind a text is a text.
LEMMA CatText ==
    ASSUME NEW s \in Seq(Nat), NEW t \in Seq(Nat)
    PROVE  Cat(s, t) \in Seq(Nat)
BY ConcatProperties DEF Cat

\* Texts put together in either order.
LEMMA Joined ==
    ASSUME NEW s \in Seq(Nat), NEW t \in Seq(Nat), NEW u \in Seq(Nat)
    PROVE  Cat(Cat(s, t), u) = Cat(s, Cat(t, u))
<1>1. (s \o t) \o u = s \o (t \o u)
  BY ConcatAssociative, SMTT(40)
<1>2. QED BY <1>1, Zenon DEF Cat

\* The six are five, the first two being one.
LEMMA Assembled ==
    ASSUME NEW sign \in Seq(Nat), NEW pre \in Seq(Nat), NEW whole \in Seq(Nat), NEW mark \in Seq(Nat),
           NEW fraction \in Seq(Nat), NEW post \in Seq(Nat)
    PROVE  AreFive(sign, pre, whole, mark, fraction, post)
<1>1. Cat(sign, Cat(pre, Cat(Cat(whole, Cat(mark, fraction)), post)))
        = Cat(Cat(sign, pre), Cat(whole, Cat(mark, Cat(fraction, post))))
  BY CatText, Joined, SMT
<1>2. QED BY <1>1, Zenon DEF Cat, Six, Five, AreFive

\* What stands ahead of the digits.
Foremost(negative, prefix, symbol) == Written(negative, <<Minus>>) \o Written(prefix, symbol)

\* What is shown has these parts.
ShownFive(negative, prefix, symbol, whole, decimal, fraction) ==
    Shown(negative, prefix, symbol, whole, decimal, fraction)
      = Five(Foremost(negative, prefix, symbol), whole, Written(fraction # <<>>, decimal),
             fraction, Written(~prefix, symbol))

LEMMA ShownIs ==
    ASSUME NEW negative \in BOOLEAN, NEW prefix \in BOOLEAN, NEW symbol \in Seq(Nat),
           NEW whole \in Seq(Nat), NEW decimal \in Seq(Nat), NEW fraction \in Seq(Nat)
    PROVE  ShownFive(negative, prefix, symbol, whole, decimal, fraction)
<1> DEFINE sign == Written(negative, <<Minus>>)
           pre == Written(prefix, symbol)
           mark == Written(fraction # <<>>, decimal)
           post == Written(~prefix, symbol)
           tail == mark \o fraction
           body == whole \o tail
           shown == IF prefix THEN symbol \o body ELSE body \o symbol
<1>1. <<Minus>> \in Seq(Nat) /\ <<>> \in Seq(Nat)
  BY TextAssumption DEF Minus
<1>2. sign \in Seq(Nat) /\ pre \in Seq(Nat) /\ mark \in Seq(Nat) /\ post \in Seq(Nat)
  BY <1>1 DEF Written
<1>3. tail = IF fraction = <<>> THEN <<>> ELSE decimal \o fraction
  BY <1>1, ConcatEmptySeq DEF Written
<1>4. Shown(negative, prefix, symbol, whole, decimal, fraction)
        = IF negative THEN <<Minus>> \o shown ELSE shown
  BY <1>3 DEF Shown
<1>5. tail \in Seq(Nat)
  <2> HIDE DEF mark
  <2>1. QED BY <1>2, ConcatProperties
<1> HIDE DEF tail
<1>6. body \in Seq(Nat)
  BY <1>5, ConcatProperties
<1> HIDE DEF body
<1>7. shown \in Seq(Nat) /\ shown = pre \o (body \o post)
  <2>1. CASE prefix
    <3>1. body \o <<>> = body /\ symbol \o body \in Seq(Nat)
      BY <1>6, ConcatEmptySeq, ConcatProperties
    <3>2. QED BY <2>1, <3>1 DEF Written
  <2>2. CASE ~prefix
    <3>1. body \o symbol \in Seq(Nat)
      BY <1>6, ConcatProperties
    <3>2. <<>> \o (body \o symbol) = body \o symbol
      BY <3>1, ConcatEmptySeq
    <3>3. QED BY <2>2, <3>1, <3>2 DEF Written
  <2>3. QED BY <2>1, <2>2
<1> HIDE DEF shown
<1>8. Shown(negative, prefix, symbol, whole, decimal, fraction) = sign \o shown
  BY <1>4, <1>7, ConcatEmptySeq DEF Written
<1> HIDE DEF sign, pre, mark, post
<1>9. Shown(negative, prefix, symbol, whole, decimal, fraction)
        = sign \o (pre \o ((whole \o (mark \o fraction)) \o post))
  BY <1>7, <1>8 DEF body, tail
<1>10. Six(sign, pre, whole, mark, fraction, post) = Five(Cat(sign, pre), whole, mark, fraction, post)
  <2>1. PICK a \in Seq(Nat), b \in Seq(Nat), c \in Seq(Nat), d \in Seq(Nat) :
          a = sign /\ b = pre /\ c = mark /\ d = post
    BY <1>2
  <2>2. a \in Seq(Nat) /\ b \in Seq(Nat) /\ c \in Seq(Nat) /\ d \in Seq(Nat)
    BY <2>1
  <2>3. AreFive(a, b, whole, c, fraction, d)
    BY <2>2, Assembled
  <2>4. QED BY <2>1, <2>3 DEF AreFive
<1>11. Shown(negative, prefix, symbol, whole, decimal, fraction) = Five(sign \o pre, whole, mark, fraction, post)
  BY <1>9, <1>10, Zenon DEF Six, Cat
<1>12. QED BY <1>11 DEF sign, pre, mark, post, Foremost, ShownFive

\* A text with the characters of the five, by their places.
Placed(text, front, whole, mark, fraction, back) ==
    LET a == Len(front)
        n == Len(whole)
        e == Len(mark)
        m == Len(fraction)
        z == Len(back)
    IN  /\ text \in Seq(Nat) /\ Len(text) = a + n + e + m + z
        /\ a \in Nat /\ n \in Nat /\ e \in Nat /\ m \in Nat /\ z \in Nat
        /\ \A i \in 1 .. a : text[i] = front[i]
        /\ \A i \in 1 .. n : text[a + i] = whole[i]
        /\ \A i \in 1 .. e : text[a + n + i] = mark[i]
        /\ \A i \in 1 .. m : text[a + n + e + i] = fraction[i]
        /\ \A i \in 1 .. z : text[a + n + e + m + i] = back[i]

\* Where the characters of the five stand.
LEMMA FiveAt ==
    ASSUME NEW front \in Seq(Nat), NEW whole \in Seq(Nat), NEW mark \in Seq(Nat),
           NEW fraction \in Seq(Nat), NEW back \in Seq(Nat)
    PROVE  Placed(Five(front, whole, mark, fraction, back), front, whole, mark, fraction, back)
<1> DEFINE a == Len(front)
           n == Len(whole)
           e == Len(mark)
           m == Len(fraction)
           z == Len(back)
           u == fraction \o back
           t == mark \o u
           s == whole \o t
           w == front \o s
<1>1. a \in Nat /\ n \in Nat /\ e \in Nat /\ m \in Nat /\ z \in Nat
  OBVIOUS
<1>2. /\ u \in Seq(Nat) /\ Len(u) = m + z
      /\ (\A i \in 1 .. m : u[i] = fraction[i]) /\ \A i \in 1 .. z : u[m + i] = back[i]
  BY BothAt
<1> HIDE DEF u
<1>3. /\ t \in Seq(Nat) /\ Len(t) = e + (m + z)
      /\ (\A i \in 1 .. e : t[i] = mark[i]) /\ \A i \in 1 .. m + z : t[e + i] = u[i]
  <2>1. /\ t \in Seq(Nat) /\ Len(t) = e + Len(u)
        /\ (\A i \in 1 .. e : t[i] = mark[i]) /\ \A i \in 1 .. Len(u) : t[e + i] = u[i]
    BY <1>2, BothAt
  <2> HIDE DEF t
  <2>2. QED BY <1>2, <2>1
<1> HIDE DEF t
<1>4. /\ s \in Seq(Nat) /\ Len(s) = n + (e + (m + z))
      /\ (\A i \in 1 .. n : s[i] = whole[i]) /\ \A i \in 1 .. e + (m + z) : s[n + i] = t[i]
  <2>1. /\ s \in Seq(Nat) /\ Len(s) = n + Len(t)
        /\ (\A i \in 1 .. n : s[i] = whole[i]) /\ \A i \in 1 .. Len(t) : s[n + i] = t[i]
    BY <1>3, BothAt
  <2> HIDE DEF s
  <2>2. QED BY <1>3, <2>1
<1> HIDE DEF s
<1>5. /\ w \in Seq(Nat) /\ Len(w) = a + (n + (e + (m + z)))
      /\ (\A i \in 1 .. a : w[i] = front[i]) /\ \A i \in 1 .. n + (e + (m + z)) : w[a + i] = s[i]
  <2>1. /\ w \in Seq(Nat) /\ Len(w) = a + Len(s)
        /\ (\A i \in 1 .. a : w[i] = front[i]) /\ \A i \in 1 .. Len(s) : w[a + i] = s[i]
    BY <1>4, BothAt
  <2> HIDE DEF w
  <2>2. QED BY <1>4, <2>1
<1> HIDE DEF w, a, n, e, m, z
<1>6. Len(w) = a + n + e + m + z
  BY <1>1, <1>5
<1>7. \A i \in 1 .. n : w[a + i] = whole[i]
  <2> TAKE i \in 1 .. n
  <2>1. i \in 1 .. n + (e + (m + z))
    BY <1>1
  <2>2. QED BY <1>4, <1>5, <2>1
<1>8. \A i \in 1 .. e + (m + z) : w[a + n + i] = t[i]
  <2> TAKE i \in 1 .. e + (m + z)
  <2>1. n + i \in 1 .. n + (e + (m + z)) /\ a + (n + i) = a + n + i
    BY <1>1
  <2>2. w[a + (n + i)] = s[n + i] /\ s[n + i] = t[i]
    BY <1>4, <1>5, <2>1
  <2>3. QED BY <2>1, <2>2
<1>9. \A i \in 1 .. e : w[a + n + i] = mark[i]
  <2> TAKE i \in 1 .. e
  <2>1. i \in 1 .. e + (m + z)
    BY <1>1
  <2>2. QED BY <1>3, <1>8, <2>1
<1>10. \A i \in 1 .. m + z : w[a + n + e + i] = u[i]
  <2> TAKE i \in 1 .. m + z
  <2>1. e + i \in 1 .. e + (m + z) /\ a + n + (e + i) = a + n + e + i
    BY <1>1
  <2>2. w[a + n + (e + i)] = t[e + i] /\ t[e + i] = u[i]
    BY <1>3, <1>8, <2>1
  <2>3. QED BY <2>1, <2>2
<1>11. \A i \in 1 .. m : w[a + n + e + i] = fraction[i]
  <2> TAKE i \in 1 .. m
  <2>1. i \in 1 .. m + z
    BY <1>1
  <2>2. QED BY <1>2, <1>10, <2>1
<1>12. \A i \in 1 .. z : w[a + n + e + m + i] = back[i]
  <2> TAKE i \in 1 .. z
  <2>1. m + i \in 1 .. m + z /\ a + n + e + (m + i) = a + n + e + m + i
    BY <1>1
  <2>2. w[a + n + e + (m + i)] = u[m + i] /\ u[m + i] = back[i]
    BY <1>2, <1>10, <2>1
  <2>3. QED BY <2>1, <2>2
<1>13. w = Five(front, whole, mark, fraction, back)
  BY DEF w, s, t, u, Five
<1>14. Placed(w, front, whole, mark, fraction, back)
  BY <1>1, <1>5, <1>6, <1>7, <1>9, <1>11, <1>12 DEF a, n, e, m, z, Placed
<1>15. QED BY <1>13, <1>14

\* What is shown takes the accumulator where its digits do.
LEMMA FiveTakes ==
    ASSUME NEW front, NEW whole, NEW mark, NEW fraction, NEW back, NEW y \in Nat, NEW z \in Nat,
           Bare(front), Bare(mark), Bare(back), Takes(whole, Nat, 0, y), Takes(fraction, Nat, y, z)
    PROVE  Takes(Five(front, whole, mark, fraction, back), Nat, 0, z)
<1>1. Takes(front, Nat, 0, 0) /\ Takes(mark, Nat, y, y) /\ Takes(back, Nat, z, z)
  BY BareTakes
<1>2. Takes(fraction \o back, Nat, y, z)
  BY <1>1, TakesBoth
<1>3. Takes(mark \o (fraction \o back), Nat, y, z)
  BY <1>1, <1>2, TakesBoth
<1>4. Takes(whole \o (mark \o (fraction \o back)), Nat, 0, z)
  BY <1>3, TakesBoth
<1>5. Takes(front \o (whole \o (mark \o (fraction \o back))), Nat, 0, z)
  BY <1>1, <1>4, TakesBoth
<1>6. QED BY <1>5 DEF Five

\* The places of grouped digits, a mark that is not the group's, and more digits.
LEMMA FivePlaces ==
    ASSUME NEW front, NEW whole, NEW mark, NEW fraction \in Seq(Digit), NEW back, NEW group, NEW decimal,
           Bare(front), Bare(back), Bare(decimal), decimal # <<>>, decimal # group,
           Marked(whole, group), mark = Written(fraction # <<>>, decimal)
    PROVE  Spelled(Five(front, whole, mark, fraction, back), decimal).places = Len(fraction)
<1> DEFINE text == Five(front, whole, mark, fraction, back)
           a == Len(front)
           n == Len(whole)
           e == Len(mark)
           m == Len(fraction)
           z == Len(back)
           at == a + n + e
<1>1. Bare(mark)
  <2>1. <<>> \in Seq(Nat) /\ Len(<<>>) = 0
    OBVIOUS
  <2>2. Bare(<<>>)
    BY <2>1 DEF Bare
  <2>3. QED BY <2>2 DEF Written
<1>2. /\ front \in Seq(Nat) /\ mark \in Seq(Nat) /\ back \in Seq(Nat) /\ decimal \in Seq(Nat)
      /\ (\A i \in 1 .. a : front[i] \notin Digit) /\ (\A i \in 1 .. e : mark[i] \notin Digit)
      /\ (\A i \in 1 .. z : back[i] \notin Digit) /\ \A i \in 1 .. Len(decimal) : decimal[i] \notin Digit
  BY <1>1 DEF Bare
<1>3. fraction \in Seq(Nat) /\ \A i \in 1 .. m : fraction[i] \in Digit
  <2>1. Digit \subseteq Nat
    BY TextAssumption DEF Digit
  <2>2. fraction \in Seq(Nat)
    BY <2>1, SeqMonotonic, Zenon
  <2>3. QED BY <2>2
<1>4. /\ whole \in Seq(Nat) /\ n \in Nat \ {0} /\ whole[n] \in Digit
      /\ \A j, k \in 1 .. n :
           /\ j < k /\ whole[j] \in Digit /\ whole[k] \in Digit
           /\ \A i \in j + 1 .. k - 1 : whole[i] \notin Digit
           => SubSeq(whole, j + 1, k - 1) \in {<<>>, group}
  BY DEF Marked
<1>5. /\ text \in Seq(Nat) /\ Len(text) = a + n + e + m + z
      /\ a \in Nat /\ n \in Nat /\ e \in Nat /\ m \in Nat /\ z \in Nat
      /\ \A i \in 1 .. a : text[i] = front[i]
      /\ \A i \in 1 .. n : text[a + i] = whole[i]
      /\ \A i \in 1 .. e : text[a + n + i] = mark[i]
      /\ \A i \in 1 .. m : text[a + n + e + i] = fraction[i]
      /\ \A i \in 1 .. z : text[a + n + e + m + i] = back[i]
  <2>1. Placed(text, front, whole, mark, fraction, back)
    BY <1>2, <1>3, <1>4, FiveAt
  <2> HIDE DEF text
  <2>2. QED BY <2>1 DEF Placed
<1>6. m > 0 => mark = decimal
  BY DEF Written
<1> HIDE DEF text, a, e, m, z, n
<1>7. at \in Nat /\ Len(text) \in Nat /\ DOMAIN text = 1 .. Len(text) /\ at + m =< Len(text)
  BY <1>5
<1>8. ASSUME NEW i \in 1 .. Len(text)
      PROVE  (text[i] \in Digit /\ i > at) <=> i \in at + 1 .. at + m
  <2>1. CASE i =< at
    <3> HIDE DEF at
    <3>1. ~(i > at) /\ i \notin at + 1 .. at + m
      BY <1>7, <2>1
    <3>2. QED BY <3>1
  <2>2. CASE i \in at + 1 .. at + m
    <3> DEFINE k == i - at
    <3>1. k \in 1 .. m /\ a + n + e + k = i /\ i > at
      BY <1>5, <1>7, <2>2
    <3> HIDE DEF k, at
    <3>2. QED BY <1>3, <1>5, <2>2, <3>1
  <2>3. CASE i > at /\ i \notin at + 1 .. at + m
    <3> DEFINE k == i - at - m
    <3>1. k \in 1 .. z /\ a + n + e + m + k = i
      BY <1>5, <1>7, <2>3
    <3> HIDE DEF k, at
    <3>2. QED BY <1>2, <1>5, <2>3, <3>1
  <2>4. QED BY <1>7, <2>1, <2>2, <2>3
<1>9. ASSUME m > 0 PROVE \E j \in 1 .. at : text[j] \in Digit /\ SubSeq(text, j + 1, at) = decimal
  <2> DEFINE j == a + n
  <2>1. j \in 1 .. at /\ j \in Nat /\ at = j + e /\ n \in 1 .. n /\ j + e =< Len(text)
    BY <1>4, <1>5, <1>7
  <2>2. text[j] \in Digit
    BY <1>4, <1>5, <2>1
  <2>3. SubSeq(text, j + 1, j + e) = SubSeq(mark, 1, e)
    <3>1. 1 \in Nat \ {0} /\ 1 =< e + 1 /\ e =< Len(mark) /\ \A i \in 1 .. e : text[j + i] = mark[i]
      BY <1>5 DEF e
    <3> HIDE DEF j
    <3>2. QED BY <1>2, <1>5, <2>1, <3>1, SamePiece
  <2>4. SubSeq(mark, 1, e) = decimal
    BY <1>2, <1>6, <1>9, WholePiece DEF e
  <2> HIDE DEF j, at
  <2>5. QED BY <2>1, <2>2, <2>3, <2>4
<1>10. ASSUME NEW j \in 1 .. Len(text), NEW k \in 1 .. Len(text), j < k,
              text[j] \in Digit, text[k] \in Digit, SubSeq(text, j + 1, k - 1) = decimal
       PROVE  k > at
  <2>1. SUFFICES ASSUME k =< at PROVE FALSE
    BY <1>7
  <2>2. ASSUME NEW i \in 1 .. at, text[i] \in Digit PROVE i \in a + 1 .. a + n
    <3>1. CASE i \in 1 .. a
      BY <1>2, <1>5, <2>2, <3>1
    <3>2. CASE i \in a + n + 1 .. at
      <4> DEFINE h == i - (a + n)
      <4>1. h \in 1 .. e /\ a + n + h = i
        <5>1. a \in Nat /\ n \in Nat /\ e \in Nat
          BY <1>5
        <5>2. QED BY <3>2, <5>1
      <4> HIDE DEF h, at
      <4>2. QED BY <1>2, <1>5, <2>2, <4>1
    <3>3. QED BY <1>5, <1>7, <3>1, <3>2
  <2> DEFINE p == j - a
             q == k - a
  <2>3. /\ p \in 1 .. n /\ q \in 1 .. n /\ a + p = j /\ a + q = k /\ p < q
        /\ a + (p + 1) = j + 1 /\ a + (q - 1) = k - 1
    <3>1. j \in 1 .. at /\ k \in 1 .. at
      BY <1>7, <1>10, <2>1
    <3>2. j \in a + 1 .. a + n /\ k \in a + 1 .. a + n
      BY <1>10, <2>2, <3>1
    <3>3. QED BY <1>5, <1>10, <3>2
  <2> HIDE DEF p, q, at
  <2>4. whole[p] \in Digit /\ whole[q] \in Digit
    BY <1>5, <1>10, <2>3
  <2>5. SubSeq(whole, p + 1, q - 1) = decimal
    <3> DEFINE x == p + 1
               y == q - 1
    <3>1. /\ x \in Nat \ {0} /\ y \in Nat /\ x =< y + 1 /\ y =< Len(whole) /\ a + y =< Len(text)
          /\ \A i \in x .. y : i \in 1 .. n
      <4>1. a \in Nat /\ n \in Nat /\ Len(text) >= a + n
        BY <1>5
      <4>2. /\ x \in Nat \ {0} /\ y \in Nat /\ x =< y + 1 /\ y =< n /\ a + y =< Len(text)
            /\ \A i \in x .. y : i \in 1 .. n
        BY <1>7, <2>3, <4>1
      <4>3. QED BY <4>2 DEF n
    <3> HIDE DEF x, y
    <3>2. \A i \in x .. y : text[a + i] = whole[i]
      BY <1>5, <3>1
    <3>3. SubSeq(text, a + x, a + y) = SubSeq(whole, x, y)
      <4>1. whole \in Seq(Nat) /\ text \in Seq(Nat) /\ a \in Nat
        BY <1>4, <1>5
      <4>2. QED BY <3>1, <3>2, <4>1, SamePiece, ZenonT(60)
    <3>4. a + x = j + 1 /\ a + y = k - 1
      BY <2>3 DEF x, y
    <3>5. QED BY <1>10, <3>3, <3>4 DEF x, y
  <2>6. ASSUME NEW i \in p + 1 .. q - 1 PROVE whole[i] \notin Digit
    <3> DEFINE x == p + 1
               y == q - 1
               h == i - p
               l == y - x + 1
    <3>1. x \in Nat \ {0} /\ y \in Nat /\ x =< y + 1 /\ y =< n /\ h \in 1 .. l /\ x + h - 1 = i
      BY <1>5, <2>3
    <3> HIDE DEF x, y, h
    <3>2. Len(SubSeq(whole, x, y)) = l /\ \A b \in 1 .. l : SubSeq(whole, x, y)[b] = whole[x + b - 1]
      BY <1>4, <3>1, PieceIs DEF n
    <3>3. SubSeq(whole, x, y) = decimal
      BY <2>5 DEF x, y
    <3> HIDE DEF l
    <3>4. decimal[h] = whole[i] /\ h \in 1 .. Len(decimal)
      BY <3>1, <3>2, <3>3
    <3>5. QED BY <1>2, <3>4
  <2>7. SubSeq(whole, p + 1, q - 1) \in {<<>>, group}
    BY <1>4, <2>3, <2>4, <2>6
  <2>8. QED BY <2>5, <2>7
<1> HIDE DEF at
<1>11. m \in Nat
  BY <1>5
<1>12. Spelled(text, decimal).places = m
  BY <1>7, <1>8, <1>9, <1>10, <1>11, PlacesAre
<1>13. QED BY <1>12 DEF text, m

\* What a text spells, by its parts.
Spelling(text, mark, negative, digits, places) ==
    /\ Spelled(text, mark).sign = IF negative THEN -1 ELSE 1
    /\ Spelled(text, mark).digits = digits
    /\ Spelled(text, mark).places = places

\* What is shown spells its digits, with a sign and with places.
LEMMA ShownSpells ==
    ASSUME NEW negative \in BOOLEAN, NEW prefix \in BOOLEAN, NEW symbol, NEW group, NEW decimal,
           Bare(symbol), Bare(decimal), symbol # <<>> => symbol[1] # Minus,
           decimal # <<>>, decimal # group, NEW whole, NEW fraction \in Seq(Digit),
           NEW y \in Nat, NEW z \in Nat,
           Takes(whole, Nat, 0, y), Marked(whole, group), Takes(fraction, Digit, y, z)
    PROVE  Spelling(Shown(negative, prefix, symbol, whole, decimal, fraction), decimal, negative, z,
                    Len(fraction))
<1> DEFINE sign == Written(negative, <<Minus>>)
           pre == Written(prefix, symbol)
           front == Foremost(negative, prefix, symbol)
           mark == Written(fraction # <<>>, decimal)
           post == Written(~prefix, symbol)
           text == Five(front, whole, mark, fraction, post)
<1>1. Digit \subseteq Nat /\ Minus \in Nat \ Digit
  BY TextAssumption DEF Digit, Minus
<1>2. Bare(<<>>) /\ Bare(<<Minus>>)
  <2>1. <<>> \in Seq(Nat) /\ Len(<<>>) = 0
    OBVIOUS
  <2>2. <<Minus>> \in Seq(Nat) /\ Len(<<Minus>>) = 1 /\ \A i \in 1 .. 1 : <<Minus>>[i] \notin Digit
    BY <1>1
  <2>3. QED BY <2>1, <2>2 DEF Bare
<1>3. Bare(sign) /\ Bare(pre) /\ Bare(mark) /\ Bare(post)
  BY <1>2 DEF Written
<1>4. Bare(front)
  <2>1. front = sign \o pre
    BY DEF Foremost
  <2> HIDE DEF sign, pre, front
  <2>2. QED BY <1>3, <2>1, BareBoth
<1>5. /\ symbol \in Seq(Nat) /\ decimal \in Seq(Nat) /\ mark \in Seq(Nat) /\ post \in Seq(Nat)
      /\ sign \in Seq(Nat) /\ pre \in Seq(Nat) /\ front \in Seq(Nat)
  <2> HIDE DEF sign, pre, mark, post, front
  <2>1. QED BY <1>3, <1>4 DEF Bare
<1>6. whole \in Seq(Nat) /\ Len(whole) \in Nat \ {0} /\ whole[1] \in Digit
  BY DEF Marked
<1>7. Takes(fraction, Nat, y, z) /\ fraction \in Seq(Nat)
  <2>1. Takes(fraction, Nat, y, z)
    BY <1>1, TakesMore, Zenon
  <2>2. fraction \in Seq(Nat)
    BY <2>1 DEF Takes
  <2>3. QED BY <2>1, <2>2
<1>8. Shown(negative, prefix, symbol, whole, decimal, fraction) = text
  <2> HIDE DEF front, mark, post, text
  <2>1. Shown(negative, prefix, symbol, whole, decimal, fraction)
          = Five(Foremost(negative, prefix, symbol), whole, Written(fraction # <<>>, decimal),
                 fraction, Written(~prefix, symbol))
    <3>1. ShownFive(negative, prefix, symbol, whole, decimal, fraction)
      BY <1>5, <1>6, <1>7, ShownIs
    <3>2. QED BY <3>1, Zenon DEF ShownFive
  <2>2. QED BY <2>1, Zenon DEF text, front, mark, post
<1>9. Takes(text, Nat, 0, z)
  <2> HIDE DEF front, mark, post
  <2>1. QED BY <1>3, <1>4, <1>7, FiveTakes
<1>10. Spelled(text, decimal).digits = z
  <2> HIDE DEF text
  <2>1. PICK q : Reading(text, q) /\ q[0] = 0 /\ q[Len(text)] = z
    BY <1>9 DEF Takes
  <2>2. /\ q \in [0 .. Len(text) -> Nat]
        /\ \A i \in 1 .. Len(text) :
             q[i] = IF text[i] \in Digit THEN q[i - 1] * Radix + text[i] ELSE q[i - 1]
    BY <2>1 DEF Reading
  <2>3. text \in Seq(Nat)
    BY <1>9 DEF Takes
  <2>4. Spelled(text, decimal).digits = q[Len(text)]
    BY <2>1, <2>2, <2>3, DigitsSum, ZenonT(60)
  <2>5. QED BY <2>1, <2>4
<1>11. Spelled(text, decimal).places = Len(fraction)
  <2>1. mark = Written(fraction # <<>>, decimal)
    OBVIOUS
  <2> HIDE DEF front, mark, post
  <2>2. QED BY <1>3, <1>4, <2>1, FivePlaces
<1>12. (text # <<>> /\ text[1] = Minus) <=> negative
  <2> DEFINE a == Len(front)
             n == Len(whole)
  <2>1. /\ text \in Seq(Nat) /\ Len(text) >= a + n /\ a \in Nat /\ n \in Nat \ {0}
        /\ \A i \in 1 .. a : text[i] = front[i]
        /\ \A i \in 1 .. n : text[a + i] = whole[i]
    <3>1. Placed(text, front, whole, mark, fraction, post)
      <4> HIDE DEF front, mark, post
      <4>1. QED BY <1>5, <1>6, <1>7, FiveAt
    <3> HIDE DEF text, front, mark, post
    <3>2. QED BY <1>6, <3>1 DEF Placed
  <2> HIDE DEF text
  <2>2. text # <<>> /\ 1 \in 1 .. n
    BY <2>1
  <2>3. CASE negative
    <3>1. sign = <<Minus>> /\ Len(<<Minus>>) = 1 /\ <<Minus>>[1] = Minus
      BY <2>3 DEF Written
    <3>2. /\ Len(front) = Len(sign) + Len(pre) /\ Len(pre) \in Nat
          /\ \A i \in 1 .. Len(sign) : front[i] = sign[i]
      <4>1. front = sign \o pre
        BY DEF Foremost
      <4> HIDE DEF sign, pre, front
      <4>2. QED BY <1>5, <4>1, BothAt
    <3> HIDE DEF front, sign, pre
    <3>3. 1 \in 1 .. a /\ front[1] = Minus
      BY <3>1, <3>2
    <3>4. QED BY <2>1, <2>2, <2>3, <3>3
  <2>4. CASE ~negative
    <3>1. front = pre
      <4>1. sign = <<>>
        BY <2>4 DEF Written
      <4>2. <<>> \o pre = pre
        BY <1>5, ConcatEmptySeq
      <4> HIDE DEF pre
      <4>3. QED BY <4>1, <4>2 DEF Foremost, pre
    <3>2. CASE front = <<>>
      <4>1. a = 0
        BY <3>2
      <4> HIDE DEF front, a, n
      <4>2. text[0 + 1] = whole[1]
        BY <2>1, <2>2, <4>1
      <4>3. text[1] \in Digit
        BY <1>6, <4>2
      <4>4. QED BY <1>1, <2>4, <4>3
    <3>3. CASE front # <<>>
      <4>1. front = symbol /\ symbol # <<>>
        BY <3>1, <3>3 DEF Written
      <4>2. front[1] # Minus
        BY <4>1
      <4> HIDE DEF front
      <4>3. 1 \in 1 .. a
        BY <1>5, <3>3
      <4>4. QED BY <2>1, <2>4, <4>2, <4>3
    <3>4. QED BY <3>2, <3>3
  <2>5. QED BY <2>3, <2>4
<1>13. Spelled(text, decimal).sign = IF negative THEN -1 ELSE 1
  <2> HIDE DEF text
  <2>1. QED BY <1>12 DEF Spelled
<1> HIDE DEF text
<1>14. QED BY <1>8, <1>10, <1>11, <1>13 DEF Spelling

\* The parts of a number that is written.
LEMMA PartsAre ==
    ASSUME NEW u \in Int, InDomain(u), NEW minDp \in 0 .. Places
    PROVE  LET parts == FixedPointParts(u, minDp) IN
           /\ parts.negative = (u < 0)
           /\ parts.whole \in Seq(Digit) /\ parts.whole # <<>> /\ parts.fraction \in Seq(Digit)
<1> DEFINE m == Abs(u)
           all == LastDigits(m % Scale, Places)
           whole == Numeral(m \div Scale)
           fraction == Trim(all, minDp)
<1>1. m \in Nat /\ Places \in Nat
  BY Widths, TextAssumption DEF Abs
<1>2. FixedPointParts(u, minDp) = [negative |-> u < 0, whole |-> whole, fraction |-> fraction]
  BY DEF FixedPointParts
<1> HIDE DEF m
<1>3. m \div Scale \in Nat /\ m % Scale \in Nat
  BY <1>1, WholeAndRest
<1>4. PICK w \in Nat \ {0} : whole = LastDigits(m \div Scale, w)
  BY <1>3, NumeralIs
<1>5. whole \in Seq(Digit) /\ Len(whole) = w
  BY <1>3, <1>4, LastDigitsAre
<1>6. all \in Seq(Digit) /\ Len(all) = Places
  BY <1>1, <1>3, LastDigitsAre
<1> HIDE DEF all, whole
<1>7. fraction \in Seq(Digit)
  BY <1>6, TrimIs
<1> HIDE DEF fraction
<1>8. whole # <<>>
  BY <1>5
<1>9. QED BY <1>2, <1>5, <1>7, <1>8

\* The digits that are written spell the amount.
LEMMA PartsSpell ==
    ASSUME NEW u \in Int, InDomain(u), NEW minDp \in 0 .. Places
    PROVE  LET parts == FixedPointParts(u, minDp)
               n == Len(parts.whole)
               m == Len(parts.fraction)
           IN  \E v : /\ Horner(parts.whole \o parts.fraction, v)
                      /\ u * Power(m) = (IF u < 0 THEN -1 ELSE 1) * v[n + m] * Scale
<1> DEFINE parts == FixedPointParts(u, minDp)
           whole == parts.whole
           fraction == parts.fraction
           dot == fraction # <<>>
           text == RenderFixedPoint(u, minDp)
<1>1. whole \in Seq(Digit) /\ whole # <<>> /\ fraction \in Seq(Digit)
  BY PartsAre
<1>2. text = Signed(u < 0, Body(whole, dot, fraction))
  BY <1>1, RenderIs
<1>3. IsNumber(text, u < 0, whole, dot, fraction)
  BY <1>1, <1>2 DEF IsNumber
<1>4. ParseAmount(text) = Ok(u)
  <2>1. ParseFixedPoint(text) = Ok(u)
    BY RoundTrip
  <2> HIDE DEF text
  <2>2. QED BY <2>1 DEF ParseAmount, Then, TryFromUnits, Ok
<1> HIDE DEF text, whole, fraction, dot
<1>5. text \in Seq(Nat)
  BY <1>3, NumberIsDecimal
<1>6. Spells(text, <<Point>>, u)
  <2>1. Ok(u).tag = "Ok" /\ Ok(u).value = u
    BY DEF Ok
  <2>2. ParseAmount(text).tag = "Ok" => Spells(text, <<Point>>, ParseAmount(text).value)
    BY <1>5, ParsesAsSpelled
  <2>3. QED BY <1>4, <2>1, <2>2
<1>7. PICK v : Horner(whole \o fraction, v)
  BY <1>1, HornerExists, ConcatProperties
<1>8. /\ Spelled(text, <<Point>>).sign = IF u < 0 THEN -1 ELSE 1
      /\ Spelled(text, <<Point>>).digits = v[Len(whole) + Len(fraction)]
      /\ Spelled(text, <<Point>>).places = Len(fraction)
  BY <1>3, <1>7, SpelledIs
<1>9. u * Power(Len(fraction)) = (IF u < 0 THEN -1 ELSE 1) * v[Len(whole) + Len(fraction)] * Scale
  BY <1>6, <1>8 DEF Spells
<1>10. QED BY <1>7, <1>9 DEF whole, fraction

\* A policy that is built is the one that was asked for: its separators
\* differ, and one is there.
LEMMA PolicyIs ==
    ASSUME NEW c, NEW symbol, NEW prefix, NEW group, NEW decimal, NEW grouping, NEW digits \in Nat,
           PolicyOf(c, symbol, prefix, group, decimal, grouping, digits).tag = "Ok"
    PROVE  /\ PolicyOf(c, symbol, prefix, group, decimal, grouping, digits).value =
                [currency |-> c, symbol |-> symbol, prefix |-> prefix, group |-> group, decimal |-> decimal,
                 grouping |-> grouping, minDigits |-> digits]
           /\ decimal # <<>> /\ group # decimal /\ digits \in 0 .. Places
<1> DEFINE p0 == [currency |-> c, symbol |-> symbol, prefix |-> prefix, group |-> <<Comma>>, decimal |-> <<Point>>,
                  grouping |-> <<3>>, minDigits |-> MinPlaces(c)]
           p1 == [currency |-> c, symbol |-> symbol, prefix |-> prefix, group |-> group, decimal |-> decimal,
                  grouping |-> <<3>>, minDigits |-> MinPlaces(c)]
           p2 == [currency |-> c, symbol |-> symbol, prefix |-> prefix, group |-> group, decimal |-> decimal,
                  grouping |-> grouping, minDigits |-> MinPlaces(c)]
           p3 == [currency |-> c, symbol |-> symbol, prefix |-> prefix, group |-> group, decimal |-> decimal,
                  grouping |-> grouping, minDigits |-> digits]
           SetDigits(p) == Then(FractionDigits(digits), LAMBDA n : Ok([p EXCEPT !.minDigits = n]))
           SetGrouping(p) == Then(TryWithGrouping(p, grouping), SetDigits)
           separated == TryWithSeparators(p0, group, decimal)
           grouped == TryWithGrouping(p1, grouping)
           counted == FractionDigits(digits)
<1>1. [NewPolicy(c, symbol) EXCEPT !.prefix = prefix] = p0
  BY DEF NewPolicy
<1>2. PolicyOf(c, symbol, prefix, group, decimal, grouping, digits)
        = IF separated.tag = "Ok" THEN SetGrouping(separated.value) ELSE separated
  BY <1>1 DEF PolicyOf, Then
<1>3. separated.tag = "Ok"
  BY <1>2
<1>4. decimal # <<>> /\ group # decimal /\ separated.value = p1
  <2>1. separated = IF decimal = <<>> THEN [tag |-> "EmptyDecimalSeparator", value |-> p0]
                    ELSE IF group = decimal THEN [tag |-> "AmbiguousSeparators", value |-> p0]
                    ELSE Ok([p0 EXCEPT !.group = group, !.decimal = decimal])
    BY DEF TryWithSeparators
  <2>2. [p0 EXCEPT !.group = group, !.decimal = decimal] = p1
    <3> DEFINE pg == [p0 EXCEPT !.group = group]
    <3>1. pg = [currency |-> c, symbol |-> symbol, prefix |-> prefix, group |-> group, decimal |-> <<Point>>,
                grouping |-> <<3>>, minDigits |-> MinPlaces(c)]
      OBVIOUS
    <3>2. [p0 EXCEPT !.group = group, !.decimal = decimal] = [pg EXCEPT !.decimal = decimal]
      <4> HIDE DEF p0
      <4>1. QED OBVIOUS
    <3> HIDE DEF pg
    <3>3. [pg EXCEPT !.decimal = decimal] = p1
      BY <3>1
    <3> HIDE DEF p0, p1
    <3>4. QED BY <3>2, <3>3
  <2> HIDE DEF p0, p1, separated
  <2>3. decimal # <<>> /\ group # decimal
    BY <1>3, <2>1
  <2>4. QED BY <2>1, <2>2, <2>3 DEF Ok
<1>5. PolicyOf(c, symbol, prefix, group, decimal, grouping, digits)
        = IF grouped.tag = "Ok" THEN SetDigits(grouped.value) ELSE grouped
  BY <1>2, <1>3, <1>4 DEF Then
<1>6. grouped.tag = "Ok"
  BY <1>5
<1>7. grouped.value = p2
  <2>1. [p1 EXCEPT !.grouping = grouping] = p2
    OBVIOUS
  <2> HIDE DEF p1, p2
  <2>2. grouped = [tag |-> "ZeroGroupingWidth", value |-> p1] \/ grouped = Ok([p1 EXCEPT !.grouping = grouping])
    BY DEF TryWithGrouping
  <2> HIDE DEF grouped
  <2>3. QED BY <1>6, <2>1, <2>2 DEF Ok
<1>8. PolicyOf(c, symbol, prefix, group, decimal, grouping, digits)
        = IF counted.tag = "Ok" THEN Ok([p2 EXCEPT !.minDigits = counted.value]) ELSE counted
  BY <1>5, <1>6, <1>7 DEF Then
<1>9. counted.tag = "Ok"
  BY <1>8
<1>10. digits \in 0 .. Places /\ counted.value = digits
  <2>1. Places \in Nat
    BY TextAssumption
  <2>2. digits =< Places
    BY <1>9 DEF FractionDigits
  <2>3. QED BY <2>1, <2>2 DEF FractionDigits, Ok
<1>11. [p2 EXCEPT !.minDigits = digits] = p3
  OBVIOUS
<1>12. PolicyOf(c, symbol, prefix, group, decimal, grouping, digits) = Ok(p3)
  BY <1>8, <1>9, <1>10, <1>11
<1>13. QED BY <1>4, <1>10, <1>12 DEF Ok

\* What is legibly shown of an amount spells it.
Displayed(r, symbol, group, decimal, u) ==
    r.tag = "Ok" /\ Legible(symbol, group, decimal) => Spells(r.value, decimal, u)

\* A number that is shown under a policy spells it.
LEMMA ShownAmount ==
    ASSUME NEW prefix \in BOOLEAN, NEW symbol, NEW group, NEW decimal,
           Bare(symbol), Bare(group), Bare(decimal), symbol # <<>> => symbol[1] # Minus,
           decimal # <<>>, group # decimal,
           NEW grouping, NEW minDp \in 0 .. Places, NEW u \in Int, InDomain(u)
    PROVE  LET parts == FixedPointParts(u, minDp) IN
           Spells(Shown(u < 0, prefix, symbol, Group(parts.whole, grouping, group), decimal, parts.fraction),
                  decimal, u)
<1> DEFINE parts == FixedPointParts(u, minDp)
           whole == parts.whole
           fraction == parts.fraction
           negative == u < 0
           grouped == Group(whole, grouping, group)
           text == Shown(negative, prefix, symbol, grouped, decimal, fraction)
           n == Len(whole)
           m == Len(fraction)
<1>1. whole \in Seq(Digit) /\ whole # <<>> /\ fraction \in Seq(Digit)
  BY PartsAre
<1>2. PICK v : /\ Horner(whole \o fraction, v)
               /\ u * Power(m) = (IF u < 0 THEN -1 ELSE 1) * v[n + m] * Scale
  BY PartsSpell
<1> HIDE DEF whole, fraction
<1>3. n \in Nat /\ m \in Nat
  BY <1>1
<1>4. (\A i \in 0 .. n + m : v[i] \in Nat) /\ Takes(fraction, Digit, v[n], v[n + m])
  BY <1>1, <1>2, DigitsTake
<1>5. v[n] \in Nat /\ v[n + m] \in Nat
  BY <1>3, <1>4
<1>6. Takes(grouped, Nat, 0, v[n]) /\ Marked(grouped, group)
  BY <1>1, <1>2, GroupTakes
<1>7. negative \in BOOLEAN
  OBVIOUS
<1> HIDE DEF grouped, negative
<1>8. /\ Spelled(text, decimal).sign = IF negative THEN -1 ELSE 1
      /\ Spelled(text, decimal).digits = v[n + m]
      /\ Spelled(text, decimal).places = m
  <2> DEFINE y == v[n]
             z == v[n + m]
  <2>1. y \in Nat /\ z \in Nat /\ Takes(fraction, Digit, y, z) /\ Takes(grouped, Nat, 0, y)
    BY <1>4, <1>5, <1>6
  <2> HIDE DEF y, z
  <2>2. Spelling(text, decimal, negative, z, m)
    BY <1>1, <1>6, <1>7, <2>1, ShownSpells
  <2>3. QED BY <2>2 DEF z, Spelling
<1> HIDE DEF text, n, m
<1>9. Spells(text, decimal, u)
  BY <1>2, <1>8 DEF Spells, negative
<1>10. QED BY <1>9 DEF text, grouped, negative, whole, fraction

\* Decoration that is legible has no digit.
LEMMA LegibleBare ==
    ASSUME NEW symbol \in Seq(Chars), NEW group \in Seq(Chars), NEW decimal \in Seq(Chars),
           Legible(symbol, group, decimal)
    PROVE  /\ Bare(symbol) /\ Bare(group) /\ Bare(decimal)
           /\ symbol # <<>> => symbol[1] # Minus
<1>1. Chars \subseteq Nat
  BY TextAssumption DEF Chars
<1>2. ASSUME NEW mark \in Seq(Chars), \A i \in DOMAIN mark : mark[i] \notin Digit
      PROVE  Bare(mark)
  <2>1. mark \in Seq(Nat)
    BY <1>1, SeqMonotonic, Zenon
  <2>2. DOMAIN mark = 1 .. Len(mark)
    OBVIOUS
  <2>3. QED BY <1>2, <2>1, <2>2 DEF Bare
<1>3. QED BY <1>2 DEF Legible

\* What a display call returns spells its amount, if it shows it legibly.
LEMMA DisplayShows ==
    ASSUME NEW c, NEW prefix \in BOOLEAN, NEW symbol \in Seq(Chars), NEW group \in Seq(Chars),
           NEW decimal \in Seq(Chars), NEW grouping, NEW digits \in Nat, NEW u \in Int, NEW shown
    PROVE  Displayed(Then(PolicyOf(c, symbol, prefix, group, decimal, grouping, digits),
                          LAMBDA p : RenderUnits(p, u, shown)), symbol, group, decimal, u)
<1> DEFINE policy == PolicyOf(c, symbol, prefix, group, decimal, grouping, digits)
           p == [currency |-> c, symbol |-> symbol, prefix |-> prefix, group |-> group,
                 decimal |-> decimal, grouping |-> grouping, minDigits |-> digits]
           r == RenderUnits(p, u, shown)
           parts == FixedPointParts(u, digits)
           text == Shown(u < 0, prefix, symbol, Group(parts.whole, grouping, group), decimal,
                         parts.fraction)
<1>1. CASE policy.tag # "Ok"
  <2>1. QED BY <1>1 DEF Then, Displayed
<1>2. CASE policy.tag = "Ok"
  <2>1. policy.value = p /\ decimal # <<>> /\ group # decimal /\ digits \in 0 .. Places
    BY <1>2, PolicyIs
  <2>2. Then(policy, LAMBDA q : RenderUnits(q, u, shown)) = r
    <3> HIDE DEF policy
    <3>1. QED BY <1>2, <2>1 DEF Then
  <2>3. r.tag = "Ok" => InDomain(u) /\ r.value = text
    <3>1. parts.negative = (u < 0)
      BY DEF FixedPointParts
    <3>2. r = IF shown # c THEN WrongCurrency(c, shown)
              ELSE IF ~InDomain(u) THEN OutOfDomain(u)
              ELSE Ok(text)
      BY <3>1 DEF RenderUnits, Shown
    <3> HIDE DEF text, r
    <3>3. r.tag = "Ok" => InDomain(u) /\ r = Ok(text)
      BY <3>2 DEF WrongCurrency, OutOfDomain
    <3>4. QED BY <3>3 DEF Ok
  <2>4. ASSUME InDomain(u), Legible(symbol, group, decimal) PROVE Spells(text, decimal, u)
    <3>1. Bare(symbol) /\ Bare(group) /\ Bare(decimal) /\ (symbol # <<>> => symbol[1] # Minus)
      BY <2>4, LegibleBare
    <3>2. QED BY <2>1, <2>4, <3>1, ShownAmount
  <2> HIDE DEF r, text
  <2>5. Displayed(r, symbol, group, decimal, u)
    BY <2>3, <2>4 DEF Displayed
  <2>6. QED BY <2>2, <2>5
<1>3. QED BY <1>1, <1>2

-----------------------------------------------------------------------------
(* Calls. *)

Checked == {"add", "sub", "major", "convert", "via"}

\* A call has one result, an answer, and money if it says so.
ResultInv ==
    /\ args.op \in Ops
    /\ (args.op # "none") <=> (result # {})
    /\ \A r \in result : Answer(r) /\ (r.tag = "Ok" /\ args.op \in Checked => r.value \in Money)

\* The arguments that results are looked at by, and the result.
ArgsInv ==
    /\ args.op = "divide" =>
         /\ args.a \in Int /\ args.n \in Divisors /\ args.mode \in Modes
         /\ result = {DivIntUnits(args.a, args.n, args.mode)}
    /\ args.op = "allocate" =>
         /\ args.a \in Int /\ args.weights \in Slices
         /\ result = {AllocateMoney(args.a, args.weights)}
    /\ args.op = "convert" =>
         /\ args.a \in Money /\ args.first \in 1 .. DomainMax /\ args.mode \in Modes
         /\ result = {Convert(args.a, args.first, args.mode)}
    /\ args.op = "via" =>
         /\ args.a \in Money /\ args.first \in 1 .. DomainMax /\ args.second \in 1 .. DomainMax
         /\ args.mode \in Modes
         /\ result = {ConvertVia(args.a, args.first, args.second, args.mode)}
    /\ args.op = "parse" => args.text \in Texts /\ result = {ParseAmount(args.text)}
    /\ args.op = "render" => args.a \in Int /\ result = {TryFromUnits(args.a)}
    /\ args.op = "carry" =>
         \A r \in result : Carried(r, args.form, args.a, args.codes, args.readers)
    /\ args.op = "display" =>
         \A r \in result : Displayed(r, args.symbol, args.group, args.decimal, args.a)
    /\ args.op = "ledger" =>
         args.a \in Int /\ result = {TryFromUnits(args.a)}

CallInv == ResultInv /\ ArgsInv

\* A call that answers leaves a result.
LEMMA Called ==
    ASSUME NEW arguments, NEW answer, Call(arguments, answer),
           arguments.op \in Ops \ {"none"}, Answer(answer),
           answer.tag = "Ok" /\ arguments.op \in Checked => answer.value \in Money
    PROVE  ResultInv'
BY DEF Call, ResultInv

\* Every call leaves its arguments and its result behind.
LEMMA CallsInv == CallInv /\ [LedgerNext]_ledgerVars => CallInv'
<1> SUFFICES ASSUME CallInv, [LedgerNext]_ledgerVars PROVE CallInv'
  OBVIOUS
<1>1. CASE CallAdd
  <2>1. PICK a \in Money, b \in Money : Call([op |-> "add", a |-> a, b |-> b], TryAdd(a, b))
    BY <1>1 DEF CallAdd
  <2>2. ResultInv'
    BY <2>1, UnitsAreInt, ArithmeticAnswers, Called DEF Ops, Checked
  <2>3. QED BY <2>1, <2>2 DEF Call, CallInv, ArgsInv
<1>2. CASE CallSub
  <2>1. PICK a \in Money, b \in Money : Call([op |-> "sub", a |-> a, b |-> b], TrySub(a, b))
    BY <1>2 DEF CallSub
  <2>2. ResultInv'
    BY <2>1, UnitsAreInt, ArithmeticAnswers, Called DEF Ops, Checked
  <2>3. QED BY <2>1, <2>2 DEF Call, CallInv, ArgsInv
<1>3. CASE CallMajor
  <2>1. PICK a \in Units : Call([op |-> "major", a |-> a], TryFromMajor(a))
    BY <1>3 DEF CallMajor
  <2>2. ResultInv'
    BY <2>1, UnitsAreInt, ArithmeticAnswers, Called DEF Ops, Checked
  <2>3. QED BY <2>1, <2>2 DEF Call, CallInv, ArgsInv
<1>4. CASE CallDivide
  <2>1. PICK a \in Units, n \in Divisors, mode \in Modes :
          Call([op |-> "divide", a |-> a, n |-> n, mode |-> mode], DivIntUnits(a, n, mode))
    BY <1>4 DEF CallDivide
  <2>2. a \in Int
    BY UnitsAreInt
  <2>3. ResultInv'
    BY <2>1, <2>2, DivisionAnswers, Called DEF Ops, Checked
  <2>4. QED BY <2>1, <2>2, <2>3 DEF Call, CallInv, ArgsInv
<1>5. CASE CallAllocate
  <2>1. PICK a \in Units, w \in WeightLists :
          Call([op |-> "allocate", a |-> a, weights |-> w], AllocateMoney(a, w))
    BY <1>5 DEF CallAllocate
  <2>2. a \in Int /\ w \in Slices
    BY UnitsAreInt, MoneyCallsAssumption
  <2>3. ResultInv'
    BY <2>1, <2>2, AllocationAnswers, Called DEF Ops, Checked
  <2>4. QED BY <2>1, <2>2, <2>3 DEF Call, CallInv, ArgsInv
<1>6. CASE CallSplit
  <2>1. PICK a \in Money, n \in Divisors : Call([op |-> "split", a |-> a, n |-> n], SplitAll(a, n))
    BY <1>6 DEF CallSplit
  <2>2. Answer(SplitAll(a, n))
    BY SplitAllIs, OkAnswer
  <2>3. ResultInv'
    BY <2>1, <2>2, Called DEF Ops, Checked
  <2>4. QED BY <2>1, <2>3 DEF Call, CallInv, ArgsInv
<1>7. CASE CallConvert
  <2>1. PICK a \in Money, rate \in Units, mode \in Modes :
          /\ TryRate(rate).tag = "Ok"
          /\ Call([op |-> "convert", a |-> a, first |-> rate, mode |-> mode],
                  Convert(a, rate, mode))
    BY <1>7 DEF CallConvert
  <2>2. rate \in 1 .. DomainMax
    BY <2>1, RateType
  <2>3. Answer(Convert(a, rate, mode))
        /\ (Convert(a, rate, mode).tag = "Ok" => Convert(a, rate, mode).value \in Money)
    BY <2>2, ConversionAnswers
  <2>4. ResultInv'
    BY <2>1, <2>3, Called DEF Ops, Checked
  <2>5. QED BY <2>1, <2>2, <2>4 DEF Call, CallInv, ArgsInv
<1>8. CASE CallConvertVia
  <2>1. PICK a \in Money, first \in Units, second \in Units, mode \in Modes :
          /\ TryRate(first).tag = "Ok" /\ TryRate(second).tag = "Ok"
          /\ Call([op |-> "via", a |-> a, first |-> first, second |-> second, mode |-> mode],
                  ConvertVia(a, first, second, mode))
    BY <1>8 DEF CallConvertVia
  <2>2. first \in 1 .. DomainMax /\ second \in 1 .. DomainMax
    BY <2>1, RateType
  <2>3. LET r == ConvertVia(a, first, second, mode) IN
        Answer(r) /\ (r.tag = "Ok" => r.value \in Money)
    BY <2>2, ConversionAnswers
  <2>4. ResultInv'
    BY <2>1, <2>3, Called DEF Ops, Checked
  <2>5. QED BY <2>1, <2>2, <2>4 DEF Call, CallInv, ArgsInv
<1>9. CASE CallParse
  <2>1. PICK t \in Texts : Call([op |-> "parse", text |-> t], ParseAmount(t))
    BY <1>9 DEF CallParse
  <2>2. ResultInv'
    BY <2>1, ReadAnswers, Called DEF Ops, Checked
  <2>3. QED BY <2>1, <2>2 DEF Call, CallInv, ArgsInv
<1>10. CASE CallRender
  <2>1. PICK a \in Units, c \in Currencies :
          Call([op |-> "render", a |-> a], Then(Render(a, c), Parse))
    BY <1>10 DEF CallRender
  <2>2. ResultInv'
    BY <2>1, RenderAnswers, Called DEF Ops, Checked
  <2>3. a \in Int /\ Then(Render(a, c), Parse) = TryFromUnits(a)
    BY UnitsAreInt, CodecBack
  <2> HIDE DEF Then
  <2>4. Call([op |-> "render", a |-> a], TryFromUnits(a))
    BY <2>1, <2>3
  <2>5. QED BY <2>2, <2>3, <2>4 DEF Call, CallInv, ArgsInv
<1>11. CASE CallCarry
  <2>1. PICK form \in Forms, a \in Money, c \in Currencies, reader \in Currencies :
          Call([op |-> "carry", form |-> form, a |-> a, codes |-> <<c>>, readers |-> <<reader>>],
               CarryMoney(form, c, a, reader))
    BY <1>11 DEF CallCarry
  <2>2. ResultInv'
    BY <2>1, CarryAnswers, Called DEF Ops, Checked
  <2>3. Carried(CarryMoney(form, c, a, reader), form, a, <<c>>, <<reader>>)
    BY MoneyCarried
  <2>4. QED BY <2>1, <2>2, <2>3 DEF Call, CallInv, ArgsInv
<1>12. CASE CallCarryRate
  <2>1. PICK form \in Forms \ {"cast"}, rate \in Units, pair \in Currencies \X Currencies,
             b \in Currencies, quote \in Currencies :
          /\ TryRate(rate).tag = "Ok"
          /\ Call([op |-> "carry", form |-> form, a |-> rate, codes |-> pair,
                   readers |-> <<b, quote>>],
                  CarryRate(form, pair, rate, b, quote))
    BY <1>12 DEF CallCarryRate
  <2>2. ResultInv'
    BY <2>1, CarryAnswers, Called DEF Ops, Checked
  <2>3. Carried(CarryRate(form, pair, rate, b, quote), form, rate, pair, <<b, quote>>)
    BY <2>1, RateCarried
  <2>4. QED BY <2>1, <2>2, <2>3 DEF Call, CallInv, ArgsInv
<1>13. CASE CallDisplay
  <2>1. PICK a \in Units, c \in Currencies, shown \in Currencies, d \in Displays, prefix \in BOOLEAN,
             digits \in 0 .. Places + 1 :
          Call([op |-> "display", a |-> a, symbol |-> d.symbol, group |-> d.group, decimal |-> d.decimal],
               Then(PolicyOf(c, d.symbol, prefix, d.group, d.decimal, d.grouping, digits),
                    LAMBDA p : RenderUnits(p, a, shown)))
    BY <1>13 DEF CallDisplay
  <2> DEFINE symbol == d.symbol
             group == d.group
             decimal == d.decimal
             grouping == d.grouping
  <2>2. symbol \in Seq(Chars) /\ group \in Seq(Chars) /\ decimal \in Seq(Chars)
    BY MoneyCallsAssumption
  <2>3. Call([op |-> "display", a |-> a, symbol |-> symbol, group |-> group, decimal |-> decimal],
             Then(PolicyOf(c, symbol, prefix, group, decimal, grouping, digits),
                  LAMBDA p : RenderUnits(p, a, shown)))
    BY <2>1
  <2> HIDE DEF symbol, group, decimal, grouping
  <2> DEFINE shows == Then(PolicyOf(c, symbol, prefix, group, decimal, grouping, digits),
                           LAMBDA p : RenderUnits(p, a, shown))
  <2>4. Answer(shows)
    BY DisplayAnswers DEF Then
  <2>5. Call([op |-> "display", a |-> a, symbol |-> symbol, group |-> group, decimal |-> decimal], shows)
    BY <2>3
  <2>6. Displayed(shows, symbol, group, decimal, a)
    <3>1. a \in Int /\ digits \in Nat
      BY UnitsAreInt, TextAssumption
    <3>2. QED BY <2>2, <3>1, DisplayShows, ZenonT(60) DEF Then
  <2> HIDE DEF shows
  <2>7. ResultInv'
    BY <2>4, <2>5, Called DEF Ops, Checked
  <2>8. QED BY <2>5, <2>6, <2>7 DEF Call, CallInv, ArgsInv
<1>14. CASE Fund
  <2>1. PICK a \in Units : Call([op |-> "ledger", a |-> a], TryFromUnits(a))
    BY <1>14 DEF Fund
  <2>2. a \in Int
    BY UnitsAreInt
  <2>3. ResultInv'
    BY <2>1, DomainAnswers, Called DEF Ops, Checked
  <2>4. QED BY <2>1, <2>2, <2>3 DEF Call, CallInv, ArgsInv
<1>15. CASE UNCHANGED <<args, result>>
  BY <1>15 DEF CallInv, ResultInv, ArgsInv
<1>16. CASE Obligations
  <2>1. UNCHANGED <<args, result>>
    BY <1>16 DEF Obligations, Divide, TakeResidue, DiscardDivision, DropDivision, PostResidue,
                 DiscardResidue, OpenSplit, NextPart, NoPart, StopSplit, CollectSplit, Allocate,
                 AddAmounts, SumPurse, Spend, Resolve
  <2>2. QED BY <1>15, <2>1
<1>17. CASE Next
  BY <1>1, <1>2, <1>3, <1>4, <1>5, <1>7, <1>8, <1>9, <1>10, <1>11, <1>12, <1>13, <1>15, <1>17,
     <1>6
     DEF Next, Returned, vars
<1>18. QED BY <1>14, <1>15, <1>16, <1>17 DEF LedgerNext, ledgerVars

\* The arguments and results of all calls are those of CallInv.
LEMMA CallsInvariance == LedgerSpec => []CallInv
<1>1. LedgerInit => CallInv
  BY DEF LedgerInit, Init, CallInv, ResultInv, ArgsInv, Ops
<1>2. QED BY <1>1, CallsInv, PTL DEF LedgerSpec

\* What every call returns has its tag and its value, and an amount that is handed
\* out is money (domain.rs:32-38).
THEOREM CallsTyped == LedgerSpec => []TypeOK
<1>1. CallInv => TypeOK
  BY DEF CallInv, ResultInv, TypeOK, Answer, Checked
<1>2. QED BY <1>1, CallsInvariance, PTL

\* For any amount, divisor, slice of weights and rate: an allocation's products fit
\* an I256, its total, its shares and what they leave an i128, it never has more
\* units left than claims, and its parts are money (arithmetic/kernel/allocate.rs:38-71,
\* allocation/allocate.rs:22); so are the parts of a split
\* (allocation/split.rs:36, 47-48, 104, 111); a quotient and a residue fit an i128
\* (divide.rs:30-31), and no product of a conversion outgrows an I256
\* (rate/convert.rs:23-25, 37-39).
THEOREM NoPanic == LedgerSpec => []NeverPanics
<1>1. CallInv => NeverPanics
  BY DEF CallInv, ResultInv, NeverPanics, Answer
<1>2. QED BY <1>1, CallsInvariance, PTL

\* A division loses nothing, in every mode and on both signs: quotient and residue
\* are the ones the mode names and are money (rounding.rs:83-84,
\* arithmetic/typed.rs:112-113).
THEOREM DivisionsExact == LedgerSpec => []DivisionExact
<1>1. CallInv => DivisionExact
  BY DivisionOk DEF CallInv, ArgsInv, DivisionExact
<1>2. QED BY <1>1, CallsInvariance, PTL

\* An allocation pays out the amount to the unit, each position its share to within
\* a unit, and equal claims in order (arithmetic/kernel/allocate.rs:7-16).
THEOREM AllocationsPayOut == LedgerSpec => []AllocationFair
<1>1. CallInv => AllocationFair
  BY AllocationsFair DEF CallInv, ArgsInv, AllocationFair
<1>2. QED BY <1>1, CallsInvariance, PTL

\* A conversion rounds once, over one leg or two, and neither width ever refuses
\* one whose result is money (rate/convert.rs:83-95).
THEOREM ConversionsRoundOnce == LedgerSpec => []ConvertsOnce
<1>1. CallInv => ConvertsOnce
  BY ConvertOnce, ConvertViaOnce DEF CallInv, ArgsInv, ConvertsOnce
<1>2. QED BY <1>1, CallsInvariance, PTL

\* A text is read as exactly the number it spells, or refused because it spells
\* none, has too many places or names no money: for every text of characters, at
\* any scale (text/mod.rs:28-33).
LEMMA ParsedAsSpelled == CallInv => ReadsAsSpelled
<1>1. Texts \subseteq Seq(Nat)
  <2>1. Chars \subseteq Nat
    BY TextAssumption DEF Chars
  <2>2. QED BY <2>1, SeqMonotonic, MoneyCallsAssumption
<1>2. ASSUME CallInv, args.op = "parse" PROVE ReadsAsSpelled
  <2>1. args.text \in Seq(Nat) /\ result = {ParseAmount(args.text)}
    BY <1>1, <1>2 DEF CallInv, ArgsInv
  <2> DEFINE r == ParseAmount(args.text)
  <2>2. /\ r.tag = "Ok" => IsDecimal(args.text) /\ Spells(args.text, <<Point>>, r.value)
        /\ IsDecimal(args.text) /\ Spelled(args.text, <<Point>>).places =< Places =>
             r.tag = "Ok" \/ ~\E u \in Money : Spells(args.text, <<Point>>, u)
    BY <2>1, ParsesAsSpelled
  <2> HIDE DEF r
  <2>3. result = {r}
    BY <2>1 DEF r
  <2>4. QED BY <2>2, <2>3 DEF ReadsAsSpelled
<1>3. QED BY <1>2 DEF ReadsAsSpelled

\* One value in six spellings is one value, for every text, amount, rate and
\* currency, at any scale: a text is read as the number it spells or refused
\* (text/mod.rs:28-33); what is written in any form is read back as the same number
\* under the same currency and as a wrong currency, base before quote, under another
\* (wire/mod.rs:34-35, adapters/codec.rs:12-19); and what a person is shown spells the
\* amount under every grouping, symbol and separators, of any length, that hold no
\* digit, with no minus at the head of the symbol (locale/mod.rs:13-14). Nothing is
\* said of a policy with digits in a separator, which is accepted too
\* (locale/policy.rs:115-129).
THEOREM ReadBack == LedgerSpec => []ReadsBack
<1>1. CallInv => FormsReadBack
  BY DEF CallInv, ArgsInv, FormsReadBack, Carried
<1>2. CallInv => ShowsTheAmount
  BY DEF CallInv, ArgsInv, ShowsTheAmount, Displayed
<1>3. CallInv => ReadsBack
  BY <1>1, <1>2, ParsedAsSpelled DEF ReadsBack
<1>4. QED BY <1>3, CallsInvariance, PTL

-----------------------------------------------------------------------------
(* The ledger. *)

DivisionRecord ==
    {o \in [kind : {"division"}, of : Money, n : Divisors, quotient : Money, residue : Money] :
       o.quotient * o.n + o.residue = o.of}

ResidueRecord == [kind : {"residue"}, units : Money]

SplitRecord ==
    {o \in [kind : {"split"}, of : Money, count : Divisors, next : Nat,
            parts : {Split(a, n) : a \in Money, n \in Divisors}] :
       o.parts = Split(o.of, o.count) /\ o.next =< o.count}

Obligation == DivisionRecord \cup ResidueRecord \cup SplitRecord

Debts(s) == [k \in DOMAIN s |-> Owed(s[k])]

Total == SumOf(purse) + SumOf(Debts(open)) + posted + lost

\* Everything held is money, a division makes up its amount, the parts of a split
\* are those of its amount; nothing is held before the purse is funded, and then
\* the amount that funded it is all there.
LedgerInv ==
    /\ purse \in Seq(Money) /\ open \in Seq(Obligation) /\ posted \in Int /\ lost \in Int
    /\ ~Funded => purse = <<>> /\ open = <<>> /\ posted = 0 /\ lost = 0
    /\ Funded /\ (\E r \in result : r.tag = "Ok") => Total = args.a

\* The sum of integers is one.
LEMMA SumIsInt == ASSUME NEW s \in Seq(Int) PROVE SumOf(s) \in Int
<1>1. \E p : Partial(s, p)
  BY SumIs
<1>2. QED BY <1>1, SumFrom

\* A sequence of money is one of integers.
LEMMA MoneySeq == ASSUME NEW s \in Seq(Money) PROVE s \in Seq(Int)
BY UnitsAreInt, SeqMonotonic

\* What each kind of obligation owes.
LEMMA OwedIs ==
    ASSUME NEW o \in Obligation
    PROVE  /\ Owed(o) \in Int
           /\ o \in DivisionRecord => o.kind = "division" /\ Owed(o) = o.of
           /\ o \in ResidueRecord => o.kind = "residue" /\ Owed(o) = o.units
           /\ o \in SplitRecord => o.kind = "split" /\ Owed(o) = o.of - Handed(o.parts, o.next)
<1>1. CASE o \in DivisionRecord
  <2>1. o.kind = "division" /\ o.of \in Money
    BY <1>1 DEF DivisionRecord
  <2>2. Owed(o) = o.of
    BY <2>1 DEF Owed
  <2>3. o \notin ResidueRecord /\ o \notin SplitRecord
    BY <2>1 DEF ResidueRecord, SplitRecord
  <2>4. QED BY <2>1, <2>2, <2>3, UnitsAreInt
<1>2. CASE o \in ResidueRecord
  <2>1. o.kind = "residue" /\ o.units \in Money
    BY <1>2 DEF ResidueRecord
  <2>2. Owed(o) = o.units
    BY <2>1 DEF Owed
  <2>3. o \notin DivisionRecord /\ o \notin SplitRecord
    BY <2>1 DEF DivisionRecord, SplitRecord
  <2>4. QED BY <2>1, <2>2, <2>3, UnitsAreInt
<1>3. CASE o \in SplitRecord
  <2>1. o.kind = "split" /\ o.of \in Money /\ o.count \in Divisors /\ o.next \in Nat
        /\ o.parts = Split(o.of, o.count) /\ o.next =< o.count
    BY <1>3 DEF SplitRecord
  <2>2. Owed(o) = SumOf(Ahead(o))
    BY <2>1 DEF Owed
  <2>3. o.next \in 0 .. o.count
    BY <2>1, Widths
  <2>4. SumOf(Ahead(o)) = o.of - Handed(Split(o.of, o.count), o.next) /\ SumOf(Ahead(o)) \in Int
    BY <2>1, <2>3, AheadSum
  <2>5. o \notin DivisionRecord /\ o \notin ResidueRecord
    BY <2>1 DEF DivisionRecord, ResidueRecord
  <2>6. QED BY <2>1, <2>2, <2>4, <2>5
<1>4. QED BY <1>1, <1>2, <1>3 DEF Obligation

\* The debts, one by one.
LEMMA DebtsAre ==
    ASSUME NEW s \in Seq(Obligation)
    PROVE  /\ Debts(s) \in Seq(Int) /\ Len(Debts(s)) = Len(s) /\ SumOf(Debts(s)) \in Int
           /\ \A k \in 1 .. Len(s) : Debts(s)[k] = Owed(s[k]) /\ s[k] \in Obligation
<1>1. DOMAIN s = 1 .. Len(s) /\ Len(s) \in Nat /\ \A k \in 1 .. Len(s) : s[k] \in Obligation
  OBVIOUS
<1>2. \A k \in 1 .. Len(s) : Owed(s[k]) \in Int
  BY <1>1, OwedIs
<1>3. Debts(s) = [k \in 1 .. Len(s) |-> Owed(s[k])]
  BY <1>1 DEF Debts
<1>4. Debts(s) \in [1 .. Len(s) -> Int]
  BY <1>2, <1>3
<1>5. Debts(s) \in Seq(Int) /\ Len(Debts(s)) = Len(s)
  BY <1>1, <1>4
<1>6. QED BY <1>1, <1>3, <1>5, SumIsInt

\* An obligation opened adds what it owes.
LEMMA DebtsAppend ==
    ASSUME NEW s \in Seq(Obligation), NEW o \in Obligation
    PROVE  Append(s, o) \in Seq(Obligation) /\ SumOf(Debts(Append(s, o))) = SumOf(Debts(s)) + Owed(o)
<1> DEFINE t == Append(s, o)
           d == Debts(s)
           e == Append(d, Owed(o))
<1>1. /\ t \in Seq(Obligation) /\ Len(t) = Len(s) + 1
      /\ (\A i \in 1 .. Len(s) : t[i] = s[i]) /\ t[Len(s) + 1] = o
  BY AppendProperties
<1>2. d \in Seq(Int) /\ Len(d) = Len(s) /\ \A k \in 1 .. Len(s) : d[k] = Owed(s[k])
  BY DebtsAre
<1>3. Owed(o) \in Int
  BY OwedIs
<1>4. /\ e \in Seq(Int) /\ Len(e) = Len(d) + 1
      /\ (\A i \in 1 .. Len(d) : e[i] = d[i]) /\ e[Len(d) + 1] = Owed(o)
  BY <1>2, <1>3, AppendProperties
<1>5. SumOf(e) = SumOf(d) + Owed(o)
  BY <1>2, <1>3, SumAppend
<1>6. Debts(t) \in Seq(Int) /\ Len(Debts(t)) = Len(t) /\ \A k \in 1 .. Len(t) : Debts(t)[k] = Owed(t[k])
  BY <1>1, DebtsAre
<1>7. Len(s) \in Nat
  OBVIOUS
<1> HIDE DEF t, d, e
<1>8. ASSUME NEW k \in 1 .. Len(t) PROVE Debts(t)[k] = e[k]
  <2>1. CASE k = Len(s) + 1
    BY <1>1, <1>2, <1>4, <1>6, <2>1
  <2>2. CASE k \in 1 .. Len(s)
    BY <1>1, <1>2, <1>4, <1>6, <2>2
  <2>3. QED BY <1>1, <1>7, <2>1, <2>2
<1>9. Debts(t) = e
  BY <1>1, <1>2, <1>4, <1>6, <1>8, SeqEqual
<1>10. QED BY <1>1, <1>5, <1>9 DEF t, d

\* An obligation resolved takes what it owed with it.
LEMMA DebtsRemoved ==
    ASSUME NEW s \in Seq(Obligation), NEW k \in 1 .. Len(s)
    PROVE  /\ RemoveAt(s, k) \in Seq(Obligation)
           /\ SumOf(Debts(RemoveAt(s, k))) = SumOf(Debts(s)) - Owed(s[k])
<1> DEFINE t == RemoveAt(s, k)
           d == Debts(s)
           e == RemoveAt(d, k)
<1>1. /\ t \in Seq(Obligation) /\ Len(t) = Len(s) - 1
      /\ \A j \in 1 .. Len(s) - 1 : t[j] = IF j < k THEN s[j] ELSE s[j + 1]
  BY Removed
<1>2. d \in Seq(Int) /\ Len(d) = Len(s) /\ \A j \in 1 .. Len(s) : d[j] = Owed(s[j])
  BY DebtsAre
<1>3. /\ e \in Seq(Int) /\ Len(e) = Len(s) - 1
      /\ \A j \in 1 .. Len(s) - 1 : e[j] = IF j < k THEN d[j] ELSE d[j + 1]
  BY <1>2, Removed
<1>4. SumOf(e) = SumOf(d) - d[k]
  BY <1>2, SumRemoved
<1>5. Debts(t) \in Seq(Int) /\ Len(Debts(t)) = Len(t) /\ \A j \in 1 .. Len(t) : Debts(t)[j] = Owed(t[j])
  BY <1>1, DebtsAre
<1>6. Len(s) \in Nat
  OBVIOUS
<1> HIDE DEF t, d, e
<1>7. ASSUME NEW j \in 1 .. Len(t) PROVE Debts(t)[j] = e[j]
  <2>1. j \in 1 .. Len(s) - 1 /\ j \in 1 .. Len(s) /\ j + 1 \in 1 .. Len(s)
    BY <1>1, <1>6
  <2>2. CASE j < k
    BY <1>1, <1>2, <1>3, <1>5, <2>1, <2>2
  <2>3. CASE ~(j < k)
    BY <1>1, <1>2, <1>3, <1>5, <2>1, <2>3
  <2>4. QED BY <2>2, <2>3
<1>8. Debts(t) = e
  BY <1>1, <1>3, <1>5, <1>7, SeqEqual
<1>9. QED BY <1>1, <1>2, <1>4, <1>8 DEF t, d

\* An obligation replaced brings what the new one owes.
LEMMA DebtsReplaced ==
    ASSUME NEW s \in Seq(Obligation), NEW k \in 1 .. Len(s), NEW o \in Obligation
    PROVE  /\ [s EXCEPT ![k] = o] \in Seq(Obligation)
           /\ SumOf(Debts([s EXCEPT ![k] = o])) = SumOf(Debts(s)) - Owed(s[k]) + Owed(o)
<1> DEFINE t == [s EXCEPT ![k] = o]
           d == Debts(s)
           e == [d EXCEPT ![k] = Owed(o)]
<1>1. /\ t \in Seq(Obligation) /\ Len(t) = Len(s)
      /\ \A j \in 1 .. Len(s) : t[j] = IF j = k THEN o ELSE s[j]
  BY ExceptSeq
<1>2. d \in Seq(Int) /\ Len(d) = Len(s) /\ \A j \in 1 .. Len(s) : d[j] = Owed(s[j])
  BY DebtsAre
<1>3. Owed(o) \in Int
  BY OwedIs
<1>4. /\ e \in Seq(Int) /\ Len(e) = Len(s)
      /\ \A j \in 1 .. Len(s) : e[j] = IF j = k THEN Owed(o) ELSE d[j]
  BY <1>2, <1>3, ExceptSeq
<1>5. SumOf(e) = SumOf(d) - d[k] + Owed(o)
  BY <1>2, <1>3, SumExcept
<1>6. Debts(t) \in Seq(Int) /\ Len(Debts(t)) = Len(t) /\ \A j \in 1 .. Len(t) : Debts(t)[j] = Owed(t[j])
  BY <1>1, DebtsAre
<1> HIDE DEF t, d, e
<1>7. ASSUME NEW j \in 1 .. Len(t) PROVE Debts(t)[j] = e[j]
  <2>1. CASE j = k
    BY <1>1, <1>4, <1>6, <2>1
  <2>2. CASE j # k
    BY <1>1, <1>2, <1>4, <1>6, <2>2
  <2>3. QED BY <2>1, <2>2
<1>8. Debts(t) = e
  BY <1>1, <1>4, <1>6, <1>7, SeqEqual
<1>9. QED BY <1>1, <1>2, <1>5, <1>8 DEF t, d

\* All parts of the total are integers.
LEMMA TotalIsInt ==
    ASSUME LedgerInv
    PROVE  /\ purse \in Seq(Int) /\ SumOf(purse) \in Int /\ SumOf(Debts(open)) \in Int
           /\ Total \in Int
<1>1. purse \in Seq(Int) /\ SumOf(purse) \in Int
  BY MoneySeq, SumIsInt DEF LedgerInv
<1>2. SumOf(Debts(open)) \in Int
  BY DebtsAre DEF LedgerInv
<1>3. QED BY <1>1, <1>2 DEF LedgerInv, Total

\* A step that leaves the total and the calls alone.
LEMMA Kept ==
    ASSUME LedgerInv, UNCHANGED <<args, result>>, Funded, Total' = Total,
           purse' \in Seq(Money), open' \in Seq(Obligation), posted' \in Int, lost' \in Int
    PROVE  LedgerInv'
BY DEF LedgerInv, Funded

\* An amount of the purse becomes an obligation that owes it.
LEMMA SpendInv ==
    ASSUME LedgerInv, NEW i \in DOMAIN purse, NEW o \in Obligation, Owed(o) = purse[i],
           Spend(i, o)
    PROVE  LedgerInv'
<1>1. /\ purse' = RemoveAt(purse, i) /\ open' = Append(open, o)
      /\ UNCHANGED <<args, result, posted, lost>>
  BY DEF Spend
<1>2. i \in 1 .. Len(purse) /\ purse \in Seq(Money)
  BY DEF LedgerInv
<1>3. Funded
  BY <1>2 DEF LedgerInv
<1>4. purse \in Seq(Int) /\ SumOf(purse) \in Int /\ SumOf(Debts(open)) \in Int
  BY TotalIsInt
<1>5. purse' \in Seq(Money)
  BY <1>1, <1>2, Removed
<1>6. SumOf(purse') = SumOf(purse) - purse[i] /\ purse[i] \in Int
  BY <1>1, <1>2, <1>4, SumRemoved
<1>7. open' \in Seq(Obligation) /\ SumOf(Debts(open')) = SumOf(Debts(open)) + Owed(o)
  BY <1>1, DebtsAppend DEF LedgerInv
<1>8. Total' = Total
  <2>1. Total' = SumOf(purse') + SumOf(Debts(open')) + posted + lost
    BY <1>1 DEF Total, Debts
  <2>2. posted \in Int /\ lost \in Int
    BY DEF LedgerInv
  <2>3. QED BY <1>4, <1>6, <1>7, <2>1, <2>2 DEF Total
<1>9. posted' \in Int /\ lost' \in Int
  BY <1>1 DEF LedgerInv
<1>10. QED BY <1>1, <1>3, <1>5, <1>7, <1>8, <1>9, Kept

\* An obligation hands out amounts, and leaves another or nothing; what is
\* posted or given up makes up the rest of what it owed.
LEMMA ResolveInv ==
    ASSUME LedgerInv, NEW k \in DOMAIN open, NEW amounts \in Seq(Money), NEW left,
           Resolve(k, amounts, left),
           NEW owes \in Int, NEW spent \in Int,
           \/ left = {} /\ owes = 0
           \/ \E o \in Obligation : left = {o} /\ owes = Owed(o),
           posted' \in Int, lost' \in Int, posted' + lost' = posted + lost + spent,
           SumOf(amounts) + owes + spent = Owed(open[k])
    PROVE  LedgerInv'
<1>1. /\ purse' = purse \o amounts
      /\ open' = IF left = {} THEN RemoveAt(open, k)
                 ELSE [open EXCEPT ![k] = CHOOSE o \in left : TRUE]
      /\ UNCHANGED <<args, result>>
  BY DEF Resolve
<1>2. purse \in Seq(Money) /\ open \in Seq(Obligation) /\ k \in 1 .. Len(open)
      /\ posted \in Int /\ lost \in Int
  BY DEF LedgerInv
<1>3. Funded
  BY <1>2 DEF LedgerInv
<1>4. purse \in Seq(Int) /\ SumOf(purse) \in Int /\ SumOf(Debts(open)) \in Int
  BY TotalIsInt
<1>5. purse' \in Seq(Money)
  BY <1>1, <1>2, ConcatProperties
<1>6. amounts \in Seq(Int) /\ SumOf(amounts) \in Int
  BY MoneySeq, SumIsInt
<1>7. SumOf(purse') = SumOf(purse) + SumOf(amounts)
  BY <1>1, <1>4, <1>6, SumConcat
<1>8. open' \in Seq(Obligation) /\ SumOf(Debts(open')) = SumOf(Debts(open)) - Owed(open[k]) + owes
  <2>1. CASE left = {} /\ owes = 0
    <3>1. open' = RemoveAt(open, k)
      BY <1>1, <2>1
    <3>2. open' \in Seq(Obligation) /\ SumOf(Debts(open')) = SumOf(Debts(open)) - Owed(open[k])
      BY <1>2, <3>1, DebtsRemoved
    <3>3. open[k] \in Obligation
      BY <1>2
    <3>4. Owed(open[k]) \in Int
      BY <3>3, OwedIs
    <3>5. QED BY <1>4, <2>1, <3>2, <3>4
  <2>2. ASSUME NEW o \in Obligation, left = {o}, owes = Owed(o)
        PROVE  open' \in Seq(Obligation)
               /\ SumOf(Debts(open')) = SumOf(Debts(open)) - Owed(open[k]) + owes
    <3>1. open' = [open EXCEPT ![k] = o]
      BY <1>1, <2>2
    <3>2. QED BY <1>2, <2>2, <3>1, DebtsReplaced
  <2>3. QED BY <2>1, <2>2
<1>9. Total' = Total
  <2>1. Total' = SumOf(purse') + SumOf(Debts(open')) + posted' + lost'
    BY DEF Total, Debts
  <2>2. open[k] \in Obligation
    BY <1>2
  <2>3. Owed(open[k]) \in Int
    BY <2>2, OwedIs
  <2> DEFINE p  == SumOf(purse)
             p2 == SumOf(purse')
             m  == SumOf(amounts)
             d  == SumOf(Debts(open))
             d2 == SumOf(Debts(open'))
             o  == Owed(open[k])
  <2>4. /\ p \in Int /\ m \in Int /\ d \in Int /\ o \in Int
        /\ p2 = p + m /\ d2 = d - o + owes /\ m + owes + spent = o
    BY <1>4, <1>6, <1>7, <1>8, <2>3
  <2> HIDE DEF p, p2, m, d, d2, o
  <2>5. p2 \in Int /\ d2 \in Int /\ p2 + d2 = p + d - spent
    BY <2>4
  <2> DEFINE q  == posted
             q2 == posted'
             l  == lost
             l2 == lost'
  <2>6. q2 \in Int /\ l2 \in Int /\ q \in Int /\ l \in Int /\ q2 + l2 = q + l + spent
    BY <1>2
  <2>7. Total' = p2 + d2 + q2 + l2 /\ Total = p + d + q + l
    BY <2>1 DEF Total, p, p2, d, d2
  <2> HIDE DEF q, q2, l, l2
  <2>8. p \in Int /\ d \in Int /\ spent \in Int
    BY <2>4
  <2>9. p2 + d2 + q2 + l2 = p + d + q + l
    BY <2>5, <2>6, <2>8
  <2>10. QED BY <2>9, <2>7
<1>10. QED BY <1>1, <1>3, <1>5, <1>8, <1>9, Kept

\* What kind of obligation each is, by its kind.
LEMMA KindOf ==
    ASSUME NEW o \in Obligation
    PROVE  /\ o.kind = "division" => o \in DivisionRecord
           /\ o.kind = "residue" => o \in ResidueRecord
           /\ o.kind = "split" => o \in SplitRecord
BY OwedIs DEF Obligation

\* What is drawn from the purse is money.
LEMMA Drawn ==
    ASSUME LedgerInv, NEW i \in DOMAIN purse PROVE purse[i] \in Money /\ purse[i] \in Int
<1>1. purse \in Seq(Money)
  BY DEF LedgerInv
<1>2. purse[i] \in Money
  BY <1>1
<1>3. QED BY <1>2, UnitsAreInt

\* Funding puts the whole amount in the purse, if it is money.
LEMMA FundInv == ASSUME LedgerInv, Fund PROVE LedgerInv'
<1>1. PICK a \in Units : /\ Call([op |-> "ledger", a |-> a], TryFromUnits(a))
                         /\ purse' = IF InDomain(a) THEN <<a>> ELSE <<>>
  BY DEF Fund
<1>2. purse = <<>> /\ open = <<>> /\ posted = 0 /\ lost = 0
  BY DEF LedgerInv, Fund, Idle, Funded
<1>3. UNCHANGED <<open, posted, lost>> /\ args'.a = a /\ Funded' /\ result' = {TryFromUnits(a)}
  BY <1>1 DEF Fund, Call, Funded
<1>4. SumOf(Debts(open')) = 0
  <2>1. Debts(<<>>) = <<>>
    BY DEF Debts
  <2>2. QED BY <1>2, <1>3, <2>1, SumEmpty
<1>5. open' \in Seq(Obligation) /\ posted' = 0 /\ lost' = 0 /\ posted' \in Int /\ lost' \in Int
  BY <1>2, <1>3
<1>6. CASE InDomain(a)
  <2>1. a \in Money /\ a \in Int
    BY <1>6, UnitsAreInt DEF InDomain, Units, Money
  <2>2. purse' = <<a>> /\ purse' \in Seq(Money)
    BY <1>1, <1>6, <2>1
  <2>3. SumOf(purse') = a
    BY <2>1, <2>2, SumAppend, EmptySeq
  <2>4. Total' = a
    <3>1. Total' = SumOf(purse') + SumOf(Debts(open')) + posted' + lost'
      BY DEF Total, Debts
    <3>2. QED BY <1>4, <1>5, <2>1, <2>3, <3>1
  <2>5. QED BY <1>3, <1>5, <2>2, <2>4 DEF LedgerInv
<1>7. CASE ~InDomain(a)
  <2>1. purse' = <<>> /\ purse' \in Seq(Money)
    BY <1>1, <1>7
  <2>2. \A r \in result' : r.tag # "Ok"
    BY <1>3, <1>7 DEF TryFromUnits, OutOfDomain
  <2>3. QED BY <1>3, <1>5, <2>1, <2>2 DEF LedgerInv
<1>8. QED BY <1>6, <1>7

\* A division owes the amount it divides.
LEMMA DivideInv == ASSUME LedgerInv, Divide PROVE LedgerInv'
<1>1. PICK i \in DOMAIN purse, n \in Counts, mode \in Modes :
        LET d == DivIntUnits(purse[i], n, mode) IN
        /\ d.tag = "Ok"
        /\ Spend(i, [kind |-> "division", of |-> purse[i], n |-> n,
                     quotient |-> d.value.quotient, residue |-> d.value.residue])
  BY DEF Divide
<1> DEFINE v == DivIntUnits(purse[i], n, mode).value
           o == [kind |-> "division", of |-> purse[i], n |-> n,
                 quotient |-> v.quotient, residue |-> v.residue]
<1>2. purse[i] \in Money /\ purse[i] \in Int /\ n \in Divisors
  BY Drawn, LedgerAssumption
<1>3. v.quotient * n + v.residue = purse[i] /\ v.quotient \in Money /\ v.residue \in Money
  BY <1>1, <1>2, DivisionOk
<1>4. o \in Obligation /\ Owed(o) = purse[i]
  <2> HIDE DEF v
  <2>1. o \in DivisionRecord
    BY <1>2, <1>3 DEF DivisionRecord
  <2>2. o \in Obligation
    BY <2>1 DEF Obligation
  <2>3. Owed(o) = o.of
    BY <2>1, <2>2, OwedIs
  <2>4. QED BY <2>2, <2>3
<1>5. Spend(i, o)
  BY <1>1
<1> HIDE DEF o
<1>6. QED BY <1>4, <1>5, SpendInv

\* A split that has handed out nothing owes its amount.
LEMMA OpenSplitInv == ASSUME LedgerInv, OpenSplit PROVE LedgerInv'
<1>1. PICK i \in DOMAIN purse, n \in Counts :
        Spend(i, [kind |-> "split", of |-> purse[i], parts |-> Split(purse[i], n), next |-> 0,
                  count |-> n])
  BY DEF OpenSplit
<1> DEFINE o == [kind |-> "split", of |-> purse[i], parts |-> Split(purse[i], n), next |-> 0,
                 count |-> n]
<1>2. purse[i] \in Money /\ purse[i] \in Int /\ n \in Divisors /\ n \in Nat
  BY Drawn, LedgerAssumption, Widths
<1>3. o \in SplitRecord
  BY <1>2 DEF SplitRecord
<1>4. o \in Obligation
  BY <1>3 DEF Obligation
<1>5. Owed(o) = purse[i] - Handed(Split(purse[i], n), 0)
  BY <1>3, <1>4, OwedIs
<1>6. Handed(Split(purse[i], n), 0) = 0
  BY <1>2, SplitExact
<1>7. Owed(o) = purse[i]
  BY <1>2, <1>5, <1>6
<1> HIDE DEF o
<1>8. Spend(i, o)
  BY <1>1 DEF o
<1>9. QED BY <1>4, <1>7, <1>8, SpendInv

\* Nothing is left of the obligation.
LEMMA ResolveNone ==
    ASSUME LedgerInv, NEW k \in DOMAIN open, NEW amounts \in Seq(Money), Resolve(k, amounts, {}),
           NEW spent \in Int, posted' \in Int, lost' \in Int,
           posted' + lost' = posted + lost + spent, SumOf(amounts) + spent = Owed(open[k])
    PROVE  LedgerInv'
<1> DEFINE owes == 0
           left == {}
<1>1. /\ owes \in Int /\ Resolve(k, amounts, left)
      /\ \/ left = {} /\ owes = 0
         \/ \E o \in Obligation : left = {o} /\ owes = Owed(o)
  OBVIOUS
<1>2. SumOf(amounts) \in Int
  BY MoneySeq, SumIsInt
<1>3. SumOf(amounts) + owes + spent = Owed(open[k])
  BY <1>2
<1> HIDE DEF owes, left
<1>4. QED BY <1>1, <1>3, ResolveInv

\* Nothing is left of the obligation, and what it owed is handed out.
LEMMA ResolveEven ==
    ASSUME LedgerInv, NEW k \in DOMAIN open, NEW amounts \in Seq(Money), Resolve(k, amounts, {}),
           UNCHANGED <<posted, lost>>, SumOf(amounts) = Owed(open[k])
    PROVE  LedgerInv'
<1> DEFINE spent == 0
<1>1. spent \in Int /\ posted' \in Int /\ lost' \in Int /\ posted' + lost' = posted + lost + spent
  BY DEF LedgerInv
<1>2. SumOf(amounts) \in Int
  BY MoneySeq, SumIsInt
<1>3. SumOf(amounts) + spent = Owed(open[k])
  BY <1>2
<1> HIDE DEF spent
<1>4. QED BY <1>1, <1>3, ResolveNone

\* Another obligation takes the place of one.
LEMMA ResolveLeaving ==
    ASSUME LedgerInv, NEW k \in DOMAIN open, NEW amounts \in Seq(Money), NEW o \in Obligation,
           Resolve(k, amounts, {o}), UNCHANGED <<posted, lost>>,
           SumOf(amounts) + Owed(o) = Owed(open[k])
    PROVE  LedgerInv'
<1> DEFINE owes  == Owed(o)
           spent == 0
           left  == {o}
<1>1. /\ owes \in Int /\ Resolve(k, amounts, left)
      /\ \/ left = {} /\ owes = 0
         \/ \E q \in Obligation : left = {q} /\ owes = Owed(q)
  BY OwedIs
<1>2. spent \in Int /\ posted' \in Int /\ lost' \in Int /\ posted' + lost' = posted + lost + spent
  BY DEF LedgerInv
<1>3. SumOf(amounts) \in Int
  BY MoneySeq, SumIsInt
<1>4. SumOf(amounts) + owes + spent = Owed(open[k])
  BY <1>1, <1>3
<1> HIDE DEF owes, spent, left
<1>5. QED BY <1>1, <1>2, <1>4, ResolveInv

\* A division is resolved: its shares go to the payees, its residue is kept,
\* given up, or the whole amount comes back.
LEMMA ResolveDivision ==
    ASSUME LedgerInv, NEW k \in Divisions
    PROVE  LET o == open[k] IN
           /\ k \in DOMAIN open /\ o \in DivisionRecord /\ Owed(o) = o.of
           /\ o.of \in Money /\ o.residue \in Money /\ o.of \in Int /\ o.residue \in Int
           /\ Shares(o) \in Seq(Money) /\ SumOf(Shares(o)) \in Int
           /\ SumOf(Shares(o)) + o.residue = o.of
<1> DEFINE o == open[k]
<1>1. k \in DOMAIN open /\ o \in Obligation /\ o.kind = "division"
  BY DEF Divisions, LedgerInv
<1> HIDE DEF o
<1>2. o \in DivisionRecord
  BY <1>1, KindOf
<1>3. Owed(o) = o.of
  BY <1>1, <1>2, OwedIs
<1>4. /\ o.of \in Money /\ o.residue \in Money /\ o.quotient \in Money /\ o.n \in Divisors
      /\ o.quotient * o.n + o.residue = o.of
  BY <1>2 DEF DivisionRecord
<1>5. o.of \in Int /\ o.residue \in Int /\ o.quotient \in Int /\ o.n \in Nat
  BY <1>4, UnitsAreInt, Widths
<1>6. Shares(o) \in Seq(Money)
  <2>1. Shares(o) \in [1 .. o.n -> Money]
    BY <1>4 DEF Shares
  <2>2. QED BY <1>5, <2>1
<1>7. SumOf(Shares(o)) = o.quotient * o.n
  BY <1>5, SumConstant DEF Shares
<1>8. o.quotient * o.n \in Int
  BY <1>5
<1>9. QED BY <1>1, <1>2, <1>3, <1>4, <1>5, <1>6, <1>7, <1>8 DEF o

\* Taking the residue leaves an obligation that owes it.
LEMMA TakeResidueInv == ASSUME LedgerInv, TakeResidue PROVE LedgerInv'
<1>1. PICK k \in Divisions :
        Resolve(k, Shares(open[k]), {[kind |-> "residue", units |-> open[k].residue]})
  BY DEF TakeResidue
<1> DEFINE rest    == [kind |-> "residue", units |-> open[k].residue]
           amounts == Shares(open[k])
           owes    == open[k].residue
<1>2. /\ k \in DOMAIN open /\ Owed(open[k]) = open[k].of /\ owes \in Money
      /\ open[k].of \in Int /\ owes \in Int
      /\ amounts \in Seq(Money) /\ SumOf(amounts) \in Int
      /\ SumOf(amounts) + owes = open[k].of
  BY ResolveDivision
<1>3. rest \in ResidueRecord /\ rest \in Obligation
  BY <1>2 DEF ResidueRecord, Obligation
<1>4. Owed(rest) = owes
  BY <1>3, OwedIs
<1>5. posted' = posted /\ lost' = lost
  BY DEF TakeResidue
<1>6. Resolve(k, amounts, {rest})
  BY <1>1
<1> HIDE DEF rest, amounts, owes
<1>7. SumOf(amounts) + owes = Owed(open[k])
  BY <1>2
<1>8. QED BY <1>2, <1>3, <1>4, <1>5, <1>6, <1>7, ResolveLeaving

\* Discarding gives the residue up by name.
LEMMA DiscardDivisionInv == ASSUME LedgerInv, DiscardDivision PROVE LedgerInv'
<1>1. PICK k \in Divisions : /\ Resolve(k, Shares(open[k]), {})
                             /\ lost' = lost + open[k].residue /\ UNCHANGED posted
  BY DEF DiscardDivision
<1> DEFINE amounts == Shares(open[k])
           spent   == open[k].residue
<1>2. /\ k \in DOMAIN open /\ Owed(open[k]) = open[k].of
      /\ open[k].of \in Int /\ spent \in Int
      /\ amounts \in Seq(Money) /\ SumOf(amounts) \in Int
      /\ SumOf(amounts) + spent = open[k].of
  BY ResolveDivision
<1>3. posted' \in Int /\ lost' \in Int /\ posted' + lost' = posted + lost + spent
  BY <1>1, <1>2 DEF LedgerInv
<1>4. Resolve(k, amounts, {})
  BY <1>1
<1> HIDE DEF amounts, spent
<1>5. SumOf(amounts) + spent = Owed(open[k])
  BY <1>2
<1>6. QED BY <1>2, <1>3, <1>4, <1>5, ResolveNone

\* Dropping an undecided division gives the amount back.
LEMMA DropDivisionInv == ASSUME LedgerInv, DropDivision PROVE LedgerInv'
<1>1. PICK k \in Divisions : Resolve(k, <<open[k].of>>, {})
  BY DEF DropDivision
<1>2. k \in DOMAIN open /\ Owed(open[k]) = open[k].of /\ open[k].of \in Int /\ open[k].of \in Money
  BY ResolveDivision
<1> DEFINE amounts == <<open[k].of>>
<1>3. amounts \in Seq(Money)
  BY <1>2
<1>4. SumOf(amounts) = Owed(open[k])
  BY <1>2, SumAppend, EmptySeq
<1>5. Resolve(k, amounts, {}) /\ UNCHANGED <<posted, lost>>
  BY <1>1 DEF DropDivision
<1> HIDE DEF amounts
<1>6. QED BY <1>2, <1>3, <1>4, <1>5, ResolveEven


\* A residue goes to the ledger's account, or is given up.
LEMMA ResolveResidue ==
    ASSUME LedgerInv, NEW k \in Residues
    PROVE  /\ k \in DOMAIN open /\ Owed(open[k]) = open[k].units
           /\ open[k].units \in Money /\ open[k].units \in Int
           /\ <<>> \in Seq(Money) /\ SumOf(<<>>) + open[k].units = Owed(open[k])
<1>1. k \in DOMAIN open /\ open[k] \in Obligation /\ open[k].kind = "residue"
  BY DEF Residues, LedgerInv
<1>2. open[k] \in ResidueRecord
  BY <1>1, KindOf
<1>3. Owed(open[k]) = open[k].units
  BY <1>1, <1>2, OwedIs
<1>4. open[k].units \in Money /\ open[k].units \in Int
  BY <1>2, UnitsAreInt DEF ResidueRecord
<1>5. QED BY <1>1, <1>3, <1>4, SumEmpty

\* A residue posted is accounted for.
LEMMA PostResidueInv == ASSUME LedgerInv, PostResidue PROVE LedgerInv'
<1>1. PICK k \in Residues : /\ Resolve(k, <<>>, {})
                            /\ posted' = posted + open[k].units /\ UNCHANGED lost
  BY DEF PostResidue
<1> DEFINE spent == open[k].units
<1>2. /\ k \in DOMAIN open /\ spent \in Int /\ <<>> \in Seq(Money)
      /\ SumOf(<<>>) + spent = Owed(open[k])
  BY ResolveResidue
<1>3. posted' \in Int /\ lost' \in Int /\ posted' + lost' = posted + lost + spent
  BY <1>1, <1>2 DEF LedgerInv
<1> HIDE DEF spent
<1>4. QED BY <1>1, <1>2, <1>3, ResolveNone

\* A residue discarded is accounted for.
LEMMA DiscardResidueInv == ASSUME LedgerInv, DiscardResidue PROVE LedgerInv'
<1>1. PICK k \in Residues : /\ Resolve(k, <<>>, {})
                            /\ lost' = lost + open[k].units /\ UNCHANGED posted
  BY DEF DiscardResidue
<1> DEFINE spent == open[k].units
<1>2. /\ k \in DOMAIN open /\ spent \in Int /\ <<>> \in Seq(Money)
      /\ SumOf(<<>>) + spent = Owed(open[k])
  BY ResolveResidue
<1>3. posted' \in Int /\ lost' \in Int /\ posted' + lost' = posted + lost + spent
  BY <1>1, <1>2 DEF LedgerInv
<1> HIDE DEF spent
<1>4. QED BY <1>1, <1>2, <1>3, ResolveNone

\* A half-consumed split owes what its cursor has in front of it.
LEMMA ResolveSplit ==
    ASSUME LedgerInv, NEW k \in Splits
    PROVE  LET o == open[k] IN
           /\ k \in DOMAIN open /\ o \in SplitRecord /\ o \in Obligation
           /\ o.of \in Money /\ o.of \in Int /\ o.count \in Divisors /\ o.count \in Nat
           /\ o.parts = Split(o.of, o.count) /\ o.next \in 0 .. o.count
           /\ Owed(o) = o.of - Handed(o.parts, o.next) /\ Owed(o) \in Int
           /\ Ahead(o) \in Seq(Money) /\ Ahead(o) \in Seq(Int) /\ SumOf(Ahead(o)) = Owed(o)
<1> DEFINE o == open[k]
<1>1. k \in DOMAIN open /\ o \in Obligation /\ o.kind = "split"
  BY DEF Splits, LedgerInv
<1> HIDE DEF o
<1>2. o \in SplitRecord
  BY <1>1, KindOf
<1>3. Owed(o) = o.of - Handed(o.parts, o.next) /\ Owed(o) \in Int
  BY <1>1, <1>2, OwedIs
<1>4. /\ o.of \in Money /\ o.count \in Divisors /\ o.next \in Nat /\ o.next =< o.count
      /\ o.parts = Split(o.of, o.count)
  BY <1>2 DEF SplitRecord
<1>5. o.of \in Int /\ o.count \in Nat
  BY <1>4, UnitsAreInt, Widths
<1>6. o.next \in 0 .. o.count
  BY <1>4, <1>5
<1>7. /\ Ahead(o) \in Seq(Money) /\ Ahead(o) \in Seq(Int)
      /\ SumOf(Ahead(o)) = o.of - Handed(Split(o.of, o.count), o.next)
  BY <1>4, <1>6, AheadSum
<1>8. QED BY <1>1, <1>2, <1>3, <1>4, <1>5, <1>6, <1>7 DEF o

\* A part handed out is no longer ahead.
LEMMA NextPartInv == ASSUME LedgerInv, NextPart PROVE LedgerInv'
<1>1. PICK k \in Splits :
        LET o == open[k] IN
        /\ o.next < o.count
        /\ Resolve(k, <<PartAt(o.parts, o.next)>>, {[o EXCEPT !.next = o.next + 1]})
  BY DEF NextPart
<1> DEFINE o    == open[k]
           m    == o.next
           e    == PartAt(o.parts, m)
           more == [o EXCEPT !.next = m + 1]
<1>2. /\ k \in DOMAIN open /\ o \in SplitRecord
      /\ o.of \in Money /\ o.of \in Int /\ o.count \in Divisors /\ o.count \in Nat
      /\ o.parts = Split(o.of, o.count) /\ m \in 0 .. o.count
      /\ Owed(o) = o.of - Handed(o.parts, m)
  BY ResolveSplit
<1>3. m < o.count /\ Resolve(k, <<e>>, {more})
  BY <1>1
<1>4. more \in SplitRecord /\ more.next = m + 1 /\ more.of = o.of /\ more.parts = o.parts
  <2>1. m + 1 \in Nat /\ m + 1 =< o.count
    BY <1>2, <1>3
  <2>2. more \in [kind : {"split"}, of : Money, count : Divisors, next : Nat,
                  parts : {Split(a, n) : a \in Money, n \in Divisors}]
    BY <1>2, <2>1 DEF SplitRecord
  <2>3. more.next = m + 1 /\ more.of = o.of /\ more.parts = o.parts /\ more.count = o.count
    BY <1>2 DEF SplitRecord
  <2> HIDE DEF more
  <2>4. QED BY <1>2, <2>1, <2>2, <2>3 DEF SplitRecord
<1> HIDE DEF o, m, e, more
<1>5. more \in Obligation
  BY <1>4 DEF Obligation
<1>6. Owed(more) = o.of - Handed(o.parts, m + 1)
  BY <1>4, <1>5, OwedIs
<1>7. m \in 0 .. o.count - 1 /\ m \in 0 .. o.count
  BY <1>2, <1>3
<1>8. e \in Money /\ Handed(o.parts, m + 1) = Handed(o.parts, m) + e /\ Handed(o.parts, m) \in Int
  BY <1>2, <1>7, SplitExact DEF e
<1>9. e \in Int /\ <<e>> \in Seq(Money)
  BY <1>8, UnitsAreInt
<1>10. SumOf(<<e>>) = e
  BY <1>9, SumAppend, EmptySeq
<1>11. e + Owed(more) = Owed(o)
  BY <1>2, <1>6, <1>8, <1>9
<1>12. SumOf(<<e>>) + Owed(more) = Owed(open[k])
  BY <1>10, <1>11 DEF o
<1>13. UNCHANGED <<posted, lost>>
  BY DEF NextPart
<1>14. QED BY <1>2, <1>3, <1>5, <1>9, <1>12, <1>13, ResolveLeaving

\* At its end a split owes nothing.
LEMMA NoPartInv == ASSUME LedgerInv, NoPart PROVE LedgerInv'
<1>1. PICK k \in Splits : open[k].next >= open[k].count /\ Resolve(k, <<>>, {})
  BY DEF NoPart
<1> DEFINE o == open[k]
<1>2. /\ k \in DOMAIN open
      /\ o.of \in Money /\ o.of \in Int /\ o.count \in Divisors /\ o.count \in Nat
      /\ o.parts = Split(o.of, o.count) /\ o.next \in 0 .. o.count
      /\ Owed(o) = o.of - Handed(o.parts, o.next)
  BY ResolveSplit
<1>3. o.next >= o.count
  BY <1>1
<1> HIDE DEF o
<1>4. o.next = o.count
  BY <1>2, <1>3
<1>5. Handed(o.parts, o.count) = o.of
  BY <1>2, SplitExact
<1>6. Owed(o) = 0
  BY <1>2, <1>4, <1>5
<1>7. SumOf(<<>>) = Owed(open[k]) /\ <<>> \in Seq(Money)
  BY <1>6, SumEmpty DEF o
<1>8. UNCHANGED <<posted, lost>>
  BY DEF NoPart
<1>9. QED BY <1>1, <1>2, <1>7, <1>8, ResolveEven

\* What a clone of the cursor adds up to is what the split owes.
LEMMA StopSplitInv == ASSUME LedgerInv, StopSplit PROVE LedgerInv'
<1>1. PICK k \in Splits :
        LET rest == SumUnits(Ahead(open[k])) IN rest.tag = "Ok" /\ Resolve(k, <<rest.value>>, {})
  BY DEF StopSplit
<1> DEFINE e == SumUnits(Ahead(open[k])).value
<1>2. k \in DOMAIN open /\ Ahead(open[k]) \in Seq(Int) /\ SumOf(Ahead(open[k])) = Owed(open[k])
  BY ResolveSplit
<1>3. e = SumOf(Ahead(open[k])) /\ InDomain(e) /\ e \in Int
  BY <1>1, <1>2, SumUnitsOk
<1>4. Resolve(k, <<e>>, {})
  BY <1>1
<1> HIDE DEF e
<1>5. e \in Money
  BY <1>3, Widths DEF InDomain, Money
<1>6. <<e>> \in Seq(Money)
  BY <1>5
<1>7. SumOf(<<e>>) = Owed(open[k])
  BY <1>2, <1>3, SumAppend, EmptySeq
<1>8. UNCHANGED <<posted, lost>>
  BY DEF StopSplit
<1>9. QED BY <1>2, <1>4, <1>6, <1>7, <1>8, ResolveEven

\* Collecting hands out all that is ahead.
LEMMA CollectSplitInv == ASSUME LedgerInv, CollectSplit PROVE LedgerInv'
<1>1. PICK k \in Splits : Resolve(k, Ahead(open[k]), {})
  BY DEF CollectSplit
<1> DEFINE amounts == Ahead(open[k])
<1>2. k \in DOMAIN open /\ amounts \in Seq(Money) /\ SumOf(amounts) = Owed(open[k])
  BY ResolveSplit
<1>3. Resolve(k, amounts, {}) /\ UNCHANGED <<posted, lost>>
  BY <1>1 DEF CollectSplit
<1> HIDE DEF amounts
<1>4. QED BY <1>2, <1>3, ResolveEven

\* An allocation pays out its amount.
LEMMA AllocateInv == ASSUME LedgerInv, Allocate PROVE LedgerInv'
<1>1. PICK i \in DOMAIN purse, w \in PurseWeights :
        LET parts == AllocateMoney(purse[i], w) IN
        /\ parts.tag = "Ok"
        /\ purse' = RemoveAt(purse, i) \o parts.value
        /\ UNCHANGED <<args, result, open, posted, lost>>
  BY DEF Allocate
<1> DEFINE a == purse[i]
           p == RemoveAt(purse, i)
           d == Paid(a, w)
<1>2. a \in Money /\ a \in Int /\ w \in Slices /\ w \in Seq(Weights)
  BY Drawn, LedgerAssumption DEF Slices
<1>3. AllocateMoney(a, w) = Ok(d) /\ SumOf(w) # 0 /\ InDomain(a)
  BY <1>1, <1>2, AllocationIs DEF OutOfDomain, InvalidWeights
<1>4. d \in Seq(Money) /\ SumOf(d) = a
  BY <1>2, <1>3, PaidMoney, PaidSum
<1>5. purse' = p \o d
  BY <1>1, <1>3 DEF Ok
<1>6. purse \in Seq(Money) /\ purse \in Seq(Int) /\ SumOf(purse) \in Int /\ i \in 1 .. Len(purse)
      /\ SumOf(Debts(open)) \in Int /\ posted \in Int /\ lost \in Int
  BY TotalIsInt DEF LedgerInv
<1>7. p \in Seq(Money)
  BY <1>6, Removed
<1>8. SumOf(p) = SumOf(purse) - a
  BY <1>6, SumRemoved
<1> HIDE DEF p, d, a
<1>9. SumOf(purse') = SumOf(p) + SumOf(d)
  BY <1>4, <1>5, <1>7, MoneySeq, SumConcat
<1>10. SumOf(purse') = SumOf(purse)
  BY <1>2, <1>4, <1>6, <1>8, <1>9
<1>11. purse' \in Seq(Money)
  BY <1>4, <1>5, <1>7, ConcatProperties
<1>12. Total' = Total
  BY <1>1, <1>10 DEF Total, Debts
<1>13. Funded
  BY <1>6 DEF LedgerInv
<1>14. UNCHANGED <<args, result, open, posted, lost>>
  BY <1>1
<1>15. QED BY <1>11, <1>12, <1>13, <1>14, Kept DEF LedgerInv

\* Two amounts become their sum.
LEMMA AddAmountsInv == ASSUME LedgerInv, AddAmounts PROVE LedgerInv'
<1>1. PICK i \in DOMAIN purse, j \in DOMAIN purse :
        LET sum == TryAdd(purse[i], purse[j]) IN
        /\ i < j /\ sum.tag = "Ok"
        /\ purse' = RemoveAt([purse EXCEPT ![i] = sum.value], j)
        /\ UNCHANGED <<args, result, open, opened, posted, lost>>
  BY DEF AddAmounts
<1> DEFINE a == purse[i]
           b == purse[j]
           e == TryAdd(a, b).value
           t == [purse EXCEPT ![i] = e]
<1>2. a \in Money /\ a \in Int /\ b \in Money /\ b \in Int
  BY Drawn
<1>3. e \in Money /\ e \in Int
  BY <1>1, <1>2, ArithmeticAnswers, UnitsAreInt
<1>4. e = a + b
  BY <1>1 DEF TryAdd, Ok, OutOfDomain
<1>5. purse \in Seq(Money) /\ purse \in Seq(Int) /\ SumOf(purse) \in Int
      /\ i \in 1 .. Len(purse) /\ j \in 1 .. Len(purse) /\ i # j
  BY <1>1, TotalIsInt DEF LedgerInv
<1>6. i < j /\ purse' = RemoveAt(t, j)
  BY <1>1
<1> HIDE DEF e
<1>7. t \in Seq(Money) /\ Len(t) = Len(purse)
      /\ \A n \in 1 .. Len(purse) : t[n] = IF n = i THEN e ELSE purse[n]
  BY <1>3, <1>5, ExceptSeq
<1>8. t[j] = b /\ j \in 1 .. Len(t)
  BY <1>5, <1>7
<1>9. SumOf(t) = SumOf(purse) - a + e
  BY <1>3, <1>5, SumExcept
<1> HIDE DEF t, a, b
<1>10. purse' \in Seq(Money)
  BY <1>6, <1>7, <1>8, Removed
<1>11. t \in Seq(Int)
  BY <1>7, MoneySeq
<1>12. SumOf(purse') = SumOf(t) - b
  BY <1>6, <1>8, <1>11, SumRemoved
<1>13. SumOf(purse') = SumOf(purse)
  BY <1>2, <1>3, <1>4, <1>5, <1>9, <1>12
<1>14. UNCHANGED <<args, result, open, posted, lost>>
  BY <1>1
<1>15. Total' = Total
  BY <1>13, <1>14 DEF Total, Debts
<1>16. Funded
  BY <1>5 DEF LedgerInv
<1>17. QED BY <1>10, <1>14, <1>15, <1>16, Kept DEF LedgerInv

\* The purse becomes its sum.
LEMMA SumPurseInv == ASSUME LedgerInv, SumPurse PROVE LedgerInv'
<1> DEFINE e == SumUnits(purse).value
<1>1. purse \in Seq(Int) /\ SumOf(purse) \in Int
  BY TotalIsInt
<1>2. Funded /\ SumUnits(purse).tag = "Ok" /\ purse' = <<e>>
      /\ UNCHANGED <<args, result, open, posted, lost>>
  BY DEF SumPurse
<1>3. e = SumOf(purse) /\ InDomain(e) /\ e \in Int
  BY <1>1, <1>2, SumUnitsOk
<1> HIDE DEF e
<1>4. e \in Money
  BY <1>3, Widths DEF InDomain, Money
<1>5. purse' \in Seq(Money)
  BY <1>2, <1>4
<1>6. SumOf(purse') = SumOf(purse)
  BY <1>2, <1>3, SumAppend, EmptySeq
<1>7. Total' = Total
  BY <1>2, <1>6 DEF Total, Debts
<1>8. QED BY <1>2, <1>5, <1>7, Kept DEF LedgerInv

-----------------------------------------------------------------------------

\* A call of MoneyCalls funds no purse.
LEMMA CallsApart == ASSUME LedgerInv, Next, UNCHANGED ledger PROVE LedgerInv'
<1>1. UNCHANGED <<purse, open, posted, lost>>
  BY DEF ledger
<1>2. CASE Returned
  <2>1. UNCHANGED <<args, result>>
    BY <1>2 DEF Returned, vars
  <2>2. QED BY <1>1, <2>1 DEF LedgerInv, Funded, Total, Debts
<1>3. ASSUME ~Returned PROVE ~Funded /\ ~Funded'
  <2>1. CASE CallAdd
    BY <2>1 DEF CallAdd, Call, Idle, Funded
  <2>2. CASE CallSub
    BY <2>2 DEF CallSub, Call, Idle, Funded
  <2>3. CASE CallMajor
    BY <2>3 DEF CallMajor, Call, Idle, Funded
  <2>4. CASE CallDivide
    BY <2>4 DEF CallDivide, Call, Idle, Funded
  <2>5. CASE CallAllocate
    BY <2>5 DEF CallAllocate, Call, Idle, Funded
  <2>6. CASE CallConvert
    BY <2>6 DEF CallConvert, Call, Idle, Funded
  <2>7. CASE CallConvertVia
    BY <2>7 DEF CallConvertVia, Call, Idle, Funded
  <2>8. CASE CallParse
    BY <2>8 DEF CallParse, Call, Idle, Funded
  <2>9. CASE CallRender
    BY <2>9 DEF CallRender, Call, Idle, Funded
  <2>10. CASE CallCarry
    BY <2>10 DEF CallCarry, Call, Idle, Funded
  <2>11. CASE CallCarryRate
    BY <2>11 DEF CallCarryRate, Call, Idle, Funded
  <2>12. CASE CallDisplay
    BY <2>12 DEF CallDisplay, Call, Idle, Funded
  <2>13. CASE CallSplit
    BY <2>13 DEF CallSplit, Call, Idle, Funded
  <2>14. QED
    BY <1>3, <2>1, <2>2, <2>3, <2>4, <2>5, <2>6, <2>7, <2>8, <2>9, <2>10, <2>11, <2>12, <2>13 DEF Next
<1>4. QED BY <1>1, <1>2, <1>3 DEF LedgerInv

\* Every step of the ledger preserves LedgerInv.
LEMMA LedgerStep == LedgerInv /\ [LedgerNext]_ledgerVars => LedgerInv'
<1> SUFFICES ASSUME LedgerInv, [LedgerNext]_ledgerVars PROVE LedgerInv'
  OBVIOUS
<1>1. CASE UNCHANGED ledgerVars
  BY <1>1 DEF ledgerVars, ledger, LedgerInv, Funded, Total, Debts
<1>2. CASE Obligations
  BY <1>2, DivideInv, TakeResidueInv, DiscardDivisionInv, DropDivisionInv, PostResidueInv,
     DiscardResidueInv, OpenSplitInv, NextPartInv, NoPartInv, StopSplitInv, CollectSplitInv,
     AllocateInv, AddAmountsInv, SumPurseInv
  DEF Obligations
<1>3. QED BY <1>1, <1>2, CallsApart, FundInv DEF LedgerNext

\* No sequence of divisions, splits, allocations and sums makes or loses a unit,
\* for any amount, divisors, weights and modes and over any number of steps: every
\* unit funded is in the purse, owed, posted or given up by name, and all of it is
\* money (arithmetic/typed.rs:106-118, allocation/split.rs:27-30,
\* residue/obligation.rs:8-11).
THEOREM UnitsConserved == LedgerSpec => []Conserved
<1>1. LedgerInit => LedgerInv
  <2>1. ASSUME LedgerInit PROVE LedgerInv
    <3>1. purse = <<>> /\ open = <<>> /\ posted = 0 /\ lost = 0 /\ ~Funded
      BY <2>1 DEF LedgerInit, Init, Funded
    <3>2. QED BY <3>1 DEF LedgerInv
  <2>2. QED BY <2>1
<1>2. LedgerInv => Conserved
  <2>1. SUFFICES ASSUME LedgerInv, Funded, \E r \in result : r.tag = "Ok"
                 PROVE  /\ SumOf(purse) + SumOf([k \in DOMAIN open |-> Owed(open[k])])
                             + posted + lost = args.a
                        /\ \A i \in DOMAIN purse : purse[i] \in Money
                        /\ \A k \in Residues : open[k].units \in Money
    BY DEF Conserved
  <2>2. SumOf(purse) + SumOf([k \in DOMAIN open |-> Owed(open[k])]) + posted + lost = args.a
    BY <2>1 DEF LedgerInv, Total, Debts
  <2>3. QED BY <2>1, <2>2, Drawn, ResolveResidue
<1>3. QED BY <1>1, <1>2, LedgerStep, PTL DEF LedgerSpec

=============================================================================
