------------------------------ MODULE MoneyText -------------------------------
(***************************************************************************)
(* Money and rates as text: the one trim rule and the one parser that the  *)
(* canonical form, the wire, the database and the locale display share.    *)
(*                                                                         *)
(* A number is a sequence of characters; a character is a digit or one of  *)
(* the numbers from Radix on. A tagged text keeps its currency codes apart *)
(* from its number: one code stands for "USD 10.50", two for               *)
(* "USD/IDR/16000", none for a bare amount.                                *)
(***************************************************************************)
EXTENDS MoneyKernel

CONSTANTS
    Radix,       \* ten
    Places,      \* domain::SCALE
    Currencies,  \* Iso4217
    Exponent     \* Iso4217::exponent: a set of at most one

\* Not a currency: what stands where a code is expected.
NoCode == "no such code"

\* Radix to the n.
Power(n) ==
    LET power[k \in 0 .. n] == IF k = 0 THEN 1 ELSE Radix * power[k - 1] IN power[n]

ASSUME TextAssumption ==
    /\ Radix \in Nat \ {0, 1} /\ Places \in Nat
    /\ Scale = Power(Places)
    /\ NoCode \notin Currencies
    /\ \A c \in Currencies : Exponent[c] \subseteq 0 .. Places /\ Cardinality(Exponent[c]) =< 1

Digit  == 0 .. Radix - 1
Minus  == Radix
Point  == Radix + 1
Comma  == Radix + 2
Symbol == Radix + 3
Chars  == 0 .. Radix + 3

InvalidSyntax      == [tag |-> "InvalidSyntax", value |-> 0]
ExcessPrecision(n) == [tag |-> "ExcessPrecision", value |-> n]
MagnitudeOverflow(negative) ==
    [tag   |-> IF negative THEN "NegativeMagnitudeOverflow" ELSE "PositiveMagnitudeOverflow",
     value |-> 0]
WrongCurrency(expected, found) ==
    [tag |-> "WrongCurrency", value |-> 0, expected |-> expected, found |-> found]

\* None means the currency has no minor unit: no places, not unknown ones.
MinPlaces(c) == IF Exponent[c] = {} THEN 0 ELSE CHOOSE e \in Exponent[c] : TRUE

-----------------------------------------------------------------------------
(* Writing *)

\* The last digits of n, leading zeros included.
LastDigits(n, width) == [i \in 1 .. width |-> (n \div Power(width - i)) % Radix]

Numeral(n) ==
    LastDigits(n, CHOOSE w \in 1 .. n + 1 : n < Power(w) /\ (w = 1 \/ n >= Power(w - 1)))

\* Mutant: the least number of digits is also the most.
TrimToMinimum(digits, minDp) == SubSeq(digits, 1, minDp)

\* Trailing zeros go, down to minDp digits.
Trim(digits, minDp) ==
    SubSeq(digits, 1, CHOOSE n \in minDp .. Len(digits) :
                        /\ \A i \in n + 1 .. Len(digits) : digits[i] = 0
                        /\ n = minDp \/ digits[n] # 0)

FixedPointParts(units, minDp) ==
    [negative |-> units < 0,
     whole    |-> Numeral(Abs(units) \div Scale),
     fraction |-> Trim(LastDigits(Abs(units) % Scale, Places), minDp)]

RenderFixedPoint(units, minDp) ==
    LET parts == FixedPointParts(units, minDp) IN
    (IF parts.negative THEN <<Minus>> ELSE <<>>) \o parts.whole
      \o (IF parts.fraction = <<>> THEN <<>> ELSE <<Point>> \o parts.fraction)

RenderAmount(units, c) == RenderFixedPoint(units, MinPlaces(c))

\* text::render; the Display of Money is this with units that are money.
Render(units, c) ==
    IF InDomain(units) THEN Ok([codes |-> <<c>>, number |-> RenderAmount(units, c)])
                       ELSE OutOfDomain(units)

\* No minor unit governs a rate.
RenderRate(units)            == RenderFixedPoint(units, 0)
DisplayRate(units, b, quote) == [codes |-> <<b, quote>>, number |-> RenderRate(units)]

-----------------------------------------------------------------------------
(* Reading *)

\* push_digit, folded: past the unsigned accumulator a magnitude stays too wide.
MaxMagnitude == 2 * NarrowMax + 1
PushDigit(magnitude, digit) ==
    IF magnitude * Radix + digit > MaxMagnitude THEN MaxMagnitude + 1
                                                ELSE magnitude * Radix + digit

\* Mutant: the accumulator wraps.
MagnitudeWrapping(digits) ==
    FoldLeft(LAMBDA magnitude, digit : (magnitude * Radix + digit) % (MaxMagnitude + 1), 0, digits)

Magnitude(digits) == FoldLeft(PushDigit, 0, digits)

ParseFixedPoint(text) ==
    LET negative  == text # <<>> /\ text[1] = Minus
        body      == IF negative THEN Tail(text) ELSE text
        points    == {i \in DOMAIN body : body[i] = Point}
        point     == IF points = {} THEN Len(body) + 1 ELSE CHOOSE i \in points : TRUE
        whole     == SubSeq(body, 1, point - 1)
        fraction  == SubSeq(body, point + 1, Len(body))
        magnitude == Magnitude(whole \o fraction \o [i \in 1 .. Places - Len(fraction) |-> 0])
    IN  IF \/ \E i \in DOMAIN body : body[i] \notin Digit \cup {Point}
           \/ Cardinality(points) > 1
           \/ whole = <<>>
        THEN InvalidSyntax
        ELSE IF Len(fraction) > Places THEN ExcessPrecision(Len(fraction))
        ELSE IF negative /\ magnitude = NarrowMax + 1 THEN Ok(-magnitude)
        ELSE IF magnitude > NarrowMax THEN MagnitudeOverflow(negative)
        ELSE Ok(IF negative THEN -magnitude ELSE magnitude)

\* What a parsed number is checked with, unless it was refused.
Then(read, Check(_)) == IF read.tag = "Ok" THEN Check(read.value) ELSE read

ParseAmount(text) == Then(ParseFixedPoint(text), TryFromUnits)

\* A code that is not C is reported before anything is said of the number.
CheckCode(c, found, otherwise) ==
    IF found \notin Currencies THEN InvalidSyntax
    ELSE IF found # c THEN WrongCurrency(c, found)
    ELSE otherwise

\* FromStr of Money<c>, and of Rate<b, quote>.
MoneyFromStr(c, text) ==
    IF Len(text.codes) # 1 THEN InvalidSyntax
    ELSE CheckCode(c, text.codes[1], ParseAmount(text.number))

RateFromStr(b, quote, text) ==
    IF Len(text.codes) # 2 THEN InvalidSyntax
    ELSE CheckCode(b, text.codes[1],
           CheckCode(quote, text.codes[2], Then(ParseFixedPoint(text.number), TryRate)))

\* text::parse: the currency is handed back and not judged.
Parse(text) ==
    IF Len(text.codes) # 1 \/ text.codes[1] \notin Currencies THEN InvalidSyntax
    ELSE MoneyFromStr(text.codes[1], text)

-----------------------------------------------------------------------------
(* Locale display: a policy and an amount under it. The symbol and either      *)
(* separator are any text, digits included; an empty one stands for none.       *)

NewPolicy(c, symbol) ==
    [currency |-> c, symbol |-> symbol, prefix |-> TRUE, group |-> <<Comma>>, decimal |-> <<Point>>,
     grouping |-> <<3>>, minDigits |-> MinPlaces(c)]

FractionDigits(n) ==
    IF n =< Places THEN Ok(n) ELSE [tag |-> "FractionDigitsOutOfRange", value |-> n]

\* Mutant: one separator may do for both.
TryWithSeparatorsAlike(policy, group, decimal) ==
    IF decimal = <<>> THEN [tag |-> "EmptyDecimalSeparator", value |-> policy]
    ELSE Ok([policy EXCEPT !.group = group, !.decimal = decimal])

TryWithSeparators(policy, group, decimal) ==
    IF decimal = <<>> THEN [tag |-> "EmptyDecimalSeparator", value |-> policy]
    ELSE IF group = decimal THEN [tag |-> "AmbiguousSeparators", value |-> policy]
    ELSE Ok([policy EXCEPT !.group = group, !.decimal = decimal])

TryWithGrouping(policy, grouping) ==
    IF \E i \in DOMAIN grouping : grouping[i] = 0
    THEN [tag |-> "ZeroGroupingWidth", value |-> policy]
    ELSE Ok([policy EXCEPT !.grouping = grouping])

\* Digits from the right at which a group ends; the last width repeats.
Cuts(grouping, n) ==
    {SumOf([j \in 1 .. k |-> grouping[IF j < Len(grouping) THEN j ELSE Len(grouping)]]) : k \in 1 .. n}

Group(digits, grouping, separator) ==
    LET n == Len(digits) IN
    IF grouping = <<>> THEN digits
    ELSE FlattenSeq([i \in 1 .. n |->
           IF i > 1 /\ n - i + 1 \in Cuts(grouping, n) THEN separator \o <<digits[i]>>
                                                       ELSE <<digits[i]>>])

\* A policy as it is built, from the currency's own and step by step.
PolicyOf(c, symbol, prefix, group, decimal, grouping, digits) ==
    LET SetDigits(p)   == Then(FractionDigits(digits), LAMBDA n : Ok([p EXCEPT !.minDigits = n]))
        SetGrouping(p) == Then(TryWithGrouping(p, grouping), SetDigits)
        placed         == [NewPolicy(c, symbol) EXCEPT !.prefix = prefix]
    IN  Then(TryWithSeparators(placed, group, decimal), SetGrouping)

\* LocalePolicy::render_units.
RenderUnits(policy, units, c) ==
    LET parts == FixedPointParts(units, policy.minDigits)
        body  == Group(parts.whole, policy.grouping, policy.group)
                   \o (IF parts.fraction = <<>> THEN <<>> ELSE policy.decimal \o parts.fraction)
        shown == IF policy.prefix THEN policy.symbol \o body ELSE body \o policy.symbol
    IN  IF c # policy.currency THEN WrongCurrency(policy.currency, c)
        ELSE IF ~InDomain(units) THEN OutOfDomain(units)
        ELSE Ok(IF parts.negative THEN <<Minus>> \o shown ELSE shown)

=============================================================================
