------------------------------ MODULE MoneyCalls ------------------------------
(***************************************************************************)
(* Calls of the arithmetic of MoneyKernel and of the forms of MoneyWire,   *)
(* with every argument a caller can pass: Money and Rate from their        *)
(* checked constructors, raw units and texts from adapters.                *)
(***************************************************************************)
EXTENDS MoneyWire

CONSTANTS
    WeightLists,  \* the weights allocations are asked for
    Texts,        \* the texts that are parsed
    Displays      \* what a display policy is asked for: a symbol, separators, group widths

ASSUME MoneyCallsAssumption ==
    /\ WeightLists \subseteq Slices
    /\ Texts \subseteq Seq(Chars)
    /\ Displays \subseteq [symbol : Seq(Chars), group : Seq(Chars), decimal : Seq(Chars),
                          grouping : Seq(Nat)]

VARIABLES
    args,    \* the arguments of the call, by name
    result   \* its result, as a set of at most one

vars == <<args, result>>

Ops == {"none", "add", "sub", "major", "divide", "allocate", "split", "convert", "via",
        "parse", "render", "carry", "carry rate", "display", "ledger"}

Units == Narrow
Money == (-DomainMax) .. DomainMax

\* An amount that is handed out is money (domain.rs:32-38).
TypeOK ==
    /\ args.op \in Ops
    /\ (args.op # "none") <=> (result # {})
    /\ \A r \in result :
         /\ {"tag", "value"} \subseteq DOMAIN r
         /\ r.tag = "Ok" /\ args.op \in {"add", "sub", "major", "convert", "via"} => r.value \in Money

Init == args = [op |-> "none"] /\ result = {}

Idle == args.op = "none"

Call(arguments, answer) == args' = arguments /\ result' = {answer}

CallAdd == Idle /\ \E a, b \in Money : Call([op |-> "add", a |-> a, b |-> b], TryAdd(a, b))

CallSub == Idle /\ \E a, b \in Money : Call([op |-> "sub", a |-> a, b |-> b], TrySub(a, b))

CallMajor == Idle /\ \E a \in Units : Call([op |-> "major", a |-> a], TryFromMajor(a))

\* Raw units: Money::div_int passes in-domain ones.
CallDivide ==
    /\ Idle
    /\ \E a \in Units, n \in Divisors, mode \in Modes :
         Call([op |-> "divide", a |-> a, n |-> n, mode |-> mode], DivIntUnits(a, n, mode))

\* Raw units again: those that are no money reach allocate_units only.
CallAllocate ==
    /\ Idle
    /\ \E a \in Units, w \in WeightLists :
         Call([op |-> "allocate", a |-> a, weights |-> w], AllocateMoney(a, w))

CallSplit ==
    Idle /\ \E a \in Money, n \in Divisors : Call([op |-> "split", a |-> a, n |-> n], SplitAll(a, n))

\* A conversion with a rate that its constructor accepted.
CallConvert ==
    /\ Idle
    /\ \E a \in Money, rate \in Units, mode \in Modes :
         /\ TryRate(rate).tag = "Ok"
         /\ Call([op |-> "convert", a |-> a, first |-> rate, mode |-> mode],
                 Convert(a, rate, mode))

CallConvertVia ==
    /\ Idle
    /\ \E a \in Money, first, second \in Units, mode \in Modes :
         /\ TryRate(first).tag = "Ok" /\ TryRate(second).tag = "Ok"
         /\ Call([op |-> "via", a |-> a, first |-> first, second |-> second, mode |-> mode],
                 ConvertVia(a, first, second, mode))

CallParse == Idle /\ \E t \in Texts : Call([op |-> "parse", text |-> t], ParseAmount(t))

\* The codec of callers who learn the currency at run time.
CallRender ==
    /\ Idle
    /\ \E a \in Units, c \in Currencies :
         Call([op |-> "render", a |-> a], Then(Render(a, c), Parse))

CallCarry ==
    /\ Idle
    /\ \E form \in Forms, a \in Money, c, reader \in Currencies :
         Call([op |-> "carry", form |-> form, a |-> a, codes |-> <<c>>, readers |-> <<reader>>],
              CarryMoney(form, c, a, reader))

CallCarryRate ==
    /\ Idle
    /\ \E form \in Forms \ {"cast"}, rate \in Units, pair \in Currencies \X Currencies,
         b, quote \in Currencies :
         /\ TryRate(rate).tag = "Ok"
         /\ Call([op |-> "carry", form |-> form, a |-> rate, codes |-> pair,
                  readers |-> <<b, quote>>],
                 CarryRate(form, pair, rate, b, quote))

CallDisplay ==
    /\ Idle
    /\ \E a \in Units, c, shown \in Currencies, d \in Displays, prefix \in BOOLEAN,
         digits \in 0 .. Places + 1 :
         LET policy == PolicyOf(c, d.symbol, prefix, d.group, d.decimal, d.grouping, digits) IN
         Call([op |-> "display", a |-> a, symbol |-> d.symbol, group |-> d.group, decimal |-> d.decimal],
              Then(policy, LAMBDA p : RenderUnits(p, a, shown)))

Returned == ~Idle /\ UNCHANGED vars

Next ==
    \/ CallAdd \/ CallSub \/ CallMajor \/ CallDivide \/ CallAllocate \/ CallSplit
    \/ CallConvert \/ CallConvertVia
    \/ CallParse \/ CallRender \/ CallCarry \/ CallCarryRate \/ CallDisplay
    \/ Returned

Spec == Init /\ [][Next]_vars

-----------------------------------------------------------------------------
(* Properties *)

\* The integer a mode names for num/den, by the two integers around it: the
\* reference the kernel's truncate-and-bump is compared with.
Rounded(num, den, mode) ==
    LET below == num \div den
        rest  == num - below * den
        Even(i) == i % 2 = 0
        Outer == IF num < 0 THEN below ELSE below + 1
        Inner == IF num < 0 THEN below + 1 ELSE below
    IN  CASE rest = 0             -> below
          [] rest # 0 /\ mode = "Floor"        -> below
          [] rest # 0 /\ mode = "Ceil"         -> below + 1
          [] rest # 0 /\ mode = "TowardZero"   -> Inner
          [] rest # 0 /\ mode = "AwayFromZero" -> Outer
          [] rest # 0 /\ mode \in {"HalfEven", "HalfAwayFromZero", "HalfTowardZero"} ->
               CASE 2 * rest < den -> below
                 [] 2 * rest > den -> below + 1
                 [] OTHER -> CASE mode = "HalfEven" -> IF Even(below) THEN below ELSE below + 1
                               [] mode = "HalfAwayFromZero" -> Outer
                               [] mode = "HalfTowardZero"   -> Inner

\* Whatever callers pass, none of these fires: the conversions, checked operations
\* and the assert of an allocation (arithmetic/kernel/allocate.rs:38-71,
\* allocation/allocate.rs:22), the part counts and the parts of a split
\* (allocation/split.rs:36, 47-48, 104, 111), the narrowing of a quotient and its
\* residue (divide.rs:30-31), and the products of a conversion (rate/convert.rs:23-25,
\* 37-39).
NeverPanics == \A r \in result : r.tag # "Panic"

\* A division loses nothing: the quotient is the one its mode names, the residue
\* makes up the rest exactly and is smaller than the divisor, so both are money
\* (rounding.rs:83-84, arithmetic/typed.rs:112-113).
DivisionExact ==
    args.op = "divide" => \A r \in result :
      r.tag = "Ok" =>
        /\ r.value.quotient = Rounded(args.a, args.n, args.mode)
        /\ r.value.quotient * args.n + r.value.residue = args.a
        /\ Abs(r.value.residue) < args.n
        /\ InDomain(r.value.quotient) /\ InDomain(r.value.residue)

\* An allocation pays out the amount, nothing to a weight of zero, and to every
\* position its exact share to within a unit; of equal claims an earlier
\* one gets no less than a later one, by a unit at most
\* (arithmetic/kernel/allocate.rs:7-16).
AllocationFair ==
    args.op = "allocate" => \A r \in result :
      r.tag = "Ok" =>
        LET total == SumOf(args.weights) IN
        /\ SumOf(r.value) = args.a
        /\ \A i \in DOMAIN args.weights :
             /\ args.weights[i] = 0 => r.value[i] = 0
             /\ Abs(r.value[i] * total - args.a * args.weights[i]) =< total
             /\ \A j \in DOMAIN args.weights :
                  i < j /\ args.weights[i] = args.weights[j] =>
                    Abs(r.value[i]) - Abs(r.value[j]) \in {0, 1}
             /\ (\A j \in DOMAIN args.weights : args.weights[j] = 1) =>
                  r.value[i] = PartAt(Split(args.a, Len(args.weights)), i - 1)

\* A conversion rounds the exact product once, over one leg or two, and refuses
\* exactly the amounts whose rounded value is no money: neither the width of i128
\* nor that of I256 ever refuses one that is (rate/convert.rs:83-95).
ConvertsOnce ==
    args.op \in {"convert", "via"} => \A r \in result :
      LET exact == IF args.op = "convert"
                   THEN Rounded(args.a * args.first, Scale, args.mode)
                   ELSE Rounded(args.a * args.first * args.second, Scale * Scale, args.mode)
      IN  r = IF InDomain(exact) THEN Ok(exact) ELSE ConversionOverflow

\* What a text says, read without the parser: a sign in front, its digits, and how
\* many of them stand behind the decimal mark, which stands flush between two digits.
\* Nothing else counts.
Spelled(text, mark) ==
    LET digits == {i \in DOMAIN text : text[i] \in Digit}
        behind == {i \in digits : \E j, k \in digits :
                     j < k /\ k =< i /\ SubSeq(text, j + 1, k - 1) = mark}
        Weight(i) == Power(Cardinality({j \in digits : j > i}))
    IN  [sign |-> IF text # <<>> /\ text[1] = Minus THEN -1 ELSE 1,
         digits |-> SumOf([i \in DOMAIN text |-> IF i \in digits THEN text[i] * Weight(i) ELSE 0]),
         places |-> Cardinality(behind)]

\* u is the number a text spells: u / Scale = digits / Radix^places.
Spells(text, mark, u) ==
    LET s == Spelled(text, mark) IN u * Power(s.places) = s.sign * s.digits * Scale

\* An optional sign, a digit, digits, and at most one point behind the first digit.
IsDecimal(text) ==
    \E signs \in {0, 1} :
      /\ signs = 1 => text # <<>> /\ text[1] = Minus
      /\ Len(text) > signs /\ text[signs + 1] \in Digit
      /\ \A i \in signs + 1 .. Len(text) : text[i] \in Digit \cup {Point}
      /\ \A i, j \in DOMAIN text : text[i] = Point /\ text[j] = Point => i = j

\* Decoration that can be told from a number: no digit in it, and no minus where the
\* sign is looked for.
Legible(symbol, group, decimal) ==
    /\ \A mark \in {symbol, group, decimal} : \A i \in DOMAIN mark : mark[i] \notin Digit
    /\ symbol # <<>> => symbol[1] # Minus

\* A text is read as the number it spells, never rounded, and refused only if it
\* spells none or none that is money (text/mod.rs:28-33).
ReadsAsSpelled ==
    args.op = "parse" => \A r \in result :
      /\ r.tag = "Ok" => IsDecimal(args.text) /\ Spells(args.text, <<Point>>, r.value)
      /\ IsDecimal(args.text) /\ Spelled(args.text, <<Point>>).places =< Places =>
           r.tag = "Ok" \/ ~\E u \in Money : Spells(args.text, <<Point>>, u)

\* What is written in any form is read back as the same number under the same
\* currency, and as a wrong currency, base before quote, under another
\* (wire/mod.rs:34-35, adapters/codec.rs:12-19). A native column cast to text
\* carries no currency, so only its own currency is asked of it.
FormsReadBack ==
    \A r \in result :
      /\ args.op = "render" => r = TryFromUnits(args.a)
      /\ args.op = "carry" =>
           LET differ == {i \in DOMAIN args.codes : args.codes[i] # args.readers[i]} IN
           IF args.form = "native" THEN r.tag # "Ok"
           ELSE IF args.form = "cast" THEN differ = {} => r = Ok(args.a)
           ELSE IF differ = {} THEN r = Ok(args.a)
           ELSE LET i == Min(differ) IN r = WrongCurrency(args.readers[i], args.codes[i])

\* What a person is shown spells the amount, whatever the grouping, the symbol and
\* the separators, of one character or many (locale/mod.rs:13-14), as long as these
\* can be told from the number. A policy does not ask that of them
\* (locale/policy.rs:115-129), and of one with digits in a separator nothing is said:
\* there what is shown need not spell the amount.
ShowsTheAmount ==
    args.op = "display" /\ Legible(args.symbol, args.group, args.decimal) =>
      \A r \in result : r.tag = "Ok" => Spells(r.value, args.decimal, args.a)

\* One value in six spellings is one value: what is read is what is spelled, what
\* is written in any form is read back, and what is legibly shown spells the amount.
ReadsBack == ReadsAsSpelled /\ FormsReadBack /\ ShowsTheAmount

=============================================================================
