------------------------------ MODULE MoneyWire -------------------------------
(***************************************************************************)
(* The forms a value travels in: structured and transparent JSON, binary,  *)
(* and a text column of a database. Every reader knows the currencies it   *)
(* expects and compares them with the ones the form carries.               *)
(***************************************************************************)
EXTENDS MoneyText

CONSTANT Numeric   \* Iso4217::numeric

ASSUME WireAssumption ==
    \A c, d \in Currencies : Numeric[c] \in Nat /\ (Numeric[c] = Numeric[d] => c = d)

\* What serde says of a code it does not know, ahead of any check of this crate.
UnknownCode == [tag |-> "UnknownCode", value |-> 0]

\* Iso4217::from_numeric, as a set of at most one.
FromNumeric(n) == {c \in Currencies : Numeric[c] = n}

\* The codes of a form against the ones a reader expects, base before quote.
CheckTags(expected, found, otherwise) ==
    LET differ == {i \in DOMAIN expected : expected[i] # found[i]} IN
    IF \E i \in DOMAIN found : found[i] \notin Currencies THEN UnknownCode
    ELSE IF differ # {} THEN LET i == Min(differ) IN WrongCurrency(expected[i], found[i])
    ELSE otherwise

-----------------------------------------------------------------------------
(* Structured: {"currency", "amount"}, or {"base", "quote", "rate"} *)

StructuredMoney(c, units)       == [codes |-> <<c>>, number |-> RenderAmount(units, c)]
StructuredRate(b, quote, units) == DisplayRate(units, b, quote)

ReadStructuredMoney(c, object) == CheckTags(<<c>>, object.codes, ParseAmount(object.number))

ReadStructuredRate(b, quote, object) ==
    CheckTags(<<b, quote>>, object.codes, Then(ParseFixedPoint(object.number), TryRate))

-----------------------------------------------------------------------------
(* Binary: the numeric codes ahead of the units *)

Binary(codes, units) == [numerics |-> [i \in DOMAIN codes |-> Numeric[codes[i]]], units |-> units]

FromBinary(expected, bytes, Check(_)) ==
    CheckTags(expected,
              [i \in DOMAIN bytes.numerics |->
                 LET known == FromNumeric(bytes.numerics[i]) IN
                 IF known = {} THEN NoCode ELSE CHOOSE c \in known : TRUE],
              Check(bytes.units))

ReadBinaryMoney(c, bytes)       == FromBinary(<<c>>, bytes, TryFromUnits)
ReadBinaryRate(b, quote, bytes) == FromBinary(<<b, quote>>, bytes, TryRate)

-----------------------------------------------------------------------------
(* Columns: a text column holds the canonical form, a native one names its *)
(* currency by its type and casts to a bare amount.                        *)

\* Only text reaches the decoder: anything else is refused by its type.
Compatible(type) == type = "text"

NotText == [tag |-> "NotText", value |-> 0]

\* decode_money: a text without a code is the currency of the Rust type.
DecodeMoney(c, text) ==
    IF text.codes # <<>> THEN MoneyFromStr(c, text) ELSE ParseAmount(text.number)

FromSqlMoney(c, type, text) == IF Compatible(type) THEN DecodeMoney(c, text) ELSE NotText

FromSqlRate(b, quote, type, text) ==
    IF Compatible(type) THEN RateFromStr(b, quote, text) ELSE NotText

-----------------------------------------------------------------------------
(* A value written in a form by one program and read by another *)

Forms == {"string", "structured", "binary", "column", "native", "cast"}

CarryMoney(form, c, units, reader) ==
    LET text == Render(units, c).value IN
    CASE form = "string"     -> MoneyFromStr(reader, text)
      [] form = "structured" -> ReadStructuredMoney(reader, StructuredMoney(c, units))
      [] form = "binary"     -> ReadBinaryMoney(reader, Binary(<<c>>, units))
      [] form = "column"     -> FromSqlMoney(reader, "text", text)
      [] form = "native"     -> FromSqlMoney(reader, "native", text)
      [] form = "cast"       -> FromSqlMoney(reader, "text", [text EXCEPT !.codes = <<>>])

CarryRate(form, pair, units, b, quote) ==
    LET text == DisplayRate(units, pair[1], pair[2]) IN
    CASE form = "string"     -> RateFromStr(b, quote, text)
      [] form = "structured" -> ReadStructuredRate(b, quote, StructuredRate(pair[1], pair[2], units))
      [] form = "binary"     -> ReadBinaryRate(b, quote, Binary(pair, units))
      [] form = "column"     -> FromSqlRate(b, quote, "text", text)
      [] form = "native"     -> FromSqlRate(b, quote, "native", text)

=============================================================================
