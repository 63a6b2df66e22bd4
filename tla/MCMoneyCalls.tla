----------------------------- MODULE MCMoneyCalls -----------------------------
(***************************************************************************)
(* Every call over a domain of 31 amounts at scale 4: division by the scale *)
(* has ties, one product of rates leaves i128 and two leave I256. Numbers   *)
(* are written in base 2 with two places; texts of six characters reach     *)
(* past the unsigned accumulator and spell i128::MIN. A has one minor       *)
(* digit, B two, and C no minor unit.                                       *)
(***************************************************************************)
EXTENDS MoneyLedger

MCWeightLists == UNION {[1 .. n -> {0, 1, 2, 5}] : n \in 0 .. 4}

\* Digits, sign, point, and a character that is none of them.
MCTexts == UNION {[1 .. n -> {0, 1, Minus, Point, Comma}] : n \in 0 .. 6}

\* The usual marks under every grouping, and marks of none, several or odd characters:
\* a symbol with the point in it, a group that holds the decimal, a digit, a minus.
MCDisplays ==
    [symbol : {<<Symbol>>}, group : {<<>>, <<Comma>>}, decimal : {<<>>, <<Comma>>, <<Point>>},
     grouping : {<<>>, <<0>>, <<1>>, <<1, 2>>}]
    \cup [symbol : {<<>>, <<Symbol, Point>>}, group : {<<Comma, Point>>, <<0>>},
          decimal : {<<Point>>, <<Minus, Comma>>, <<1>>}, grouping : {<<1>>}]

MCExponent == [c \in Currencies |-> CASE c = "A" -> {1} [] c = "B" -> {2} [] c = "C" -> {}]
MCNumeric  == [c \in Currencies |-> CASE c = "A" -> 3 [] c = "B" -> 1 [] c = "C" -> 7]

MCPurseWeights == {<<2, 0, 1>>, <<1, 5>>}

=============================================================================
