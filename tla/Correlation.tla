---------------------------- MODULE Correlation ----------------------------
(***************************************************************************)
(* crates/logging/src/correlation.rs: the id under which a request's log   *)
(* lines are joined, read from headers nobody vouches for.                 *)
(*                                                                         *)
(* A header value is a sequence of one-character strings.                  *)
(***************************************************************************)
EXTENDS Naturals, Sequences, SequencesExt

CONSTANTS HeaderChain,          \* DEFAULT_HEADER_CHAIN
          MaxCorrelationIdLen,  \* MAX_CORRELATION_ID_LEN
          TraceIdLen,           \* hexadecimal digits of a trace id: 32
          ParentIdLen,          \* and of a parent id: 16
          Graphic               \* the visible characters of ASCII

Blanks    == {" ", "\t"}
HexDigits == {"0", "1", "2", "3", "4", "5", "6", "7", "8", "9", "a", "b", "c", "d", "e", "f"}

ASSUME CorrelationAssumption ==
    /\ HeaderChain \in Seq(STRING)
    /\ {TraceIdLen, ParentIdLen} \subseteq Nat \ {0}
    /\ MaxCorrelationIdLen \in Nat
    /\ HexDigits \subseteq Graphic /\ Graphic \cap Blanks = {}

NoId == <<>>

\* to_str: no other character makes a string of a header value.
IsString(value) == ToSet(value) \subseteq Graphic \cup Blanks

Trim(value) ==
    LET ink == {i \in DOMAIN value : value[i] \notin Blanks}
    IN  IF ink = {} THEN <<>> ELSE SubSeq(value, Min(ink), Max(ink))

BaseLen == TraceIdLen + ParentIdLen + 7

IsLowerHex(text) == ToSet(text) \subseteq HexDigits
IsZero(text)     == ToSet(text) \subseteq {"0"}

Version(t)    == SubSeq(t, 1, 2)
TraceId(t)    == SubSeq(t, 4, TraceIdLen + 3)
ParentId(t)   == SubSeq(t, TraceIdLen + 5, TraceIdLen + ParentIdLen + 4)
TraceFlags(t) == SubSeq(t, BaseLen - 1, BaseLen)
Delimiters    == {3, TraceIdLen + 4, TraceIdLen + ParentIdLen + 5}

\* The rules for a text of BaseLen characters or more, in the order
\* TraceParent::parse tries them.
TraceParentRules(t) ==
    <<[holds |-> \A i \in Delimiters : t[i] = "-",  error |-> "InvalidDelimiter"],
      [holds |-> IsLowerHex(Version(t)),            error |-> "InvalidVersion"],
      [holds |-> Version(t) # <<"f", "f">>,         error |-> "ReservedVersion"],
      [holds |-> Version(t) = <<"0", "0">> => Len(t) = BaseLen,
                                                    error |-> "VersionZeroHasExtraFields"],
      [holds |-> Version(t) # <<"0", "0">> /\ Len(t) > BaseLen => t[BaseLen + 1] = "-",
                                                    error |-> "InvalidFutureVersionSuffix"],
      [holds |-> IsLowerHex(TraceId(t)),            error |-> "InvalidTraceId"],
      [holds |-> ~ IsZero(TraceId(t)),              error |-> "ZeroTraceId"],
      [holds |-> IsLowerHex(ParentId(t)),           error |-> "InvalidParentId"],
      [holds |-> ~ IsZero(ParentId(t)),             error |-> "ZeroParentId"],
      [holds |-> IsLowerHex(TraceFlags(t)),         error |-> "InvalidTraceFlags"]>>

TraceParent(t) ==
    IF Len(t) < BaseLen THEN "TooShort"
    ELSE LET i == SelectInSeq(TraceParentRules(t), LAMBDA r : ~ r.holds)
         IN  IF i = 0 THEN "Ok" ELSE TraceParentRules(t)[i].error

IsValidCorrelationId(text) ==
    Len(text) \in 1 .. MaxCorrelationIdLen /\ ToSet(text) \subseteq Graphic

\* The id a header of the chain contributes, or none: absent, not a string,
\* blank once trimmed, or malformed.
IdIn(ids, name) ==
    IF name \notin DOMAIN ids \/ ~ IsString(ids[name]) THEN NoId
    ELSE LET trimmed == Trim(ids[name])
         IN  IF name = "traceparent"
             THEN IF TraceParent(trimmed) = "Ok" THEN TraceId(trimmed) ELSE NoId
             ELSE IF IsValidCorrelationId(trimmed) THEN trimmed ELSE NoId

\* Mutant: the first header that is there at all.
ExtractFromHeadersPresent(ids) ==
    LET i == SelectInSeq(HeaderChain, LAMBDA name : name \in DOMAIN ids)
    IN  IF i = 0 THEN NoId ELSE IdIn(ids, HeaderChain[i])

\* extract_from_headers: the first header that contributes one.
ExtractFromHeaders(ids) ==
    LET i == SelectInSeq(HeaderChain, LAMBDA name : IdIn(ids, name) # NoId)
    IN  IF i = 0 THEN NoId ELSE IdIn(ids, HeaderChain[i])

-----------------------------------------------------------------------------
(* What a header states by the grammar of its kind, apart from the parser. *)

Between(text, a, b)     == SubSeq(text, a + 1, b - 1)
HexField(text, n)       == Len(text) = n /\ ToSet(text) \subseteq HexDigits
SomeHexField(text, n)   == HexField(text, n) /\ \E i \in 1 .. n : text[i] # "0"
Hyphens(text)           == {i \in DOMAIN text : text[i] = "-"}

\* W3C Trace Context: hyphens set four fields apart, the trace id the one between
\* a and b; version 00 has no further field, and no version is ff.
IsTraceIdOf(text, a, b) ==
    \E c \in Hyphens(text), d \in Hyphens(text) \cup {Len(text) + 1} :
        /\ HexField(Between(text, 0, a), 2) /\ Between(text, 0, a) # <<"f", "f">>
        /\ SomeHexField(Between(text, a, b), TraceIdLen)
        /\ SomeHexField(Between(text, b, c), ParentIdLen)
        /\ HexField(Between(text, c, d), 2)
        /\ Between(text, 0, a) = <<"0", "0">> => d = Len(text) + 1

\* The id a header states, if it is well formed: in a set of at most one.
IdsStated(name, value) ==
    LET text == Trim(value)
    IN  IF ~ IsString(value) THEN {}
        ELSE IF name = "traceparent"
        THEN {Between(text, p[1], p[2]) :
                p \in {q \in Hyphens(text) \X Hyphens(text) : IsTraceIdOf(text, q[1], q[2])}}
        ELSE {x \in {text} : IsValidCorrelationId(x)}

=============================================================================
