--------------------------- MODULE MCSnapExchange ---------------------------
(***************************************************************************)
(* Two messages of a few senders: requests whose paths and credentials     *)
(* hold colons and padding, requests a client may not build, one fault of  *)
(* each kind, and one body of each kind an upstream may answer with.       *)
(***************************************************************************)
EXTENDS SnapExchange, TLC

MCBodyHash == "b1" :> "sha256(b1)" @@ "b2" :> "sha256(b2)" @@ "" :> "sha256()"
MCTokenLexemes == {"t", "u"}
T1 == <<"2026-07-28T12", ":", "34", ":", "56+07", ":", "00">>
T2 == <<"2026-07-28T12", ":", "34", ":", "57Z">>
MCInstants == {T1, T2}

Id == <<"0", "0", "0", "0", "0", "0", "0", "0", "1">>
R(path, credential, body, timestamp, partner, external) ==
    [method |-> "POST", path |-> path, credential |-> credential, body |-> body,
     timestamp |-> timestamp, partner |-> partner, channel |-> <<"c">>, external |-> external]

MCRequests ==
    {R(p, c, b, T1, <<"p">>, Id) :
        p \in {<<"/", "a">>, <<"/", "a", ":", "t">>},
        c \in {<<"u">>, <<"u", "=">>, <<"t", ":", "u">>, <<"t", "=", "u">>, <<"=">>, <<>>},
        b \in {"b1"}}
    \cup {R(<<"/", "a">>, <<"u">>, "b2", T1, <<"p">>, Id),
          R(<<"a">>, <<"u">>, "b1", T1, <<"p">>, Id), R(<<>>, <<"u">>, "b1", T1, <<"p">>, Id),
          R(<<"/", "a", "#">>, <<"u">>, "b1", T1, <<"p">>, Id),
          R(<<"/", "a">>, <<"u">>, "b1", <<"today">>, <<"p">>, Id),
          R(<<"/", "a">>, <<"u">>, "b1", T1, <<>>, Id),
          R(<<"/", "a">>, <<"u">>, "b1", T1, <<"p", Newline>>, Id),
          R(<<"/", "a">>, <<"u">>, "b1", T1, <<"p">>, <<"1">>)}

MCOAuthTries ==
    {[client |-> <<"k">>, signed |-> T1, header |-> T1],
     [client |-> <<"k">>, signed |-> T1, header |-> T2],
     [client |-> <<>>, signed |-> T1, header |-> T1]}
MCCallbacks == {"b1", "b2"}

MCHeaderChain == <<"x-request-id", "x-correlation-id", "traceparent">>
MCGraphic     == HexDigits \cup {"-", "g", "h", "o", "p"}
MCCallerIds   == "x-request-id" :> <<"c", "a", "g", "e">>
BadRequestIds ==
    {<<>>, <<" ", " ">>, [i \in 1 .. MaxCorrelationIdLen + 1 |-> "a"], <<"a", " ", "b">>,
     <<"c", "a", "\\xff", "e">>}
GoodRequestIds == {[i \in 1 .. MaxCorrelationIdLen |-> "a"], <<" ", "a", "\t">>}

\* Two digits of a trace id and two of a parent id.
Trace(version, trace, parent, flags, rest) ==
    version \o <<"-">> \o trace \o <<"-">> \o parent \o <<"-">> \o flags \o rest
V0 == <<"0", "0">>
V1 == <<"0", "1">>
T  == <<"7", "f">>
P  == <<"0", "3">>
Traces ==
    {Trace(V0, T, P, V1, <<>>), Trace(V1, T, P, V1, <<>>), Trace(V1, T, P, V1, <<"-", " ", "-", "g">>),
     <<" ">> \o Trace(V0, T, P, V1, <<"\t">>), Trace(V0, T, P, <<"1">>, <<>>),
     Trace(V0, T, P, V1, <<"-", "a">>), Trace(V1, T, P, V1, <<"a">>),
     Trace(V1, T, P, V1, <<"-", "\\xff">>), Trace(V0, T, P, V1, <<>>) \o <<"0">>,
     Trace(<<"f", "f">>, T, P, V1, <<>>), Trace(<<"0", "g">>, T, P, V1, <<>>),
     Trace(V0, V0, P, V1, <<>>), Trace(V0, <<"7", "g">>, P, V1, <<>>),
     Trace(V0, T, V0, V1, <<>>), Trace(V0, T, <<"g", "3">>, V1, <<>>),
     Trace(V0, T, P, <<"g", "1">>, <<>>), Trace(V0, T, P, <<"-", "1">>, <<>>),
     Trace(V0, <<"7">>, <<"0", "0", "3">>, V1, <<>>), Trace(<<"0">>, <<"0", "7", "f">>, P, V1, <<>>)}
    \cup {[Trace(V0, T, P, V1, <<>>) EXCEPT ![i] = "a"] : i \in Delimiters}
AlteredIds ==
    {<<>>}
    \cup {"x-request-id" :> b @@ "x-correlation-id" :> <<"h", "o", "p">> :
             b \in BadRequestIds \cup GoodRequestIds}
    \cup {"x-request-id" :> <<" ">> @@ "traceparent" :> t : t \in Traces}
    \cup {MCCallerIds @@ "traceparent" :> t : t \in Traces}

F(kind, name) == [kind |-> kind, name |-> name, ids |-> <<>>]
MCFaults ==
    {F(k, n) : k \in {"drop", "garble"},
               n \in {"X-SIGNATURE", "X-TIMESTAMP", "Authorization", "X-CLIENT-KEY",
                      "X-Signature", "X-EXTERNAL-ID"}}
    \cup {F(k, "") : k \in {"prefix", "query", "time", "scheme", "space"}}
    \cup {F("body", "b2"), F("recode", "hex"), F("recode", "base64url")}
    \cup {[kind |-> "ids", name |-> "", ids |-> i] : i \in AlteredIds}

Amount == Object("amount" :> "1")
MCPayloads ==
    {[type |-> "unit", json |-> Null, again |-> Null],
     [type |-> "struct option", json |-> Null, again |-> Null],
     [type |-> "struct option", json |-> Amount, again |-> Amount],
     [type |-> "record", json |-> Object(<<>>), again |-> Object(<<>>)],
     [type |-> "record option", json |-> Null, again |-> Null],
     [type |-> "value", json |-> Null, again |-> Null],
     [type |-> "struct", json |-> Amount, again |-> Amount],
     [type |-> "struct", json |-> Amount, again |-> Scalar],
     [type |-> "struct", json |-> Scalar, again |-> Scalar],
     [type |-> "struct", json |-> Object("amount" :> "1" @@ "responseCode" :> "0"),
      again |-> Null]}

U(code, members) == Body(code, "Upstream", members)
MCUpstreams ==
    {U(<<2, 0, 0, 0, 7, 0, 0>>, "amount" :> "1"), U(<<2, 0, 2, 0, 7, 1, 1>>, <<>>),
     U(<<4, 0, 3, 0, 7, 2, 3>>, <<>>), U(<<4, 0, 3, 0, 7, 2, 4>>, "note" :> "n"),
     U(<<5, 0, 4, 0, 7, 0>>, <<>>), U(<<4, -1, 4, 0, 7, 0, 0>>, "note" :> "n"),
     U(<<0, 9, 9, 0, 7, 0, 0>>, <<>>), U(<<2, 0, 0>>, "amount" :> "1"),
     [U(<<2, 0, 0, 0, 7, 0, 0>>, <<>>) EXCEPT !.fields = {"responseCode"}]}

=============================================================================
