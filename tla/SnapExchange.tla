---------------------------- MODULE SnapExchange ----------------------------
(***************************************************************************)
(* A SNAP BI exchange: a client signs, a network carries, a server behind  *)
(* an Actix or Axum adapter opens a log span, verifies and answers, and    *)
(* the client reads the answer.  The libraries keep no state between       *)
(* calls, so a message may arrive any number of times, in any order, or    *)
(* never, and what the proxies on its way do to it is one fault.           *)
(***************************************************************************)
EXTENDS SnapRequest, SnapEnvelope, Correlation, FiniteSets

CONSTANTS
    Requests,    \* service requests a client tries to build
    OAuthTries,  \* [client, signed, header]: a token request, its timestamp read twice
    Callbacks,   \* bodies a provider calls back with
    Keys,        \* secrets and key pairs senders hold
    Secret,      \* the one the server verifies with
    CallerIds,   \* correlation headers a caller sets
    Faults,      \* what may befall a message: [kind, name, ids]
    Payloads,    \* what a handler succeeds with: [type, json, again]
    Upstreams,   \* bodies a handler relays
    Services,    \* SNAP BI service codes
    MaxSent      \* bound: messages ever signed

ASSUME SnapExchangeAssumption ==
    /\ Secret \in Keys /\ MaxSent \in Nat /\ Services \subseteq 0 .. 99
    /\ Keys \subseteq Lexemes /\ Callbacks \subseteq DOMAIN BodyHash
    /\ \A r \in Requests : /\ r.method \in Lexemes /\ r.body \in DOMAIN BodyHash
                           /\ {r.path, r.credential, r.timestamp} \subseteq Seq(Lexemes)
    /\ \A t \in OAuthTries : {t.client, t.signed, t.header} \subseteq Seq(Lexemes)
    /\ \A f \in Faults : /\ f.kind = "body" => f.name \in DOMAIN BodyHash
                         /\ f.kind = "recode" => f.name \in {"hex", "base64url"}
                         /\ \A h \in DOMAIN f.ids : f.ids[h] \in Seq(STRING)
    /\ \A h \in DOMAIN CallerIds : CallerIds[h] \in Seq(STRING)
    /\ <<"now">> \notin Instants

\* A payload that serializes to a legal JSON is what its type reads in that JSON,
\* and when it is asked for its JSON again it says the same or fails.
ASSUME PayloadsAssumption ==
    \A p \in Payloads :
        /\ p.json \in {Null, Scalar, Object(p.json.members)}
        /\ PayloadError(p.json) = "Ok" =>
               /\ p.json # Unread /\ FromValue(p.type, p.json) = p.json
               /\ PayloadError(p.again) = "Ok" => p.again = p.json

VARIABLES
    sent,      \* signed messages: [wire, key, signed]
    phase,     \* of the request the server has in hand
    arriving,  \* it as it arrived: [wire, origin, fault]
    span,      \* the correlation id of its root span
    verdict,   \* how it was verified: [adapter, readable, error]
    meant,     \* the response the server built, and the payload type agreed on
    reply,     \* the HTTP answer: [status, body]
    got        \* what the client reads

vars == <<sent, phase, arriving, span, verdict, meant, reply, got>>

Blank      == [kind |-> "none", method |-> "", path |-> <<>>, query |-> <<>>, body |-> "",
               headers |-> <<>>, ids |-> <<>>]
NoFault    == [kind |-> "none", name |-> "", ids |-> <<>>]
NoMessage  == [wire |-> Blank, key |-> "", signed |-> <<>>]
NoArrival  == [wire |-> Blank, origin |-> NoMessage, fault |-> NoFault]
NoVerdict  == [adapter |-> "", readable |-> TRUE, error |-> Fine]
NoResponse == [response |-> Undecoded, type |-> "unit"]
\* A page of the proxy's own in place of the answer.
Page       == [status |-> 502,
               body |-> [fields |-> {}, code |-> <<>>, message |-> "", members |-> <<>>]]

Init ==
    /\ sent = {} /\ phase = "idle" /\ arriving = NoArrival /\ span = NoId
    /\ verdict = NoVerdict /\ meant = NoResponse /\ reply = Page /\ got = Undecoded

-----------------------------------------------------------------------------
(* Senders.  A message that is refused locally leaves nothing behind. *)

Send(message) ==
    /\ Cardinality(sent) < MaxSent /\ phase = "idle"
    /\ sent' = sent \cup {message}
    /\ UNCHANGED <<phase, arriving, span, verdict, meant, reply, got>>

ServiceParts(c) == <<<<c.method>>, c.path, c.credential, <<c.body>>, c.timestamp>>

ServiceMessage(key, c) ==
    [wire   |-> [kind |-> "service", method |-> c.method, path |-> c.path, query |-> <<>>,
                 body |-> c.body, headers |-> ServiceHeaders(key, c), ids |-> CallerIds],
     key    |-> key,
     signed |-> ServiceParts(c)]

SignServiceRequest(key, c) ==
    /\ NewServiceRequest(c) = Fine
    /\ Send(ServiceMessage(key, c))

OAuthSignature(key, t) == Encode("base64", Rsa(key, OAuthString(t.client, t.signed)))
OAuthMessage(key, t) ==
    [wire   |-> [kind |-> "oauth", method |-> "POST", path |-> <<"/", "token">>, query |-> <<>>,
                 body |-> "", ids |-> CallerIds,
                 headers |-> OAuthHeaders(t.client, t.header, OAuthSignature(key, t))],
     key    |-> key,
     signed |-> <<t.client, t.signed>>]

SignOAuth(key, t) ==
    /\ NewOAuthString(t.client, t.signed) = Fine
    /\ NewOAuthHeaders(t.client, t.header, OAuthSignature(key, t)) = Fine
    /\ Send(OAuthMessage(key, t))

\* The provider's side of a body-only webhook.
CallbackMessage(key, body) ==
    [wire   |-> [kind |-> "callback", method |-> "POST", path |-> <<"/", "hook">>, query |-> <<>>,
                 body |-> body, ids |-> CallerIds,
                 headers |-> [h \in {"X-Signature"} |-> Encode("base64", Hmac(key, <<body>>))]],
     key    |-> key,
     signed |-> <<<<body>>>>]

CallBack(key, body) == Send(CallbackMessage(key, body))

-----------------------------------------------------------------------------
(* The network. *)

WithHeader(m, name, text) == [m EXCEPT !.headers[name] = text]
Signature(m) == IF m.kind = "callback" THEN "X-Signature" ELSE "X-SIGNATURE"

\* The message after a fault; as it was when the fault does not apply to it.
Altered(m, f) ==
    LET signed == FromBase64(HeaderText(m, Signature(m)))
        has(name) == name \in DOMAIN m.headers
    IN  CASE f.kind = "drop" /\ has(f.name) ->
               [m EXCEPT !.headers = [h \in DOMAIN m.headers \ {f.name} |-> m.headers[h]]]
          [] f.kind = "garble" /\ has(f.name) -> WithHeader(m, f.name, <<Opaque>>)
          [] f.kind = "prefix"  -> [m EXCEPT !.path = <<"/", "api">> \o m.path]
          [] f.kind = "query"   -> [m EXCEPT !.query = <<"?", "q">>]
          [] f.kind = "body"    -> [m EXCEPT !.body = f.name]
          [] f.kind = "recode"  -> WithHeader(m, Signature(m), Encode(f.name, signed))
          [] f.kind = "time" /\ has("X-TIMESTAMP") -> WithHeader(m, "X-TIMESTAMP", <<"now">>)
          [] f.kind = "scheme" /\ has("Authorization") ->
               WithHeader(m, "Authorization",
                          <<"bearer", Space>> \o Credential(HeaderText(m, "Authorization")))
          [] f.kind = "space" /\ has("Authorization") ->
               WithHeader(m, "Authorization",
                          <<"Bearer", Space, Space>> \o Credential(HeaderText(m, "Authorization")))
          [] f.kind = "ids"     -> [m EXCEPT !.ids = f.ids]
          [] OTHER              -> m

\* It reaches the server, whose logger opens the root span.
Deliver(s, f) ==
    /\ phase = "idle"
    /\ f = NoFault \/ Altered(s.wire, f) # s.wire
    /\ phase' = "arrived"
    /\ arriving' = [wire |-> Altered(s.wire, f), origin |-> s, fault |-> f]
    /\ span' = ExtractFromHeaders(Altered(s.wire, f).ids)
    /\ UNCHANGED <<sent, verdict, meant, reply, got>>

-----------------------------------------------------------------------------
(* The server. *)

Verify(adapter, readable) ==
    /\ phase = "arrived"
    /\ LET m == arriving.wire
       IN  \/ /\ m.kind = "service" /\ readable
              /\ verdict' = [adapter |-> adapter, readable |-> readable,
                             error |-> VerifyRequest(Secret, adapter, m)]
           \/ /\ m.kind = "oauth" /\ adapter = "axum"
              /\ verdict' = [adapter |-> adapter, readable |-> readable,
                             error |-> VerifyOAuth(Secret, readable, m)]
           \/ /\ m.kind = "callback" /\ adapter = "axum" /\ readable
              /\ verdict' = [adapter |-> adapter, readable |-> readable,
                             error |-> VerifyBody(Secret, m)]
    /\ phase' = "judged"
    /\ UNCHANGED <<sent, arriving, span, meant, reply, got>>

Answer(r, type, json) ==
    /\ phase = "judged"
    /\ phase' = "answered"
    /\ meant' = [response |-> r, type |-> type]
    /\ reply' = Respond(r, json)
    /\ arriving' = NoArrival /\ verdict' = NoVerdict /\ span' = NoId
    /\ UNCHANGED <<sent, got>>

Refuse(service) ==
    /\ verdict.error # Fine
    /\ LET r == Failure(CryptoErrorClass(verdict.error), service) IN Answer(r, "struct", r.payload)

\* The handler succeeds; a payload the envelope refuses is its own server error.
Succeed(p, service, case) ==
    /\ verdict.error = Fine
    /\ LET r == IF PayloadError(p.json) = "Ok" THEN SuccessWithCase(p.json, service, case)
                ELSE Failure(InternalServerError, service)
       IN  Answer(r, p.type, p.again)

Fail(class, service) ==
    /\ verdict.error = Fine
    /\ LET r == Failure(class, service) IN Answer(r, "struct", r.payload)

\* The handler passes on what an upstream answered.
Relay(type, body) ==
    /\ verdict.error = Fine
    /\ LET r == Deserialize(type, body)
       IN  r # Undecoded /\ Answer(r, type, r.payload)

-----------------------------------------------------------------------------
(* The way back. *)

LoseAnswer ==
    /\ phase = "answered" /\ reply # Page
    /\ reply' = Page
    /\ UNCHANGED <<sent, phase, arriving, span, verdict, meant, got>>

Read ==
    /\ phase = "answered"
    /\ phase' = "read"
    /\ got' = Deserialize(meant.type, reply.body)
    /\ UNCHANGED <<sent, arriving, span, verdict, meant, reply>>

\* The client keeps what it read and may send the same message again.
Close ==
    /\ phase = "read"
    /\ phase' = "idle"
    /\ meant' = NoResponse /\ reply' = Page /\ got' = Undecoded
    /\ UNCHANGED <<sent, arriving, span, verdict>>

Adapters == {"axum", "actix", "actix_path"}

Next ==
    \/ \E key \in Keys : \/ \E c \in Requests : SignServiceRequest(key, c)
                         \/ \E t \in OAuthTries : SignOAuth(key, t)
                         \/ \E body \in Callbacks : CallBack(key, body)
    \/ \E s \in sent, f \in Faults \cup {NoFault} : Deliver(s, f)
    \/ \E adapter \in Adapters, readable \in BOOLEAN : Verify(adapter, readable)
    \/ \E service \in Services :
         \/ Refuse(service)
         \/ \E p \in Payloads, case \in {0, 5} : Succeed(p, service, case)
         \/ \E class \in ErrorClasses : Fail(class, service)
    \/ \E type \in PayloadTypes, body \in Upstreams : Relay(type, body)
    \/ LoseAnswer
    \/ Read
    \/ Close

Spec == Init /\ [][Next]_vars

-----------------------------------------------------------------------------
(* Properties. *)

\* What a verifier may fail with.
Layers == {"authorization", "input", "verification", "crypto"}
Kinds  == {"MissingHeader", "InvalidHeader", "UnsupportedScheme", "InvalidSeparator",
           "InvalidTimestamp", "QueryOrFragment", "InvalidSignatureEncoding",
           "InvalidSignatureLength", "SignatureMismatch", "InvalidPublicKey", "SignatureDecode",
           "InvalidRawSignature", "AsymmetricVerifyFailed", "SymmetricVerifyFailed",
           "MissingCredential", "InvalidCredential", "InvalidPath", "EmptyHeaderValue",
           "InvalidHeaderValue"}
Names  == {"", "Authorization", "X-SIGNATURE", "X-TIMESTAMP", "X-CLIENT-KEY", "X-Signature"}
Errors == {Fine} \cup {Err(l, k, n) : l \in Layers, k \in Kinds, n \in Names}

TypeOK ==
    /\ Cardinality(sent) <= MaxSent
    /\ phase \in {"idle", "arrived", "judged", "answered", "read"}
    /\ phase \in {"arrived", "judged"} <=> arriving # NoArrival
    /\ phase = "judged" <=> verdict # NoVerdict
    /\ arriving.origin \in sent \cup {NoMessage}
    /\ verdict.error \in Errors
    /\ meant.response.class \in ErrorClasses \cup {NoClass}
    /\ reply.status \in 100 .. 999
    /\ got.state \in {"Undecoded", "Success", "Failure", "Malformed"}

\* Two requests signed with one key carry one signature only if they agree in
\* every signed part: the parts are joined with colons, which a path and a
\* timestamp may hold and a credential may not (string_to_sign.rs, build).
OneReading ==
    \A a, b \in sent :
        /\ a.wire.kind = b.wire.kind /\ a.key = b.key
        /\ HeaderText(a.wire, Signature(a.wire)) = HeaderText(b.wire, Signature(b.wire))
        => a.signed = b.signed

\* The signed parts of a message as it arrived.
ArrivedParts(m) ==
    CASE m.kind = "service" ->
           <<<<m.method>>, m.path, Credential(HeaderText(m, "Authorization")), <<m.body>>,
             HeaderText(m, "X-TIMESTAMP")>>
      [] m.kind = "oauth" -> <<HeaderText(m, "X-CLIENT-KEY"), HeaderText(m, "X-TIMESTAMP")>>
      [] OTHER -> <<<<m.body>>>>

\* Faults that leave what is signed as it was, for the adapter that reads it.
Harmless(f, adapter) ==
    \/ f.kind \in {"none", "scheme", "ids"}
    \/ f.kind = "query" /\ adapter # "actix_path"
    \/ f.kind \in {"drop", "garble"} /\ f.name \in {"X-PARTNER-ID", "CHANNEL-ID", "X-EXTERNAL-ID"}

\* A verified request is, in every part the recipe signs, one that the holder of
\* the server's secret signed; and such a request is verified, whichever adapter
\* reads it and whatever else changed on its way.
VerifiedAsSent ==
    LET o == arriving.origin
    IN  phase = "judged" =>
          /\ verdict.error = Fine =>
               o.key = Secret /\ o.signed = ArrivedParts(arriving.wire)
          /\ /\ o.key = Secret /\ verdict.readable
             /\ o.signed = ArrivedParts(o.wire)
             /\ Harmless(arriving.fault, verdict.adapter)
             => verdict.error = Fine

\* The class the README gives a refusal: the server's own key is a server error,
\* a part that is not authentication a bad request, all else unauthorized.
Blamed ==
    LET f == arriving.fault
    IN  IF ~ verdict.readable THEN InternalServerError
        ELSE IF \/ f.kind \in {"drop", "garble"} /\ f.name \in {"X-TIMESTAMP", "X-CLIENT-KEY"}
                \/ f.kind = "time"
                \/ f.kind = "query" /\ verdict.adapter = "actix_path"
        THEN BadRequest ELSE Unauthorized

\* A refused message is answered for what befell it, not for the first check
\* that happened to fail (snap-response/src/error.rs over snap-crypto's errors).
\* For a path passed with its query this is not what the adapter's documentation
\* says: see QueryFailsTheSignature.
BlameIsRight ==
    phase = "judged" /\ verdict.error # Fine => CryptoErrorClass(verdict.error) = Blamed

\* What snap-crypto-actix/src/lib.rs:38-41 says of a caller that passes
\* `path_and_query()` to `verify_request`: it "computes a different stringToSign
\* and the mismatch surfaces as a failed signature rather than as the mistake it
\* is".  A request that would verify, with a query on its way, through the adapter
\* that is handed the path: the constructor refuses such a path first.
QueryFailsTheSignature ==
    LET o == arriving.origin
    IN  /\ phase = "judged" /\ verdict.adapter = "actix_path"
        /\ arriving.fault.kind = "query" /\ o.key = Secret /\ o.signed = ArrivedParts(o.wire)
        => verdict.error = Verification("SignatureMismatch", "")

\* The HTTP status and the body of every answer agree, and a 2xx status is only
\* put on an answer its client reads as a success: a payload that changes its
\* mind while it is serialized, or a malformed upstream code, costs the status.
HonestStatus ==
    phase = "answered" /\ reply # Page =>
        LET code == reply.body.code
        IN  /\ reply.status = IF IsValidResponseCode(code) THEN Http(code) ELSE 500
            /\ reply.status \in 200 .. 299 =>
                 Deserialize(meant.type, reply.body).state = "Success"

\* What the server meant is what the client reads, state, code, message, payload
\* and error class, built there or relayed from an upstream, with two exceptions.
\* A payload that failed on its way out is that service's internal server error.
\* And a payload that is nothing is sent as no members (envelope.rs:250) and read
\* as an object first (envelope.rs:403-415): a type that an empty object is a
\* value of reads that value, which of an option is some and not none.
ReadAsWritten ==
    phase = "read" /\ reply # Page =>
        LET r     == meant.response
            empty == FromValue(meant.type, Object(<<>>))
        IN  \/ got = r
            \/ /\ r.state = "Success"
               /\ got = Failure(InternalServerError, Service(r.code))
            \/ /\ r.state = "Success" /\ r.payload = Null /\ empty # Unread
               /\ got = [r EXCEPT !.payload = empty]

\* The root span carries the id that the first well-formed header of the chain
\* states, and none only when no header of it is well formed; the yardstick is
\* the grammar of each header, not the parser (correlation.rs:29-81, 178-199).
SpanNamesTheCall ==
    phase = "arrived" =>
        LET ids       == arriving.wire.ids
            stated(i) == IF HeaderChain[i] \in DOMAIN ids
                         THEN IdsStated(HeaderChain[i], ids[HeaderChain[i]]) ELSE {}
        IN  \/ span = NoId /\ \A i \in DOMAIN HeaderChain : stated(i) = {}
            \/ \E i \in DOMAIN HeaderChain :
                 stated(i) = {span} /\ \A j \in 1 .. i - 1 : stated(j) = {}

=============================================================================
