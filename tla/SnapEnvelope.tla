---------------------------- MODULE SnapEnvelope ----------------------------
(***************************************************************************)
(* crates/snap-response: response codes, the error taxonomy, the three     *)
(* states of a response, and their flat JSON form.                         *)
(*                                                                         *)
(* A JSON value is its kind and, for an object, the members it has.  The   *)
(* envelope is generic in its payload, and a payload type is what it reads *)
(* a value as: nothing ("unit"), an object with the member "amount"        *)
(* ("struct") or one that may leave it out ("record"), an option of either *)
(* ("struct option", "record option"), or any JSON there is ("value").     *)
(***************************************************************************)
EXTENDS Naturals, Sequences

-----------------------------------------------------------------------------
(* The 61 error classes, each an HTTP status and a case code. *)

CaseCount ==
    [h \in {400, 401, 403, 404, 405, 409, 429, 500, 504} |->
       CASE h = 400 -> 3  [] h = 401 -> 5 [] h = 403 -> 24 [] h = 404 -> 20
         [] h = 405 -> 2  [] h = 409 -> 2 [] h = 429 -> 1  [] h = 500 -> 3 [] h = 504 -> 1]

Class(http, case) == [http |-> http, case |-> case]
ErrorClasses == UNION {{Class(h, c) : c \in 0 .. CaseCount[h] - 1} : h \in DOMAIN CaseCount}
NoClass == Class(0, 0)

BadRequest          == Class(400, 0)
Unauthorized        == Class(401, 0)
InternalServerError == Class(500, 1)

FromHttpAndCase(http, case) ==
    IF Class(http, case) \in ErrorClasses THEN Class(http, case) ELSE NoClass

\* What a failure to sign or to verify answers with.
AuthHeaders == {"Authorization", "X-SIGNATURE", "X-Signature"}

\* Mutant: header names compared exactly.
IsAuthHeaderExact(name) == name \in AuthHeaders \ {"X-Signature"}

IsAuthHeader(name) == name \in AuthHeaders

CryptoFailureClass(error) ==
    CASE error.kind \in {"InvalidPublicKey", "InvalidSecretKey"} -> "Configuration"
      [] \/ error.layer = "authorization"
         \/ error.kind \in {"InvalidSignatureEncoding", "InvalidSignatureLength",
                            "SignatureMismatch", "SignatureDecode", "InvalidRawSignature",
                            "SymmetricVerifyFailed", "AsymmetricVerifyFailed"}
         \/ error.kind \in {"MissingHeader", "InvalidHeader"} /\ IsAuthHeader(error.name)
                                                              -> "Authentication"
      [] \/ error.layer = "input"
         \/ error.kind \in {"MissingHeader", "InvalidHeader"} /\ ~ IsAuthHeader(error.name)
                                                              -> "InvalidRequest"
      [] OTHER                                                -> "Internal"

\* Mutant: the case code of the class after the last unauthorized one.
CryptoErrorClassNext(error) ==
    IF CryptoFailureClass(error) = "Authentication" THEN Class(401, CaseCount[401])
    ELSE InternalServerError

CryptoErrorClass(error) ==
    CASE CryptoFailureClass(error) = "Authentication" -> Unauthorized
      [] CryptoFailureClass(error) = "InvalidRequest" -> BadRequest
      [] OTHER                                        -> InternalServerError

-----------------------------------------------------------------------------
(* responseCode: seven digits on the wire, anything else is kept as it came. *)

WireLen == 7
Http(raw)    == 100 * raw[1] + 10 * raw[2] + raw[3]
Service(raw) == 10 * raw[4] + raw[5]
Case(raw)    == 10 * raw[6] + raw[7]

ResponseCodeError(raw) ==
    IF Len(raw) # WireLen THEN "Length"
    ELSE IF \E i \in 1 .. WireLen : raw[i] \notin 0 .. 9 THEN "NonDigit"
    ELSE IF Http(raw) < 100 THEN "HttpStatus" ELSE "Ok"

IsValidResponseCode(raw) == ResponseCodeError(raw) = "Ok"

FromParts(http, service, case) ==
    <<http \div 100, (http \div 10) % 10, http % 10,
      service \div 10, service % 10, case \div 10, case % 10>>

-----------------------------------------------------------------------------
(* Payloads. *)

Object(members) == [kind |-> "object", members |-> members]
Null   == [kind |-> "null", members |-> <<>>]
Scalar == [kind |-> "scalar", members |-> <<>>]

Reserved == {"responseCode", "responseMessage"}

\* PayloadObject::new
PayloadError(json) ==
    CASE json.kind = "scalar"                                        -> "NotObject"
      [] json.kind = "object" /\ DOMAIN json.members \cap Reserved # {} -> "ReservedKey"
      [] OTHER                                                       -> "Ok"

PayloadTypes == {"unit", "struct", "struct option", "record", "record option", "value"}

\* What serde_json::from_value makes of a JSON value for a payload type: a value,
\* in the form it would serialize to again, or Unread.
Unread == [kind |-> "unread", members |-> <<>>]
FromValue(type, json) ==
    LET amount == "amount" \in DOMAIN json.members
    IN  CASE type = "value" -> json
          [] json.kind = "null" /\ type \in {"unit", "struct option", "record option"} -> Null
          [] /\ json.kind = "object" /\ amount
             /\ type \in {"struct", "struct option", "record", "record option"} ->
               Object([k \in {"amount"} |-> json.members[k]])
          [] json.kind = "object" /\ ~ amount /\ type \in {"record", "record option"} ->
               Object(<<>>)
          [] OTHER -> Unread

\* Mutant: without the second look at an empty object.
SuccessPayloadObjectOnly(type, members) == FromValue(type, Object(members))

\* deserialize_success_payload: as an object first, as null if it has no members.
SuccessPayload(type, members) ==
    LET object == FromValue(type, Object(members))
    IN  IF object = Unread /\ DOMAIN members = {} THEN FromValue(type, Null) ELSE object

-----------------------------------------------------------------------------
(* SnapResponse. *)

Response(state, code, message, payload, class) ==
    [state |-> state, code |-> code, message |-> message, payload |-> payload, class |-> class]

SuccessWithCase(payload, service, case) ==
    Response("Success", FromParts(200, service, case), "Successful", payload, NoClass)

Failure(class, service) ==
    Response("Failure", FromParts(class.http, service, class.case), "Failed",
             Object(<<>>), class)

HttpStatus(r) == IF r.state = "Malformed" THEN 500 ELSE Http(r.code)

\* A body on the wire: the two envelope members it has, and the others.
Body(code, message, members) ==
    [fields |-> Reserved, code |-> code, message |-> message, members |-> members]

\* Serialize asks the payload for its JSON again: json is what it says this time.
Serializes(r, json) == r.state = "Success" => PayloadError(json) = "Ok"
Serialize(r, json) ==
    Body(r.code, r.message, IF r.state = "Success" THEN json.members ELSE r.payload.members)

InternalErrorBody(service) ==
    LET r == Failure(InternalServerError, service) IN Serialize(r, r.payload)

\* Mutant: the status is applied before the body is serialized.
RespondStatusFirst(r, json) ==
    [status |-> HttpStatus(r),
     body |-> IF Serializes(r, json) THEN Serialize(r, json) ELSE InternalErrorBody(Service(r.code))]

\* The responders of both frameworks.
Respond(r, json) ==
    IF Serializes(r, json)
    THEN [status |-> HttpStatus(r), body |-> Serialize(r, json)]
    ELSE [status |-> 500,
          body |-> InternalErrorBody(IF r.state = "Malformed" THEN 0 ELSE Service(r.code))]

\* Deserialize; Undecoded when it fails.
Undecoded == Response("Undecoded", <<>>, "", Unread, NoClass)
Deserialize(type, body) ==
    LET readable == body.fields = Reserved /\ DOMAIN body.members \cap Reserved = {}
        valid    == IsValidResponseCode(body.code)
        success  == valid /\ Http(body.code) \in 200 .. 299
        payload  == SuccessPayload(type, body.members)
        other(state, class) ==
            Response(state, body.code, body.message, Object(body.members), class)
    IN  CASE ~ readable \/ (success /\ payload = Unread) -> Undecoded
          [] readable /\ success /\ payload # Unread ->
               Response("Success", body.code, body.message, payload, NoClass)
          [] readable /\ valid /\ ~ success ->
               other("Failure", FromHttpAndCase(Http(body.code), Case(body.code)))
          [] OTHER -> other("Malformed", NoClass)

=============================================================================
