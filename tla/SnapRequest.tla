----------------------------- MODULE SnapRequest -----------------------------
(***************************************************************************)
(* crates/snap-crypto: what a SNAP BI client signs and what the other side *)
(* verifies, as operators over one message.                                *)
(*                                                                         *)
(* A text is a sequence of lexemes, cut where the grammars of the code cut *)
(* it.  The digests and signatures are ideal: a digest names its body, a   *)
(* signature names its algorithm, its key and the text it was made over.   *)
(***************************************************************************)
EXTENDS Naturals, Sequences, SequencesExt

CONSTANTS
    BodyHash,      \* sha256_lower_hex of each body
    TokenLexemes,  \* lexemes of the b64token alphabet
    Instants       \* texts that parse as RFC 3339

\* A lexeme no HTTP header value can hold, and one that only survives as bytes:
\* a Rust String has no such lexeme.
Newline == "\n"
Opaque  == "\\xff"
Lexemes == STRING \ {Opaque}

Space      == " "
Whitespace == {Space, "\t"}

\* Digests collide nowhere, a token holds neither a separator nor a space, and
\* a timestamp begins with its only date, so that none ends in another.
ASSUME SnapRequestAssumption ==
    /\ \A a, b \in DOMAIN BodyHash : /\ {a, BodyHash[a]} \subseteq Lexemes
                                     /\ BodyHash[a] = BodyHash[b] => a = b
    /\ TokenLexemes \subseteq Lexemes \ ({":"} \cup Whitespace)
    /\ Instants \subseteq Seq(Lexemes) \ {<<>>}
    /\ \A a, b \in Instants : \A i \in 2 .. Len(b) : SubSeq(b, i, Len(b)) # a

-----------------------------------------------------------------------------
(* Errors, in the order a function looks for them. *)

Err(layer, kind, name) == [layer |-> layer, kind |-> kind, name |-> name]
Fine == Err("none", "Ok", "")
Reject(fails, error)  == IF fails THEN error ELSE Fine
Then(first, second) == IF first = Fine THEN second ELSE first

Authorization(kind) == Err("authorization", kind, "")
Input(kind, name)   == Err("input", kind, name)
Verification(kind, name) == Err("verification", kind, name)
Crypto(kind, name)  == Err("crypto", kind, name)

-----------------------------------------------------------------------------
(* The validated parts of a request. *)

\* Mutant: any visible text is a credential.
FromCredentialVisible(credential) ==
    Then(Reject(credential = <<>>, Authorization("MissingCredential")),
         Reject(Space \in ToSet(credential), Authorization("InvalidCredential")))

\* RFC 6750 b64token: token bytes, then only padding.
FromCredential(credential) ==
    LET padded(n) == /\ \A i \in 1 .. n : credential[i] \in TokenLexemes
                     /\ \A i \in n + 1 .. Len(credential) : credential[i] = "="
    IN  Then(Reject(credential = <<>>, Authorization("MissingCredential")),
             Reject(~ \E n \in 1 .. Len(credential) : padded(n),
                    Authorization("InvalidCredential")))

FirstSpace(text) == SelectInSeq(text, LAMBDA x : x = Space)
Scheme(authorization) == SubSeq(authorization, 1, FirstSpace(authorization) - 1)
Credential(authorization) ==
    SubSeq(authorization, FirstSpace(authorization) + 1, Len(authorization))

AccessToken(authorization) ==
    Then(Reject(FirstSpace(authorization) = 0, Authorization("InvalidSeparator")),
    Then(Reject(Scheme(authorization) \notin {<<"Bearer">>, <<"bearer">>},
                Authorization("UnsupportedScheme")),
    Then(Reject(Credential(authorization) = <<>>, Authorization("MissingCredential")),
    Then(Reject(ToSet(Credential(authorization)) \cap Whitespace # {},
                Authorization("InvalidSeparator")),
         FromCredential(Credential(authorization))))))

CanonicalPath(path) ==
    Then(Reject(path = <<>> \/ path[1] # "/", Input("InvalidPath", "")),
         Reject(ToSet(path) \cap {"?", "#"} # {}, Input("QueryOrFragment", "")))

SnapTimestamp(timestamp) ==
    Reject(timestamp \notin Instants, Input("InvalidTimestamp", ""))

Digits == {"0", "1", "2", "3", "4", "5", "6", "7", "8", "9"}
ExternalId(id) ==
    Reject(Len(id) # 9 \/ ~ ToSet(id) \subseteq Digits, Input("InvalidExternalId", ""))

ValidateHeader(name, text) ==
    Then(Reject(text = <<>>, Input("EmptyHeaderValue", name)),
         Reject(Newline \in ToSet(text), Input("InvalidHeaderValue", name)))

-----------------------------------------------------------------------------
(* Signatures and their wire encodings. *)

Hmac(secret, text) == <<"hmac-sha512", secret>> \o text
Rsa(pair, text)    == <<"rsa-sha256", pair>> \o text

HmacSize == 64
RsaSize  == 256
SignatureSize(bytes) ==
    CASE bytes = <<>>                -> 0
      [] bytes[1] = "hmac-sha512"    -> HmacSize
      [] bytes[1] = "rsa-sha256"     -> RsaSize
      [] OTHER                       -> 96

Encode(encoding, bytes) == <<encoding>> \o bytes
\* Standard base64 refuses an unpadded base64url text; a lowercase hexadecimal
\* text is base64 too, of other and half as many bytes again.
IsBase64(wire)   == wire = <<>> \/ wire[1] # "base64url"
FromBase64(wire) ==
    IF wire = <<>> \/ wire[1] = "base64" THEN SubSeq(wire, 2, Len(wire)) ELSE wire

-----------------------------------------------------------------------------
(* What is signed. *)

\* Mutant: the body hash is left out.
ServiceStringNoBody(method, path, credential, body, timestamp) ==
    <<method, ":">> \o path \o <<":">> \o credential \o <<":">> \o timestamp

ServiceString(method, path, credential, body, timestamp) ==
    <<method, ":">> \o path \o <<":">> \o credential
        \o <<":", BodyHash[body], ":">> \o timestamp

OAuthString(client, timestamp) == client \o <<"|">> \o timestamp

\* ServiceStringToSign::new after AccessToken::from_credential.
CanonicalRequest(c) ==
    Then(FromCredential(c.credential),
         Then(CanonicalPath(c.path), SnapTimestamp(c.timestamp)))

\* ServiceRequest::new
NewServiceRequest(c) ==
    Then(CanonicalRequest(c),
         Then(ValidateHeader("X-PARTNER-ID", c.partner),
              Then(ValidateHeader("CHANNEL-ID", c.channel), ExternalId(c.external))))

ServiceHeaders(secret, c) ==
    LET text == ServiceString(c.method, c.path, c.credential, c.body, c.timestamp)
    IN  [h \in {"X-PARTNER-ID", "CHANNEL-ID", "X-EXTERNAL-ID", "X-TIMESTAMP",
                "X-SIGNATURE", "Authorization"} |->
           CASE h = "X-PARTNER-ID"  -> c.partner
             [] h = "CHANNEL-ID"    -> c.channel
             [] h = "X-EXTERNAL-ID" -> c.external
             [] h = "X-TIMESTAMP"   -> c.timestamp
             [] h = "X-SIGNATURE"   -> Encode("base64", Hmac(secret, text))
             [] h = "Authorization" -> <<"Bearer", Space>> \o c.credential]

\* OAuthStringToSign::new
NewOAuthString(client, timestamp) ==
    Then(ValidateHeader("X-CLIENT-KEY", client), SnapTimestamp(timestamp))

\* OAuthHeaders::new is given its timestamp apart from the one that was signed.
NewOAuthHeaders(client, timestamp, signature) ==
    Then(ValidateHeader("X-CLIENT-KEY", client),
         Then(SnapTimestamp(timestamp), ValidateHeader("X-SIGNATURE", signature)))

OAuthHeaders(client, timestamp, signature) ==
    [h \in {"X-CLIENT-KEY", "X-TIMESTAMP", "X-SIGNATURE"} |->
       CASE h = "X-CLIENT-KEY" -> client
         [] h = "X-TIMESTAMP"  -> timestamp
         [] h = "X-SIGNATURE"  -> signature]

-----------------------------------------------------------------------------
(* Verification of an arriving message. *)

HeaderText(m, name) == IF name \in DOMAIN m.headers THEN m.headers[name] ELSE <<>>

HeaderStr(m, name, layer) ==
    Then(Reject(name \notin DOMAIN m.headers, Err(layer, "MissingHeader", name)),
         Reject(Opaque \in ToSet(HeaderText(m, name)), Err(layer, "InvalidHeader", name)))

\* What the canonical string is rebuilt from.  An Actix caller that holds no
\* request may hand verify_request a path with its query.
PathSeen(adapter, m) == IF adapter = "actix_path" THEN m.path \o m.query ELSE m.path

ServiceRequestParts(m, path) ==
    LET wire == HeaderText(m, "X-SIGNATURE")
    IN  Then(CanonicalPath(path),
             Then(AccessToken(HeaderText(m, "Authorization")),
                  Then(SnapTimestamp(HeaderText(m, "X-TIMESTAMP")),
                       Then(Reject(~ IsBase64(wire),
                                   Verification("InvalidSignatureEncoding", "")),
                            Reject(SignatureSize(FromBase64(wire)) # HmacSize,
                                   Verification("InvalidSignatureLength", ""))))))

VerifyServiceRequest(secret, m, path) ==
    LET text == ServiceString(m.method, path, Credential(HeaderText(m, "Authorization")),
                              m.body, HeaderText(m, "X-TIMESTAMP"))
    IN  Reject(FromBase64(HeaderText(m, "X-SIGNATURE")) # Hmac(secret, text),
               Verification("SignatureMismatch", ""))

VerifyRequest(secret, adapter, m) ==
    Then(HeaderStr(m, "X-SIGNATURE", "verification"),
         Then(HeaderStr(m, "X-TIMESTAMP", "verification"),
              Then(HeaderStr(m, "Authorization", "verification"),
                   Then(ServiceRequestParts(m, PathSeen(adapter, m)),
                        VerifyServiceRequest(secret, m, PathSeen(adapter, m))))))

SignatureFromBase64(wire) ==
    Reject(~ IsBase64(wire), Crypto("SignatureDecode", ""))

\* verify_oauth, behind a handler that reads the three headers and its own key.
VerifyOAuth(pair, readable, m) ==
    LET wire   == HeaderText(m, "X-SIGNATURE")
        client == HeaderText(m, "X-CLIENT-KEY")
        at     == HeaderText(m, "X-TIMESTAMP")
    IN  Then(Reject(~ readable, Crypto("InvalidPublicKey", "")),
        Then(HeaderStr(m, "X-CLIENT-KEY", "crypto"),
        Then(HeaderStr(m, "X-TIMESTAMP", "crypto"),
        Then(HeaderStr(m, "X-SIGNATURE", "crypto"),
        Then(NewOAuthString(client, at),
        Then(SignatureFromBase64(wire),
        Then(Reject(SignatureSize(FromBase64(wire)) # RsaSize,
                    Crypto("InvalidRawSignature", "")),
             Reject(FromBase64(wire) # Rsa(pair, OAuthString(client, at)),
                    Crypto("AsymmetricVerifyFailed", "")))))))))

\* BodyHmacVerifier::verify_body
VerifyBody(secret, m) ==
    LET wire == HeaderText(m, "X-Signature")
    IN  Then(HeaderStr(m, "X-Signature", "crypto"),
             Then(SignatureFromBase64(wire),
                  Reject(FromBase64(wire) # Hmac(secret, <<m.body>>),
                         Crypto("SymmetricVerifyFailed", ""))))

=============================================================================
