SPECIFICATION Spec
CONSTANTS
    BodyHash <- MCBodyHash
    TokenLexemes <- MCTokenLexemes
    Instants <- MCInstants
    HeaderChain <- MCHeaderChain
    MaxCorrelationIdLen = 5
    TraceIdLen = 2
    ParentIdLen = 2
    Graphic <- MCGraphic
    Requests <- MCRequests
    OAuthTries <- MCOAuthTries
    Callbacks <- MCCallbacks
    Keys = {"current", "rotated"}
    Secret = "current"
    CallerIds <- MCCallerIds
    Faults <- MCFaults
    Payloads <- MCPayloads
    Upstreams <- MCUpstreams
    Services = {7}
    MaxSent = 2
INVARIANTS
    TypeOK
    OneReading
    VerifiedAsSent
    BlameIsRight
    HonestStatus
    ReadAsWritten
    SpanNamesTheCall
