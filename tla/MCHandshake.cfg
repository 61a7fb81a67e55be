\* Handshake under loss, replay and forged messages: key agreement of the
\* sessions of one transcript and the session start estimate under clock
\* rollbacks.
CONSTANTS
    MaxHandshakes = 3
    MaxFaults = 2
    MaxChan = 2
    ConfigValid = TRUE
    ResponderMode = "public_key"
    KeyIds = {}
    ResponderKeyIds = {}
    MaxTime = 2
    NonceMode = "increment_last_rx"
    MaxNonce = 3
    MaxPayloadSize = 3
    TruncLength = 1
SPECIFICATION Spec
INVARIANT KeyAgreement
PROPERTY SessionStartWithinRoundTrip
CHECK_DEADLOCK FALSE
