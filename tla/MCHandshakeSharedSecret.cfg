\* The shared-secret handshake under lost, replayed and forged messages,
\* with an initiator whose key source may name a secret the responder's
\* key lookup does not hold: key agreement.
CONSTANTS
    MaxHandshakes = 3
    MaxFaults = 2
    MaxChan = 2
    ConfigValid = TRUE
    ResponderMode = "shared_secret"
    KeyIds = {1, 2}
    ResponderKeyIds = {1}
    MaxTime = 0
    NonceMode = "increment_last_rx"
    MaxNonce = 3
    MaxPayloadSize = 3
    TruncLength = 1
SPECIFICATION Spec
INVARIANT KeyAgreement
CHECK_DEADLOCK FALSE
