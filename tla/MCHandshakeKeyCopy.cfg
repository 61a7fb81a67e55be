\* Reliable links; the sessions install their keys with SessionKeys::copy.
CONSTANTS
    MaxHandshakes = 1
    MaxFaults = 0
    MaxChan = 2
    ConfigValid = TRUE
    ResponderMode = "public_key"
    KeyIds = {}
    ResponderKeyIds = {}
    MaxTime = 0
    NonceMode = "increment_last_rx"
    MaxNonce = 3
    MaxPayloadSize = 3
    TruncLength = 1
    Initialize <- InitializeByCopy
SPECIFICATION Spec
INVARIANT KeyAgreement
CHECK_DEADLOCK FALSE
