\* The response-timeout handler as written in InitiatorHandshakeStates.cpp.
CONSTANTS
    MaxHandshakes = 2
    MaxFaults = 1
    MaxChan = 2
    ConfigValid = TRUE
    ResponderMode = "public_key"
    KeyIds = {}
    ResponderKeyIds = {}
    MaxTime = 0
    NonceMode = "increment_last_rx"
    MaxNonce = 3
    MaxPayloadSize = 3
    TruncLength = 1
    OnResponseTimeout <- OnResponseTimeoutStub
SPECIFICATION Spec
PROPERTY HandshakeResolves
CHECK_DEADLOCK FALSE
