\* Responder::on_close_impl only resets the handshake state: the session
\* and the upper layer stay open after the lower layer closes.
CONSTANTS
    MaxHandshakes = 2
    MaxFaults = 0
    MaxChan = 2
    MaxCloses = 1
    NonceMode = "increment_last_rx"
    MaxNonce = 3
    MaxPayloadSize = 3
    TruncLength = 1
SPECIFICATION Spec
INVARIANT ClosedResponderHoldsNoSession
CHECK_DEADLOCK FALSE
