\* The four-message responder under two lost, replayed or forged messages
\* and a close: mutual authentication of the session, and completion of
\* the handshake with more initiator attempts than faults and closes.
CONSTANTS
    MaxHandshakes = 4
    MaxFaults = 2
    MaxChan = 2
    MaxCloses = 1
    NonceMode = "increment_last_rx"
    MaxNonce = 3
    MaxPayloadSize = 3
    TruncLength = 1
SPECIFICATION Spec
INVARIANT MutualSession
PROPERTY HandshakeCompletes
 
CHECK_DEADLOCK FALSE
