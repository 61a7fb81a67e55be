\* Reliable links, the initiator transmits two messages, the responder's
\* upper layer may refuse a complete message and pull it later.
CONSTANTS
    MaxHandshakes = 1
    MaxFaults = 0
    MaxChan = 4
    ConfigValid = TRUE
    NonceMode = "increment_last_rx"
    MaxNonce = 4
    MaxPayloadSize = 2
    TruncLength = 1
    MaxReassemblySize = 2
    MsgCount = 2
    MsgLength = 2
    Senders = {"I"}
    Closers = {}
    MaxCloses = 0
SPECIFICATION Spec
PROPERTY ParkedFrameTaken
CHECK_DEADLOCK FALSE
