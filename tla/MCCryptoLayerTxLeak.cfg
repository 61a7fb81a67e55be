\* Reliable links, the initiator's nonce limit is reached in the middle of
\* its message.
CONSTANTS
    MaxHandshakes = 1
    MaxFaults = 0
    MaxChan = 3
    ConfigValid = TRUE
    NonceMode = "increment_last_rx"
    MaxNonce = 1
    MaxPayloadSize = 2
    TruncLength = 1
    MaxReassemblySize = 2
    MsgCount = 1
    MsgLength = 2
    Senders = {"I"}
    Closers = {}
    MaxCloses = 0
SPECIFICATION Spec
INVARIANT TxIdleWhenClosed
CHECK_DEADLOCK FALSE
