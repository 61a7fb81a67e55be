\* greater_than_last_rx mode; the initiator sends two messages and its lower
\* layer may close it once; one frame may be lost, replayed or forged. The
\* responder's Reassembler is reset only by a close of its own, so a
\* fragment left over from the old session meets the new session's fragments.
CONSTANTS
    MaxHandshakes = 2
    MaxFaults = 1
    MaxChan = 9
    ConfigValid = TRUE
    NonceMode = "greater_than_last_rx"
    MaxNonce = 3
    MaxPayloadSize = 2
    TruncLength = 1
    MaxReassemblySize = 2
    MsgCount = 2
    MsgLength = 2
    Senders = {"I"}
    Closers = {"I"}
    MaxCloses = 1
SPECIFICATION Spec
INVARIANT DeliveredIntact
CHECK_DEADLOCK FALSE
