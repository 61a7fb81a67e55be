\* The initiator transmits two messages under three lost, replayed or
\* forged frames, strict nonce increments: a replay of both fragments of
\* the first message after the second is the shortest reordering.
CONSTANTS
    MaxHandshakes = 2
    MaxFaults = 3
    MaxChan = 9
    ConfigValid = TRUE
    NonceMode = "increment_last_rx"
    MaxNonce = 4
    MaxPayloadSize = 2
    TruncLength = 1
    MaxReassemblySize = 2
    MsgCount = 2
    MsgLength = 2
    Senders = {"I"}
    Closers = {}
    MaxCloses = 0
SPECIFICATION Spec
INVARIANT DeliveredInOrder
INVARIANT ReassemblyRoundTrip

CHECK_DEADLOCK FALSE
