\* The initiator transmits three two-fragment messages under two lost,
\* replayed or forged frames, greater_than_last_rx mode. The sixth fragment
\* would pass max_nonce 5, and a lost last fragment of one message lets
\* the next message's last fragment follow its first.
CONSTANTS
    MaxHandshakes = 2
    MaxFaults = 2
    MaxChan = 10
    ConfigValid = TRUE
    NonceMode = "greater_than_last_rx"
    MaxNonce = 5
    MaxPayloadSize = 2
    TruncLength = 1
    MaxReassemblySize = 2
    MsgCount = 3
    MsgLength = 2
    Senders = {"I"}
    Closers = {}
    MaxCloses = 0
SPECIFICATION Spec
INVARIANT TypeOK DeliveredIntact DeliveredInOrder
CHECK_DEADLOCK FALSE
