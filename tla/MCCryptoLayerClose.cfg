\* The initiator's lower layer closes it twice, at any point of the
\* handshake or of a transmit, over reliable links: after each the
\* initiator starts a new handshake; every accepted message is drained,
\* one data unit per fragment (the payload budget is one more than the tag).
CONSTANTS
    MaxHandshakes = 3
    MaxFaults = 0
    MaxChan = 5
    ConfigValid = TRUE
    NonceMode = "increment_last_rx"
    MaxNonce = 4
    MaxPayloadSize = 2
    TruncLength = 1
    MaxReassemblySize = 2
    MsgCount = 1
    MsgLength = 2
    Senders = {"I", "R"}
    Closers = {"I"}
    MaxCloses = 2
SPECIFICATION Spec
INVARIANT FragmentsCarryData
INVARIANT NonceNeverReused
PROPERTY InitiatorRestartsAfterClose
PROPERTY TxDrains
CHECK_DEADLOCK FALSE
