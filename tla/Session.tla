------------------------------ MODULE Session ------------------------------
(***************************************************************************)
(* The Session of one peer: its two directional keys and nonce counters    *)
(* (spec 4.2), with the truncated-HMAC session mode of                     *)
(* TruncatedMacSessionMode.cpp. Session.cpp itself is not part of the      *)
(* sources: initialize, reset, format_session_message and validate_message *)
(* are written from the spec. Session-time bounds are not modelled.        *)
(*                                                                         *)
(* A session is a record; each operation is an operator from the session   *)
(* (and its input) to a result record, so that the layer that owns the     *)
(* session composes it into its own actions.                               *)
(***************************************************************************)
EXTENDS Messages

CONSTANTS
    NonceMode,       \* "increment_last_rx" or "greater_than_last_rx"
    MaxNonce,        \* Session::Param max_nonce
    MaxPayloadSize,  \* payload budget of one SessionData, in data units
    TruncLength      \* trunc_length of the truncated HMAC, in data units

ASSUME NonceMode \in {"increment_last_rx", "greater_than_last_rx"}
ASSUME MaxNonce \in Nat \ {0}
ASSUME MaxPayloadSize \in Nat /\ TruncLength \in Nat

\* the unset session a layer starts with and returns to on reset
NoSession == [valid |-> FALSE, rx |-> NoKey, tx |-> NoKey, rxNonce |-> 0, txNonce |-> 0]

\* Session::initialize: fresh keys installed wholesale, both nonces zero
Initialize(rx, tx) == [valid |-> TRUE, rx |-> rx, tx |-> tx, rxNonce |-> 0, txNonce |-> 0]

\* Session::initialize installing the keys with SessionKeys::copy
\* (BufferTypes.h), which copies the source's rx key and then its tx key
\* into rx_key and never writes tx_key: the session transmits with the key
\* it had before, here the empty key of a session never initialised.
InitializeByCopy(rx, tx) ==
    [valid |-> TRUE, rx |-> tx, tx |-> NoKey, rxNonce |-> 0, txNonce |-> 0]

\* the HMAC over (metadata bytes || user data) under a key
Mac(key, nonce, fir, fin, data) ==
    [key |-> key, nonce |-> nonce, fir |-> fir, fin |-> fin, data |-> data]

\* mutant: one data unit too many reserved for the tag
MaxWritableUserDataLengthOffByOne(maxPayload) ==
    IF maxPayload < TruncLength THEN 0 ELSE maxPayload - TruncLength - 1

\* TruncatedMacSessionMode::max_writable_user_data_length
MaxWritableUserDataLength(maxPayload) ==
    IF maxPayload < TruncLength THEN 0 ELSE maxPayload - TruncLength

\* TruncatedMacSessionMode::read: recompute the MAC over the metadata and
\* user data with the rx key and compare it with the tag the message
\* carries (secure_equals). A payload shorter than the tag is a
\* bad_buffer_size error, which a well-formed SessionData never is.
MacRead(key, m) == m.tag = Mac(key, m.nonce, m.fir, m.fin, m.data)

\* TruncatedMacSessionMode::write: the tag over metadata and user data
MacWrite(key, nonce, fir, fin, userdata) == Mac(key, nonce, fir, fin, userdata)

\* mutant: the received nonce is not checked at all
NonceAcceptableUnchecked(last, new) == TRUE

\* NonceMode.h: how a received nonce is checked against the last one
NonceAcceptable(last, new) ==
    IF NonceMode = "increment_last_rx" THEN new = last + 1 ELSE new > last

\* Session::validate_message: unset session, bad nonce or failed MAC is an
\* error that leaves the session as it was; on success the rx nonce takes
\* the message's nonce and the user data is returned.
ValidateMessage(s, m) ==
    IF s.valid /\ NonceAcceptable(s.rxNonce, m.nonce) /\ MacRead(s.rx, m)
    THEN [ok |-> TRUE, session |-> [s EXCEPT !.rxNonce = m.nonce], payload |-> m.data]
    ELSE [ok |-> FALSE, session |-> s, payload |-> <<>>]

\* mutant: the nonce limit is checked one message too late
FormatSessionMessageLateLimit(s, fir, remainder) ==
    LET n    == s.txNonce + 1
        w    == MaxWritableUserDataLength(MaxPayloadSize)
        data == SubSeq(remainder, 1, IF Len(remainder) < w THEN Len(remainder) ELSE w)
        fin  == Len(remainder) <= w
    IN  IF s.valid /\ s.txNonce <= MaxNonce
        THEN [ok |-> TRUE, session |-> [s EXCEPT !.txNonce = n],
              msg |-> SessionData(n, fir, fin, data, MacWrite(s.tx, n, fir, fin, data)),
              remainder |-> SubSeq(remainder, Len(data) + 1, Len(remainder))]
        ELSE [ok |-> FALSE, session |-> s, msg |-> ReplyHandshakeError,
              remainder |-> remainder]

\* Session::format_session_message: an unset session or a tx nonce that has
\* reached max_nonce is an error. Otherwise the tx nonce is incremented and
\* as much of the remainder as fits is authenticated; fin is set when that
\* is all of it. The result carries the remainder left to send.
FormatSessionMessage(s, fir, remainder) ==
    LET n    == s.txNonce + 1
        w    == MaxWritableUserDataLength(MaxPayloadSize)
        data == SubSeq(remainder, 1, IF Len(remainder) < w THEN Len(remainder) ELSE w)
        fin  == Len(remainder) <= w
    IN  IF s.valid /\ s.txNonce < MaxNonce
        THEN [ok |-> TRUE, session |-> [s EXCEPT !.txNonce = n],
              msg |-> SessionData(n, fir, fin, data, MacWrite(s.tx, n, fir, fin, data)),
              remainder |-> SubSeq(remainder, Len(data) + 1, Len(remainder))]
        ELSE [ok |-> FALSE, session |-> s, msg |-> ReplyHandshakeError,
              remainder |-> remainder]
=============================================================================
