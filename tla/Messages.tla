----------------------------- MODULE Messages ------------------------------
(***************************************************************************)
(* The SSP21 wire messages (crypto/gen/*.h) as records of one shape:       *)
(* fn is the function code, eph the ephemeral public key (or nonce) of a   *)
(* handshake message, kid the key identifier a shared-secret request puts  *)
(* in handshake_data (0: empty), ok whether a request is well formed, and  *)
(* nonce, fir, fin, data and tag the AuthMetadata, user data and auth tag  *)
(* of SessionData.                                                         *)
(* Encoding and length prefixes are left out: a message that fails to      *)
(* parse is dropped before it changes any state (CryptoLayer::handle_message),*)
(* which the model's loss already covers.                                  *)
(***************************************************************************)
EXTENDS HandshakeCrypto

\* the auth tag field of a message that carries none
NoTag == [key |-> NoKey, nonce |-> 0, fir |-> FALSE, fin |-> FALSE, data |-> <<>>]

HandshakeMessage(fn, e, ok) ==
    [fn |-> fn, eph |-> e, kid |-> 0, ok |-> ok,
     nonce |-> 0, fir |-> FALSE, fin |-> FALSE, data |-> <<>>, tag |-> NoTag]

RequestHandshakeBegin(e) == HandshakeMessage("request_handshake_begin", e, TRUE)

\* RequestHandshakeBegin of the shared-secret mode: a random nonce as the
\* ephemeral data and the identifier of the shared secret
RequestHandshakeBeginWithKey(nonce, kid) == [RequestHandshakeBegin(nonce) EXCEPT !.kid = kid]

\* a RequestHandshakeBegin the responder rejects (version, key length,
\* certificate mode or algorithms)
BadRequestHandshakeBegin == HandshakeMessage("request_handshake_begin", NoEph, FALSE)

\* ReplyHandshakeBegin(ephemeral_data, certificate data)
ReplyHandshakeBegin(e) == HandshakeMessage("reply_handshake_begin", e, TRUE)

\* ReplyHandshakeError(handshake_error)
ReplyHandshakeError == HandshakeMessage("reply_handshake_error", NoEph, FALSE)

\* SessionData(metadata = {nonce, flags {fir, fin}}, user_data, auth_tag)
SessionData(nonce, fir, fin, data, tag) ==
    [fn |-> "session_data", eph |-> NoEph, kid |-> 0, ok |-> TRUE,
     nonce |-> nonce, fir |-> fir, fin |-> fin, data |-> data, tag |-> tag]
=============================================================================
