---------------------------- MODULE ResponderAuth ----------------------------
(***************************************************************************)
(* The four-message Responder of Responder.cpp and                         *)
(* ResponderHandshakeStates.cpp: Idle and WaitForAuth, the chaining key,   *)
(* the authentication key and the RequestHandshakeAuth MAC                 *)
(* (HandshakeAuthentication.cpp), behind a lower layer that may close and  *)
(* reopen it (IUpperLayer in LayerInterfaces.h).                           *)
(*                                                                         *)
(* Its peer is an initiator of the four-message exchange written from spec *)
(* 4.1 (no initiator of this exchange is in the sources), over two FIFO    *)
(* links on which messages may be lost and an attacker may replay what    *)
(* was sent or forge what needs no key. Handshake.h is not in the sources:*)
(* set_ck, mix_ck, derive_authentication_key and initialize_session are   *)
(* written from spec 4.1 in the symbolic style of HandshakeCrypto.         *)
(***************************************************************************)
EXTENDS Session, FiniteSets
LOCAL INSTANCE SequencesExt

CONSTANTS
    MaxHandshakes,   \* bound on the initiator's handshake attempts
    MaxFaults,       \* bound on messages lost, replayed or forged
    MaxChan,         \* bound on messages in flight on one link
    MaxCloses        \* bound on the lower layer closing the responder

ASSUME MaxHandshakes \in Nat \ {0} /\ MaxFaults \in Nat
ASSUME MaxChan \in Nat \ {0} /\ MaxCloses \in Nat

VARIABLES
    rState,     \* Responder::handshake_state: "Idle" or "WaitForAuth"
    rEph,       \* responder ephemeral key pairs generated so far
    rCk,        \* ctx.handshake chaining key
    rAuthKey,   \* ctx.handshake authentication key
    rSession,   \* ctx.session
    isOpen,     \* IUpperLayer::is_open_ of the Responder
    upperOpen,  \* IUpperLayer::is_open_ of the layer above the Responder
    rTxReady,   \* the responder's lower layer can accept a transmit
    closes,     \* times the lower layer closed the responder
    iState,     \* initiator: "Idle", "WaitBeginReply", "WaitAuthReply", "Open"
    iEph,       \* initiator ephemeral key pairs generated so far
    iCk,        \* initiator chaining key
    iAuthKey,   \* initiator authentication key
    iSession,   \* initiator session
    net,        \* per peer: the messages in flight to it
    sent,       \* <<destination, message>> for every transmit
    faults      \* link faults so far

respVars == <<rState, rEph, rCk, rAuthKey, rSession, isOpen, upperOpen, rTxReady, closes>>
initVars == <<iState, iEph, iCk, iAuthKey, iSession>>
vars == <<respVars, initVars, net, sent, faults>>

Peers == {"I", "R"}

\* every begin the responder answers uses one ephemeral key pair: the
\* initiator's attempts and the requests the attacker replays
MaxRespEph == MaxHandshakes + MaxFaults

-----------------------------------------------------------------------------
(* Symbolic handshake (Handshake.h, spec 4.1)                              *)

\* a public key of small order that crypto_scalarmult refuses
LowOrderKey == <<"low", 0>>

\* Crypto::dh_x25519 and SodiumBackend::dh_x25519: fails with
\* dh_x25519_fail when crypto_scalarmult does
DHFails(pub) == pub = LowOrderKey

\* set_ck(msg_bytes) and mix_ck(input)
SetCk(msg) == <<msg>>
MixCk(ck, input) == Append(ck, input)

\* derive_authentication_key(message, ...): the reply mixed into the
\* chaining key, then hkdf(ck, dh outputs) -> (ck, authentication key)
DeriveAuthenticationKey(ck, message, ikm) ==
    LET keys == HKDF(MixCk(ck, message), ikm) IN [ck |-> <<keys[1]>>, auth |-> keys[2]]

\* the byte each side's MAC covers (HandshakeAuthentication get_calc_byte /
\* get_auth_byte): the initiator computes over "I" and checks "R"
CalcByte(mode) == IF mode = "initiator" THEN "I" ELSE "R"
AuthByte(mode) == IF mode = "initiator" THEN "R" ELSE "I"

\* HandshakeAuthentication::calc_handshake_mac_with_macfunc
CalcHandshakeMac(key, mode) == Mac(key, 0, FALSE, FALSE, <<CalcByte(mode)>>)

\* mutant: the auth MAC is not checked
AuthHandshakeUnchecked(key, mode, mac) == TRUE

\* HandshakeAuthentication::auth_handshake_with_mac: recompute and compare
AuthHandshakeWithMac(key, mode, mac) == Mac(key, 0, FALSE, FALSE, <<AuthByte(mode)>>) = mac

\* RequestHandshakeAuth(mac) and ReplyHandshakeAuth(mac); ok = FALSE is a
\* message read_msg rejects
RequestHandshakeAuth(mac) == [HandshakeMessage("request_handshake_auth", NoEph, TRUE) EXCEPT !.tag = mac]
MalformedHandshakeAuth == HandshakeMessage("request_handshake_auth", NoEph, FALSE)
ReplyHandshakeAuth(mac) == [HandshakeMessage("reply_handshake_auth", NoEph, TRUE) EXCEPT !.tag = mac]

\* a frame Responder::process drops before dispatch: another address, no
\* payload or an unknown function
Unroutable == HandshakeMessage("unknown", NoEph, FALSE)

\* initialize_session: hkdf(ck, {}) -> the two session keys, the
\* initiator transmitting with the first
SessionKeys(ck) == HKDF(ck, <<>>)

-----------------------------------------------------------------------------
(* Links                                                                   *)

\* lower->transmit: onto the link to the other peer (n: the links after
\* this step's receive)
Send(p, m, n) ==
    LET to == IF p = "I" THEN "R" ELSE "I" IN
    /\ Len(n[to]) < MaxChan
    /\ net' = [n EXCEPT ![to] = Append(@, m)]
    /\ sent' = sent \cup {<<to, m>>}

\* a link loses a message
Lose ==
    /\ faults < MaxFaults
    /\ faults' = faults + 1
    /\ \E p \in Peers, i \in 1..MaxChan :
        /\ i <= Len(net[p])
        /\ net' = [net EXCEPT ![p] = RemoveAt(@, i)]
    /\ UNCHANGED <<respVars, initVars, sent>>

\* what the attacker can send without a key
Forgeable ==
    {<<"R", BadRequestHandshakeBegin>>, <<"R", RequestHandshakeBegin(LowOrderKey)>>,
     <<"R", RequestHandshakeAuth(NoTag)>>, <<"R", MalformedHandshakeAuth>>,
     <<"R", Unroutable>>, <<"R", SessionData(1, TRUE, TRUE, <<>>, NoTag)>>,
     <<"I", ReplyHandshakeError>>}

\* an attacker replays a message sent earlier or forges one
Inject ==
    /\ faults < MaxFaults
    /\ faults' = faults + 1
    /\ \E d \in sent \cup Forgeable :
        /\ Len(net[d[1]]) < MaxChan
        /\ net' = [net EXCEPT ![d[1]] = Append(@, d[2])]
    /\ UNCHANGED <<respVars, initVars, sent>>

-----------------------------------------------------------------------------
(* Responder                                                               *)

\* Context::reply_with_handshake_error: a ReplyHandshakeError to the peer
ReplyWithHandshakeError(n) ==
    /\ Send("R", ReplyHandshakeError, n)
    /\ rTxReady' = FALSE

\* Context::validate: version, key length, certificate mode, no certificates
\* and the requested algorithms; a message carries the outcome as ok
ValidateBegin(m) == m.ok

\* HandshakeIdle::on_message(RequestHandshakeBegin). A request that fails
\* Context::validate is answered with the error and leaves the responder
\* Idle. Otherwise: a fresh ephemeral key (handshake.initialize), the
\* chaining key set to the request, the ReplyHandshakeBegin written, and the
\* authentication key derived from the reply and the three DH outputs. A DH
\* that fails is answered with an internal error, Idle; else the reply goes
\* out and the responder waits for the auth. The frame writer always has
\* room for the reply here (its res.is_error branch is not reached).
HandshakeIdleOnBegin(m, n) ==
    \/ /\ ~ValidateBegin(m)
       /\ ReplyWithHandshakeError(n)
       /\ rState' = "Idle"
       /\ UNCHANGED <<rEph, rCk, rAuthKey>>
    \/ /\ ValidateBegin(m)
       /\ rEph < MaxRespEph
       /\ rEph' = rEph + 1
       /\ LET e     == EphKey("R", rEph + 1)
              reply == ReplyHandshakeBegin(e)
              dh    == TripleDH(StaticKey("R"), e, StaticKey("I"), m.eph)
              k     == DeriveAuthenticationKey(SetCk(m), reply, <<dh.dh1, dh.dh2, dh.dh3>>)
          IN  IF DHFails(m.eph)
              THEN /\ ReplyWithHandshakeError(n)
                   /\ rCk' = MixCk(SetCk(m), reply)
                   /\ rState' = "Idle"
                   /\ UNCHANGED rAuthKey
              ELSE /\ Send("R", reply, n)
                   /\ rTxReady' = FALSE
                   /\ rCk' = k.ck
                   /\ rAuthKey' = k.auth
                   /\ rState' = "WaitForAuth"

\* HandshakeIdle::on_message(RequestHandshakeAuth): no prior begin
HandshakeIdleOnAuth(n) ==
    /\ ReplyWithHandshakeError(n)
    /\ UNCHANGED <<rState, rEph, rCk, rAuthKey>>

\* mutant: a begin that arrives while waiting for the auth is dropped
HandshakeWaitForAuthOnBeginIgnored(m, n) ==
    /\ net' = n
    /\ UNCHANGED <<rState, rEph, rCk, rAuthKey, rTxReady, sent>>

\* HandshakeWaitForAuth::on_message(RequestHandshakeBegin): the new
\* request is processed as in Idle and replaces the pending handshake
HandshakeWaitForAuthOnBegin(m, n) == HandshakeIdleOnBegin(m, n)

\* HandshakeWaitForAuth::on_message(RequestHandshakeAuth): a MAC that does
\* not verify under the authentication key is answered with an
\* authentication error, Idle. Otherwise the auth request and then the
\* ReplyHandshakeAuth (the responder's MAC) are mixed into the chaining
\* key, the session is initialised from it, the reply transmitted, the
\* upper layer opened, and the responder is Idle again.
HandshakeWaitForAuthOnAuth(m, n) ==
    IF ~AuthHandshakeWithMac(rAuthKey, "responder", m.tag)
    THEN /\ ReplyWithHandshakeError(n)
         /\ rState' = "Idle"
         /\ UNCHANGED <<rEph, rCk, rAuthKey, rSession, upperOpen>>
    ELSE LET reply == ReplyHandshakeAuth(CalcHandshakeMac(rAuthKey, "responder"))
             ck    == MixCk(MixCk(rCk, m), reply)
             keys  == SessionKeys(ck)
         IN  /\ rCk' = ck
             /\ rSession' = Initialize(keys[1], keys[2])
             /\ Send("R", reply, n)
             /\ rTxReady' = FALSE
             /\ upperOpen' = TRUE
             /\ rState' = "Idle"
             /\ UNCHANGED <<rEph, rAuthKey>>

\* Responder::handle_handshake_message: a message read_msg rejects is
\* answered with bad_message_format and the state is kept; else the
\* current state's on_message runs
HandleHandshakeMessage(m, n) ==
    \/ /\ m.fn = "request_handshake_auth" /\ ~m.ok
       /\ ReplyWithHandshakeError(n)
       /\ UNCHANGED <<rState, rEph, rCk, rAuthKey, rSession, upperOpen>>
    \/ /\ m.fn = "request_handshake_begin"
       /\ IF rState = "Idle" THEN HandshakeIdleOnBegin(m, n)
                             ELSE HandshakeWaitForAuthOnBegin(m, n)
       /\ UNCHANGED <<rSession, upperOpen>>
    \/ /\ m.fn = "request_handshake_auth" /\ m.ok
       /\ IF rState = "Idle" THEN HandshakeIdleOnAuth(n) /\ UNCHANGED <<rSession, upperOpen>>
                             ELSE HandshakeWaitForAuthOnAuth(m, n)

\* Responder::handle_session_message: the message is read and logged, and
\* nothing else is done with it yet
HandleSessionMessage(n) ==
    /\ net' = n
    /\ UNCHANGED <<rState, rEph, rCk, rAuthKey, rSession, upperOpen, rTxReady, sent>>

\* Responder::process: frames for another address, empty frames and
\* unknown functions are dropped; the rest go by function code
Process(m, n) ==
    CASE m.fn \in {"request_handshake_begin", "request_handshake_auth"} -> HandleHandshakeMessage(m, n)
      [] m.fn = "session_data" -> HandleSessionMessage(n)
      [] OTHER -> /\ net' = n
                  /\ UNCHANGED <<rState, rEph, rCk, rAuthKey, rSession, upperOpen, rTxReady, sent>>

\* on_rx_ready_impl / on_tx_ready_impl: a frame is read only while the
\* layer is open and the lower layer can take the response
ResponderReceive ==
    /\ isOpen
    /\ rTxReady
    /\ net["R"] # <<>>
    /\ Process(Head(net["R"]), [net EXCEPT !["R"] = Tail(@)])
    /\ UNCHANGED <<isOpen, closes, initVars, faults>>

\* the lower layer finished a transmit
LowerTxReady ==
    /\ ~rTxReady
    /\ rTxReady' = TRUE
    /\ UNCHANGED <<rState, rEph, rCk, rAuthKey, rSession, isOpen, upperOpen, closes,
                   initVars, net, sent, faults>>

\* IUpperLayer::on_open: when closed, mark open and run on_open_impl,
\* which in the Responder does nothing
LowerOpen ==
    /\ ~isOpen
    /\ isOpen' = TRUE
    /\ UNCHANGED <<rState, rEph, rCk, rAuthKey, rSession, upperOpen, rTxReady, closes,
                   initVars, net, sent, faults>>

\* Responder::on_close_impl: only the handshake state goes back to Idle
OnCloseImpl == rState' = "Idle"

\* IUpperLayer::on_close: when open, mark closed and run on_close_impl
LowerClose ==
    /\ isOpen
    /\ closes < MaxCloses
    /\ isOpen' = FALSE
    /\ closes' = closes + 1
    /\ OnCloseImpl
    /\ UNCHANGED <<rEph, rCk, rAuthKey, rSession, upperOpen, rTxReady, initVars, net, sent, faults>>

-----------------------------------------------------------------------------
(* Initiator of the four-message exchange (spec 4.1)                       *)

\* begin(): a fresh ephemeral key, the request sent, the chaining key set.
\* A new attempt starts from the retry timer, which like the response timer
\* outlasts a round trip: nothing of an earlier attempt is in flight.
InitiatorBegin ==
    /\ iState = "Idle"
    /\ net["I"] = <<>> /\ net["R"] = <<>>
    /\ iEph < MaxHandshakes
    /\ LET req == RequestHandshakeBegin(EphKey("I", iEph + 1)) IN
       /\ Send("I", req, net)
       /\ iCk' = SetCk(req)
    /\ iEph' = iEph + 1
    /\ iState' = "WaitBeginReply"
    /\ UNCHANGED <<respVars, iAuthKey, iSession, faults>>

\* the ReplyHandshakeBegin: the same derivation with the DH outputs in the
\* initiator's order, the auth request with its MAC sent and mixed in
InitiatorOnReplyBegin(m, n) ==
    LET dh   == TripleDH(StaticKey("I"), EphKey("I", iEph), StaticKey("R"), m.eph)
        k    == DeriveAuthenticationKey(iCk, m, <<dh.dh1, dh.dh3, dh.dh2>>)
        auth == RequestHandshakeAuth(CalcHandshakeMac(k.auth, "initiator"))
    IN  /\ Send("I", auth, n)
        /\ iCk' = MixCk(k.ck, auth)
        /\ iAuthKey' = k.auth
        /\ iState' = "WaitAuthReply"
        /\ UNCHANGED iSession

\* the ReplyHandshakeAuth whose MAC verifies: the reply mixed in and the
\* session initialised, transmitting with the first key
InitiatorOnReplyAuth(m, n) ==
    LET ck   == MixCk(iCk, m)
        keys == SessionKeys(ck)
    IN  /\ iCk' = ck
        /\ iSession' = Initialize(keys[2], keys[1])
        /\ iState' = "Open"
        /\ net' = n
        /\ UNCHANGED <<iAuthKey, sent>>

\* a message taken off the initiator's link; an error ends the attempt,
\* anything unexpected is ignored (spec 4.1)
InitiatorReceive ==
    /\ net["I"] # <<>>
    /\ LET m == Head(net["I"])
           n == [net EXCEPT !["I"] = Tail(@)]
       IN  \/ /\ iState = "WaitBeginReply" /\ m.fn = "reply_handshake_begin"
              /\ InitiatorOnReplyBegin(m, n)
           \/ /\ iState = "WaitAuthReply" /\ m.fn = "reply_handshake_auth"
              /\ AuthHandshakeWithMac(iAuthKey, "initiator", m.tag)
              /\ InitiatorOnReplyAuth(m, n)
           \/ /\ iState \in {"WaitBeginReply", "WaitAuthReply"}
              /\ m.fn = "reply_handshake_error"
              /\ iState' = "Idle"
              /\ net' = n
              /\ UNCHANGED <<iCk, iAuthKey, iSession, sent>>
           \/ /\ ~ \/ iState = "WaitBeginReply" /\ m.fn = "reply_handshake_begin"
                   \/ iState = "WaitAuthReply" /\ m.fn = "reply_handshake_auth"
                                               /\ AuthHandshakeWithMac(iAuthKey, "initiator", m.tag)
                   \/ iState \in {"WaitBeginReply", "WaitAuthReply"} /\ m.fn = "reply_handshake_error"
              /\ net' = n
              /\ UNCHANGED <<iState, iCk, iAuthKey, iSession, sent>>
    /\ UNCHANGED <<respVars, iEph, faults>>

\* the response timer: it outlasts a round trip, so it fires only when
\* nothing is in flight any more
InitiatorTimeout ==
    /\ iState \in {"WaitBeginReply", "WaitAuthReply"}
    /\ net["I"] = <<>> /\ net["R"] = <<>>
    /\ iState' = "Idle"
    /\ UNCHANGED <<respVars, iEph, iCk, iAuthKey, iSession, net, sent, faults>>

-----------------------------------------------------------------------------

\* Responder::Responder: handshake_state = HandshakeIdle, an empty session;
\* the lower layer has not opened it yet
Init ==
    /\ rState = "Idle"
    /\ rEph = 0
    /\ rCk = <<>>
    /\ rAuthKey = NoKey
    /\ rSession = NoSession
    /\ isOpen = FALSE
    /\ upperOpen = FALSE
    /\ rTxReady = TRUE
    /\ closes = 0
    /\ iState = "Idle"
    /\ iEph = 0
    /\ iCk = <<>>
    /\ iAuthKey = NoKey
    /\ iSession = NoSession
    /\ net = [p \in Peers |-> <<>>]
    /\ sent = {}
    /\ faults = 0

Next ==
    \/ ResponderReceive
    \/ LowerTxReady
    \/ LowerOpen
    \/ LowerClose
    \/ InitiatorBegin
    \/ InitiatorReceive
    \/ InitiatorTimeout
    \/ Lose
    \/ Inject

\* the lower layer reopens the responder and finishes its transmits, the
\* responder reads what is delivered, the initiator runs; the links and
\* the closes are not fair (they are bounded instead)
Fairness ==
    /\ WF_vars(ResponderReceive)
    /\ WF_vars(LowerTxReady)
    /\ WF_vars(LowerOpen)
    /\ WF_vars(InitiatorBegin)
    /\ WF_vars(InitiatorReceive)
    /\ WF_vars(InitiatorTimeout)

Spec == Init /\ [][Next]_vars /\ Fairness

-----------------------------------------------------------------------------
(* Properties                                                              *)

TypeOK ==
    /\ rState \in {"Idle", "WaitForAuth"}
    /\ iState \in {"Idle", "WaitBeginReply", "WaitAuthReply", "Open"}
    /\ rEph \in 0..MaxRespEph /\ iEph \in 0..MaxHandshakes
    /\ {isOpen, upperOpen, rTxReady} \subseteq BOOLEAN
    /\ closes \in 0..MaxCloses /\ faults \in 0..MaxFaults
    /\ \A p \in Peers : Len(net[p]) <= MaxChan

\* Mutual authentication (spec 4.1): once the initiator has verified the
\* ReplyHandshakeAuth and opened, the responder holds the very session it
\* derived while it still holds one (a close may drop it, spec 3), whatever
\* begin and auth requests were replayed to it since:
\* HandshakeWaitForAuth only initialises a session for an auth MAC made
\* under the authentication key of its current handshake.
MutualSession ==
    iState = "Open" /\ rSession.valid =>
        /\ rSession.rx = iSession.tx
        /\ rSession.tx = iSession.rx

\* The handshake completes (spec 4.1): when the initiator has more attempts
\* than the faults and closes that can spoil one, it ends up open. This
\* needs the responder to restart on a begin while it waits for an auth
\* (ResponderHandshakeStates.cpp, HandshakeWaitForAuth).
HandshakeCompletes == <>(iState = "Open")

\* The four-message handshake implements MutualAuth: the initiator's
\* "Open" is MutualAuth's opened and the sessions' keys are its keys. The
\* responder only re-derives its session while the initiator has not
\* opened (a replayed or forged begin or auth never replaces the session
\* of a completed handshake; a close may only drop it), the initiator
\* opens with the responder's current keys, and a responder holding a
\* session is eventually joined.
MA == INSTANCE MutualAuth WITH
        opened   <- iState = "Open",
        respKeys <- <<rSession.rx, rSession.tx>>,
        initKeys <- <<iSession.tx, iSession.rx>>,
        Unset    <- <<NoKey, NoKey>>

ClosedResponderHoldsNoSession ==
    ~isOpen => ~rSession.valid /\ ~upperOpen
=============================================================================
