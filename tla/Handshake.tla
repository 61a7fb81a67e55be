----------------------------- MODULE Handshake -----------------------------
(***************************************************************************)
(* The SSP21 handshake between one Initiator and one Responder, each       *)
(* behind its own lower layer, over two FIFO links that may lose messages  *)
(* and on which an attacker may replay what was sent or forge what needs   *)
(* no key (a malformed request, an error reply).                           *)
(*                                                                         *)
(*  Initiator: InitiatorHandshakeStates.cpp (Idle::on_handshake_required;  *)
(*    the WaitForBeginReply handlers there are stubs, the ones used here   *)
(*    are written from spec 4.1) and PublicKeyInitiatorHandshake.cpp.      *)
(*  Responder: PublicKeyResponderHandshake.cpp (process), or in the       *)
(*    shared-secret mode SharedSecretResponderHandshake.cpp (process) with *)
(*    an initiator written from spec 4.1.                                  *)
(*                                                                         *)
(* This module checks the handshake alone; CryptoLayer instantiates it and *)
(* adds the session data path.                                             *)
(***************************************************************************)
EXTENDS Session, FiniteSets
LOCAL INSTANCE SequencesExt

CONSTANTS
    MaxHandshakes,   \* bound on ephemeral key pairs each side generates
    MaxFaults,       \* bound on messages the links lose, replay or forge
    MaxChan,         \* bound on messages in flight on one link
    ConfigValid,     \* the initiator's CryptoSuite and frame size are usable
    ResponderMode,   \* "public_key" or "shared_secret"
    KeyIds,          \* key identifiers the initiator's key source may hand out
    ResponderKeyIds, \* key identifiers the responder's key lookup holds
    MaxTime          \* bound on the executor clock, in ticks

ASSUME MaxHandshakes \in Nat \ {0}
ASSUME MaxFaults \in Nat /\ MaxChan \in Nat \ {0}
ASSUME ConfigValid \in BOOLEAN
ASSUME ResponderMode \in {"public_key", "shared_secret"}
ASSUME KeyIds \subseteq Nat \ {0} /\ ResponderKeyIds \subseteq Nat \ {0}
ASSUME MaxTime \in Nat

VARIABLES
    ihs,               \* initiator handshake state
    handshakeRequired, \* initiator must (re)start the handshake
    iTimer,            \* initiator timer: "none", "response" or "retry"
    iEph,              \* initiator ephemeral key pairs generated so far
    iHash,             \* initiator transcript hash (handshake_hash)
    iTimeTx,           \* initiator time_request_tx: clock at the last request
    iStart,            \* start time the initiator's session was given
    now,               \* the initiator's executor clock
    rEph,              \* responder ephemeral key pairs generated so far
    session,           \* per peer: its Session
    txReady,           \* per peer: its lower layer can accept a transmit
    net,               \* per peer: the messages in flight to it
    sent,              \* <<destination, message>> for every transmit
    faults             \* link faults and clock rollbacks so far

hsVars == <<ihs, handshakeRequired, iTimer, iEph, iHash, iTimeTx, iStart, now,
            rEph, session, txReady, net, sent, faults>>

\* the initiator, with its clock
initVars == <<ihs, handshakeRequired, iTimer, iEph, iHash, iTimeTx, iStart, now>>

Peers == {"I", "R"}
Other(p) == IF p = "I" THEN "R" ELSE "I"

-----------------------------------------------------------------------------

\* lower->transmit(frame): the frame goes on the link to the other peer
\* (n is the links' contents after this step's receive, if any) and the
\* lower layer is busy until it reports tx ready again
Transmit(p, m, n) ==
    /\ Len(n[Other(p)]) < MaxChan
    /\ net' = [n EXCEPT ![Other(p)] = Append(@, m)]
    /\ sent' = sent \cup {<<Other(p), m>>}
    /\ txReady' = [txReady EXCEPT ![p] = FALSE]

-----------------------------------------------------------------------------
(* Initiator                                                               *)

\* PublicKeyInitiatorHandshake::initialize_session. In preshared-key mode
\* validation yields the configured responder key; salt = mix of the reply
\* into the transcript; kdf(salt, {dh1, dh3, dh2}) -> (tx, rx).
InitializeSession(h, eph, reply) ==
    LET salt == MixHandshakeHash(h, reply)
        ikm  == TripleDH(StaticKey("I"), eph, StaticKey("R"), reply.eph)
        keys == HKDF(salt, <<ikm.dh1, ikm.dh3, ikm.dh2>>)
    IN  Initialize(keys[2], keys[1])

\* the requests a new attempt may send, with the k-th ephemeral key pair or
\* nonce: in shared-secret mode with the identifier of a secret taken from
\* the key source (spec 4.1)
BeginRequests(k) ==
    IF ResponderMode = "public_key"
    THEN {RequestHandshakeBegin(EphKey("I", k))}
    ELSE {RequestHandshakeBeginWithKey(EphKey("I", k), kid) : kid \in KeyIds}

\* the initiator's session in shared-secret mode (spec 4.1): salt = mix of
\* the reply into the transcript, kdf(salt, {secret}) -> (tx, rx), the
\* secret being the one named by the request at the start of the transcript
SharedSecretInitializeSession(h, reply) ==
    LET keys == HKDF(MixHandshakeHash(h, reply), <<SharedSecret(h[1].kid)>>)
    IN  Initialize(keys[2], keys[1])

\* mutant: the request is sent without start_response_timer
OnHandshakeRequiredNoTimer ==
    /\ ihs = "Idle"
    /\ handshakeRequired
    /\ txReady["I"]
    /\ iEph < MaxHandshakes
    /\ handshakeRequired' = FALSE
    /\ IF ConfigValid
       THEN \E req \in BeginRequests(iEph + 1) :
            /\ iEph' = iEph + 1
            /\ iHash' = BeginRequestTransmit(req)
            /\ iTimeTx' = now
            /\ Transmit("I", req, net)
            /\ iTimer' = iTimer
            /\ ihs' = "WaitForBeginReply"
       ELSE /\ ihs' = "BadConfiguration"
            /\ UNCHANGED <<iEph, iHash, iTimeTx, txReady, net, sent, iTimer>>
    /\ UNCHANGED <<iStart, now, rEph, session, faults>>

\* InitiatorHandshake::Idle::on_handshake_required: needs the lower layer
\* ready; a configuration that cannot be set or written ends in
\* BadConfiguration; otherwise a fresh ephemeral key, the request sent,
\* the transcript started and the response timer armed.
OnHandshakeRequired ==
    /\ ihs = "Idle"
    /\ handshakeRequired
    /\ txReady["I"]
    /\ iEph < MaxHandshakes
    /\ handshakeRequired' = FALSE
    /\ IF ConfigValid
       THEN \E req \in BeginRequests(iEph + 1) :
            /\ iEph' = iEph + 1
            /\ iHash' = BeginRequestTransmit(req)
            /\ iTimeTx' = now
            /\ Transmit("I", req, net)
            /\ iTimer' = "response"
            /\ ihs' = "WaitForBeginReply"
       ELSE /\ ihs' = "BadConfiguration"
            /\ UNCHANGED <<iEph, iHash, iTimeTx, txReady, net, sent, iTimer>>
    /\ UNCHANGED <<iStart, now, rEph, session, faults>>

\* mutant: initialize_session without its clock rollback check
ClockRolledBackUnchecked(timeTx, t) == FALSE

\* initialize_session: a clock earlier than time_request_tx is a clock
\* rollback, and the session is not initialised
ClockRolledBack(timeTx, t) == t < timeTx

\* initialize_session's estimate of the session start: the request time
\* plus half the round trip, now - (now - time_request_tx) / 2 (integer
\* division). It is computed only after the rollback check, so the uint64
\* subtraction never wraps.
EstimateSessionStart(timeTx, t) == t - (t - timeTx) \div 2

\* WaitForBeginReply, ReplyHandshakeBegin, as spec 4.1 describes it; the
\* code's handler (InitiatorHandshakeStates.cpp:64-67) is a stub that
\* returns this. The spec's handler runs initialize_session,
\* which mixes the reply into the transcript before it can fail; on
\* success the keys are derived, the response timer cancelled and the
\* initiator open; a failure is a handshake error (spec 7): back to Idle
\* with the retry timer armed.
WaitForBeginReplyOnReply(m) ==
    /\ iHash' = MixHandshakeHash(iHash, m)
    /\ IF ClockRolledBack(iTimeTx, now)
       THEN /\ ihs' = "Idle"
            /\ iTimer' = "retry"
            /\ UNCHANGED <<session, iStart>>
       ELSE /\ ihs' = "Open"
            /\ session' = [session EXCEPT !["I"] =
                            IF ResponderMode = "public_key"
                            THEN InitializeSession(iHash, EphKey("I", iEph), m)
                            ELSE SharedSecretInitializeSession(iHash, m)]
            /\ iStart' = EstimateSessionStart(iTimeTx, now)
            /\ iTimer' = "none"

\* WaitForBeginReply, ReplyHandshakeError, as spec 4.1 and InitiatorTestSuite
\* describe it (the code's handler, lines 69-72, is a stub):
\* cancel the response timer, start the retry timer.
WaitForBeginReplyOnError ==
    /\ ihs' = "Idle"
    /\ iTimer' = "retry"
    /\ UNCHANGED <<session, iHash, iStart>>

\* the initiator's handling of a handshake message (CryptoLayer::process
\* dispatch): outside WaitForBeginReply a reply is ignored.
InitiatorOnHandshakeMessage(m) ==
    /\ IF ihs = "WaitForBeginReply"
       THEN IF m.fn = "reply_handshake_begin"
            THEN WaitForBeginReplyOnReply(m)
            ELSE WaitForBeginReplyOnError
       ELSE UNCHANGED <<ihs, session, iHash, iTimer, iStart>>
    /\ UNCHANGED <<handshakeRequired, iEph, iTimeTx, now>>

\* InitiatorHandshakeStates.cpp: WaitForBeginReply::on_response_timeout
OnResponseTimeoutStub == UNCHANGED <<ihs, iTimer>>

\* WaitForBeginReply::on_response_timeout as spec 4.1 describes it (the
\* code's is OnResponseTimeoutStub): back to Idle, arm the
\* retry timer
OnResponseTimeout ==
    /\ ihs' = "Idle"
    /\ iTimer' = "retry"

ResponseTimerFires ==
    /\ iTimer = "response"
    /\ ihs = "WaitForBeginReply"
    /\ OnResponseTimeout
    /\ UNCHANGED <<handshakeRequired, iEph, iHash, iTimeTx, iStart, now,
                   rEph, session, txReady, net, sent, faults>>

\* the retry timer asks for a new handshake
RetryTimerFires ==
    /\ iTimer = "retry"
    /\ iTimer' = "none"
    /\ handshakeRequired' = TRUE
    /\ UNCHANGED <<ihs, iEph, iHash, iTimeTx, iStart, now,
                   rEph, session, txReady, net, sent, faults>>

\* the executor clock advances
ClockTick ==
    /\ now < MaxTime
    /\ now' = now + 1
    /\ UNCHANGED <<ihs, handshakeRequired, iTimer, iEph, iHash, iTimeTx, iStart,
                   rEph, session, txReady, net, sent, faults>>

\* the executor clock is set back (a fault, bounded with the link faults)
ClockRollback ==
    /\ faults < MaxFaults
    /\ faults' = faults + 1
    /\ \E t \in 0..(now - 1) : now' = t
    /\ UNCHANGED <<ihs, handshakeRequired, iTimer, iEph, iHash, iTimeTx, iStart,
                   rEph, session, txReady, net, sent>>

-----------------------------------------------------------------------------
(* Responder                                                               *)

\* mutant: the responder takes the KDF outputs in the initiator's order
ResponderProcessSameOrder(m) ==
    LET e     == EphKey("R", rEph + 1)
        reply == ReplyHandshakeBegin(e)
        h     == HandshakeHasherCompute(m, reply)
        ikm   == TripleDH(StaticKey("R"), e, StaticKey("I"), m.eph)
        keys  == HKDF(h, <<ikm.dh1, ikm.dh2, ikm.dh3>>)
    IN  IF m.ok
        THEN [ok |-> TRUE, reply |-> reply, session |-> Initialize(keys[2], keys[1])]
        ELSE [ok |-> FALSE, reply |-> ReplyHandshakeError, session |-> session["R"]]

\* PublicKeyResponderHandshake::process: a request that fails validation is
\* a failure the caller answers with a ReplyHandshakeError, leaving the
\* session alone. Otherwise: a fresh ephemeral key pair, the reply, the
\* transcript hash of request and reply, kdf(h, {dh1, dh2, dh3}) -> (rx, tx)
\* and the session initialised with those keys.
ResponderProcess(m) ==
    LET e     == EphKey("R", rEph + 1)
        reply == ReplyHandshakeBegin(e)
        h     == HandshakeHasherCompute(m, reply)
        ikm   == TripleDH(StaticKey("R"), e, StaticKey("I"), m.eph)
        keys  == HKDF(h, <<ikm.dh1, ikm.dh2, ikm.dh3>>)
    IN  IF m.ok
        THEN [ok |-> TRUE, reply |-> reply, session |-> Initialize(keys[1], keys[2])]
        ELSE [ok |-> FALSE, reply |-> ReplyHandshakeError, session |-> session["R"]]

\* mutant: the shared-secret responder takes the KDF outputs as (tx, rx)
SharedSecretResponderProcessSwapped(m) ==
    LET nonce == EphKey("R", rEph + 1)
        reply == ReplyHandshakeBegin(nonce)
        keys  == HKDF(HandshakeHasherCompute(m, reply), <<SharedSecret(m.kid)>>)
    IN  IF m.ok /\ m.kid \in ResponderKeyIds
        THEN [ok |-> TRUE, reply |-> reply, session |-> Initialize(keys[2], keys[1])]
        ELSE [ok |-> FALSE, reply |-> ReplyHandshakeError, session |-> session["R"]]

\* SharedSecretResponderHandshake::process: a request whose ephemeral data
\* is not a nonce of the right length, or whose algorithms cannot be
\* configured, fails (m.ok); so does one naming a secret the key lookup does
\* not hold (key_not_found). Otherwise a random nonce is the reply's
\* ephemeral data, and kdf(hash(request, reply), {secret}) -> (rx, tx)
\* initialises the session. (The reply always fits the frame writer.)
SharedSecretResponderProcess(m) ==
    LET nonce == EphKey("R", rEph + 1)
        reply == ReplyHandshakeBegin(nonce)
        keys  == HKDF(HandshakeHasherCompute(m, reply), <<SharedSecret(m.kid)>>)
    IN  IF m.ok /\ m.kid \in ResponderKeyIds
        THEN [ok |-> TRUE, reply |-> reply, session |-> Initialize(keys[1], keys[2])]
        ELSE [ok |-> FALSE, reply |-> ReplyHandshakeError, session |-> session["R"]]

\* the responder's handling of a RequestHandshakeBegin taken off the link
\* (n: the links after that), by the process of the configured mode
ResponderOnRequest(m, n) ==
    LET res == IF ResponderMode = "public_key"
               THEN ResponderProcess(m)
               ELSE SharedSecretResponderProcess(m) IN
    /\ res.ok => rEph < MaxHandshakes
    /\ rEph' = IF res.ok THEN rEph + 1 ELSE rEph
    /\ session' = [session EXCEPT !["R"] = res.session]
    /\ Transmit("R", res.reply, n)

-----------------------------------------------------------------------------
(* Links                                                                   *)

\* a link loses a message
Lose ==
    /\ faults < MaxFaults
    /\ faults' = faults + 1
    /\ \E p \in Peers, i \in 1..MaxChan :
        /\ i <= Len(net[p])
        /\ net' = [net EXCEPT ![p] = RemoveAt(@, i)]

\* what an attacker can forge without any key: a malformed request, an
\* error reply and, in shared-secret mode, a request with its own nonce
\* naming any key identifier
Forgeable ==
    {<<"R", BadRequestHandshakeBegin>>, <<"I", ReplyHandshakeError>>} \cup
    IF ResponderMode = "public_key" THEN {}
    ELSE {<<"R", RequestHandshakeBeginWithKey(EphKey("A", 1), kid)>> : kid \in KeyIds}

\* an attacker replays a message sent earlier, or forges one
Inject ==
    /\ faults < MaxFaults
    /\ faults' = faults + 1
    /\ \E d \in sent \cup Forgeable :
        /\ Len(net[d[1]]) < MaxChan
        /\ net' = [net EXCEPT ![d[1]] = Append(@, d[2])]

-----------------------------------------------------------------------------
(* The handshake on its own                                                *)

\* a lower layer finished its transmit
LowerTxReady(p) ==
    /\ ~txReady[p]
    /\ txReady' = [txReady EXCEPT ![p] = TRUE]
    /\ UNCHANGED <<initVars, rEph, session, net, sent, faults>>

\* delivery to the initiator (it receives only when it could transmit)
InitiatorRx ==
    /\ net["I"] # <<>>
    /\ txReady["I"]
    /\ net' = [net EXCEPT !["I"] = Tail(@)]
    /\ InitiatorOnHandshakeMessage(Head(net["I"]))
    /\ UNCHANGED <<rEph, txReady, sent, faults>>

\* delivery to the responder
ResponderRx ==
    /\ net["R"] # <<>>
    /\ txReady["R"]
    /\ ResponderOnRequest(Head(net["R"]), [net EXCEPT !["R"] = Tail(@)])
    /\ UNCHANGED <<initVars, faults>>

\* the initiator's layer has just been opened: a handshake is required
Init ==
    /\ ihs = "Idle"
    /\ handshakeRequired = TRUE
    /\ iTimer = "none"
    /\ iEph = 0
    /\ iHash = <<>>
    /\ rEph = 0
    /\ session = [p \in Peers |-> NoSession]
    /\ txReady = [p \in Peers |-> TRUE]
    /\ net = [p \in Peers |-> <<>>]
    /\ sent = {}
    /\ faults = 0
    /\ iTimeTx = 0
    /\ iStart = 0
    /\ now = 0

Next ==
    \/ OnHandshakeRequired
    \/ InitiatorRx
    \/ ResponseTimerFires
    \/ RetryTimerFires
    \/ ResponderRx
    \/ \E p \in Peers : LowerTxReady(p)
    \/ ClockTick
    \/ ClockRollback
    \/ Lose /\ UNCHANGED <<initVars, rEph, session, txReady, sent>>
    \/ Inject /\ UNCHANGED <<initVars, rEph, session, txReady, sent>>

\* timers fire, lower layers finish their transmits and deliver what they
\* hold; the links are not fair (their faults are bounded instead)
Fairness ==
    /\ WF_hsVars(OnHandshakeRequired)
    /\ WF_hsVars(ResponseTimerFires)
    /\ WF_hsVars(RetryTimerFires)
    /\ \A p \in Peers : WF_hsVars(LowerTxReady(p))
    /\ WF_hsVars(InitiatorRx)
    /\ WF_hsVars(ResponderRx)

Spec == Init /\ [][Next]_hsVars /\ Fairness

-----------------------------------------------------------------------------
(* Properties                                                              *)

TypeOK ==
    /\ ihs \in {"Idle", "WaitForBeginReply", "Open", "BadConfiguration"}
    /\ handshakeRequired \in BOOLEAN
    /\ iTimer \in {"none", "response", "retry"}
    /\ iEph \in 0..MaxHandshakes /\ rEph \in 0..MaxHandshakes
    /\ \A p \in Peers : session[p].valid \in BOOLEAN
    /\ txReady \in [Peers -> BOOLEAN]
    /\ \A p \in Peers : Len(net[p]) <= MaxChan
    /\ faults \in 0..MaxFaults

\* Key agreement (spec 8): whenever the two sessions come from the same
\* handshake transcript, the initiator transmits with the key the responder
\* receives with and the other way round. This is what the opposite DH and
\* KDF output orders of PublicKeyInitiatorHandshake::initialize_session and
\* PublicKeyResponderHandshake::process have to achieve.
KeyAgreement ==
    (session["I"].valid /\ session["R"].valid /\ session["I"].tx.salt = session["R"].tx.salt)
        => /\ session["I"].tx = session["R"].rx
           /\ session["I"].rx = session["R"].tx

\* The session start estimate of PublicKeyInitiatorHandshake::
\* initialize_session lies within the round trip (spec 4.1): when the
\* initiator opens, the start time it gives its session is no earlier than
\* the time of its request and no later than the time it took the reply,
\* although the executor clock may have been set back in between.
SessionStartWithinRoundTrip ==
    [][ihs # "Open" /\ ihs' = "Open" => iTimeTx <= iStart' /\ iStart' <= now]_hsVars

\* An initiator waiting for a ReplyHandshakeBegin does not wait forever: the
\* response timer brings it back (spec 4.1 retries). Checked with the
\* code's on_response_timeout, which returns this.
HandshakeResolves ==
    (ihs = "WaitForBeginReply") ~> (ihs # "WaitForBeginReply")
=============================================================================
