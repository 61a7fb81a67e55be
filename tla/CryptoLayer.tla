---------------------------- MODULE CryptoLayer ----------------------------
(***************************************************************************)
(* Two CryptoLayers, the Initiator's and the Responder's (CryptoLayer.cpp), *)
(* each between an application upper layer and a transport lower layer:    *)
(* the handshake of module Handshake, then application messages cut into   *)
(* SessionData fragments (TxState, Session::format_session_message),       *)
(* validated (Session::validate_message), reassembled (Reassembler) and    *)
(* handed to the upper layer, which may refuse them for now                *)
(* (IUpperLayer::on_rx_ready returning false) and pull them later          *)
(* (CryptoLayer::receive).                                                 *)
(*                                                                         *)
(* The lower layer of each peer offers the frame at the head of its link;  *)
(* a frame the CryptoLayer refuses (can_receive false) stays with the      *)
(* lower layer, parked, until the CryptoLayer calls lower->receive().      *)
(***************************************************************************)
EXTENDS Session, Reassembler, TxState, FiniteSets

CONSTANTS MaxHandshakes, MaxFaults, MaxChan, ConfigValid,
          MsgCount,    \* application messages each upper layer transmits
          MsgLength,   \* data units in one application message
          Senders,     \* the peers whose upper layers transmit
          Closers,     \* the peers whose lower layers may close them
          MaxCloses    \* bound on closes

ASSUME MsgCount \in Nat /\ MsgLength \in Nat \ {0} /\ Senders \subseteq {"I", "R"}
ASSUME Closers \subseteq {"I", "R"} /\ MaxCloses \in Nat

VARIABLES ihs, handshakeRequired, iTimer, iEph, iHash, rEph, session,
          txReady, net, sent, faults,
          tx,          \* per peer: TxState
          reasm,       \* per peer: Reassembler
          isRxReady,   \* per peer: a complete message waits for the upper layer
          upperOpen,   \* per peer: IUpperLayer is_open
          parked,      \* per peer: the lower layer holds a refused frame
          nextMsg,     \* per peer: application messages handed to transmit()
          delivered,   \* per peer: messages its upper layer has accepted
          layerOpen,   \* per peer: IUpperLayer is_open of the CryptoLayer
          closes       \* closes so far

\* the public-key deployment of the handshake; the clock is not modelled here
HS == INSTANCE Handshake WITH ResponderMode <- "public_key", KeyIds <- {}, ResponderKeyIds <- {},
                              MaxTime <- 0, iTimeTx <- 0, iStart <- 0, now <- 0

initVars == <<ihs, handshakeRequired, iTimer, iEph, iHash>>
hsVars == <<initVars, rEph, session, txReady, net, sent, faults>>
clVars == <<tx, reasm, isRxReady, upperOpen, parked, nextMsg, delivered, layerOpen, closes>>
vars == <<hsVars, clVars>>

Peers == HS!Peers
Other(p) == HS!Other(p)

\* the k-th application message of peer p: MsgLength distinct data units
AppMsg(p, k) == [j \in 1..MsgLength |-> <<p, k, j>>]

-----------------------------------------------------------------------------

\* mutant: frames are taken while a complete message still waits
CanReceiveIgnoringRx(p) == txReady[p]

\* CryptoLayer::can_receive (Responder.h): the lower layer could carry a
\* response and no complete message waits for the upper layer
CanReceive(p) == txReady[p] /\ ~isRxReady[p]

\* CryptoLayer::check_receive, run when the lower layer has just become
\* ready to transmit, so that can_receive is !is_rx_ready: then
\* lower->receive() asks again for a frame the lower layer holds
CheckReceive(p) ==
    parked' = IF ~isRxReady[p] THEN [parked EXCEPT ![p] = FALSE] ELSE parked

\* mutant: the session returned by format_session_message is not kept
CheckTransmitNoNonceAdvance(s, t, ready) ==
    LET f == FormatSessionMessage(s, t.fir, t.remainder) IN
    IF ~(s.valid /\ ready /\ TxPending(t))
    THEN [kind |-> "none", session |-> s, tx |-> t, msg |-> f.msg]
    ELSE IF ~f.ok
    THEN [kind |-> "error", session |-> NoSession, tx |-> t, msg |-> f.msg]
    ELSE [kind |-> "sent", session |-> s,
          tx |-> TxBeginTransmit(t, f.remainder), msg |-> f.msg]

\* CryptoLayer::check_transmit, from session s, transmit state t and the
\* lower layer's readiness: nothing to do unless the session is set, the
\* lower layer ready and a fragment pending; a formatting error resets the
\* session and closes the upper layer; otherwise the fragment is sent.
CheckTransmit(s, t, ready) ==
    LET f == FormatSessionMessage(s, t.fir, t.remainder) IN
    IF ~(s.valid /\ ready /\ TxPending(t))
    THEN [kind |-> "none", session |-> s, tx |-> t, msg |-> f.msg]
    ELSE IF ~f.ok
    THEN [kind |-> "error", session |-> NoSession, tx |-> t, msg |-> f.msg]
    ELSE [kind |-> "sent", session |-> f.session,
          tx |-> TxBeginTransmit(t, f.remainder), msg |-> f.msg]

\* the effects of a CheckTransmit result c on peer p, whose lower layer's
\* readiness before the check is ready
ApplyCheckTransmit(p, c, ready) ==
    /\ session' = [session EXCEPT ![p] = c.session]
    /\ tx' = [tx EXCEPT ![p] = c.tx]
    /\ upperOpen' = IF c.kind = "error" THEN [upperOpen EXCEPT ![p] = FALSE] ELSE upperOpen
    /\ IF c.kind = "sent"
       THEN HS!Transmit(p, c.msg, net)
       ELSE /\ txReady' = [txReady EXCEPT ![p] = ready]
            /\ UNCHANGED <<net, sent>>

\* CryptoLayer::transmit(data): refused unless the layer and the upper
\* layer are open and no message is being transmitted; then
\* TxState::initialize and check_transmit.
UpperTransmit(p) ==
    /\ p \in Senders
    /\ layerOpen[p]
    /\ upperOpen[p]
    /\ nextMsg[p] < MsgCount
    /\ LET init == TxInitialize(tx[p], AppMsg(p, nextMsg[p] + 1)) IN
       /\ init.ok
       /\ nextMsg' = [nextMsg EXCEPT ![p] = @ + 1]
       /\ ApplyCheckTransmit(p, CheckTransmit(session[p], init.state, txReady[p]), txReady[p])
    /\ UNCHANGED <<initVars, rEph, faults, reasm, isRxReady, parked, delivered, layerOpen, closes>>

\* mutant: on_tx_ready_impl without its check_transmit
OnTxReadyNoCheckTransmit(p) ==
    /\ layerOpen[p]
    /\ ~txReady[p]
    /\ LET t == TxOnTxComplete(tx[p]).state IN
       /\ txReady' = [txReady EXCEPT ![p] = TRUE]
       /\ CheckReceive(p)
       /\ tx' = [tx EXCEPT ![p] = t]
    /\ UNCHANGED <<initVars, rEph, session, net, sent, faults, upperOpen,
                   reasm, isRxReady, nextMsg, delivered, layerOpen, closes>>

\* CryptoLayer::on_tx_ready_impl: the lower layer finished its transmit;
\* TxState::on_tx_complete (the upper layer is told it may transmit again),
\* check_receive (lower->receive() when can_receive), check_transmit.
OnTxReady(p) ==
    /\ layerOpen[p]
    /\ ~txReady[p]
    /\ LET t == TxOnTxComplete(tx[p]).state IN
       /\ CheckReceive(p)
       /\ ApplyCheckTransmit(p, CheckTransmit(session[p], t, TRUE), TRUE)
    /\ UNCHANGED <<initVars, rEph, faults, reasm, isRxReady, nextMsg, delivered, layerOpen, closes>>

\* CryptoLayer::receive: the upper layer pulls the complete message that
\* waits for it. (It does not call check_receive.)
UpperReceive(p) ==
    /\ isRxReady[p]
    /\ upperOpen[p]
    /\ isRxReady' = [isRxReady EXCEPT ![p] = FALSE]
    /\ delivered' = [delivered EXCEPT ![p] = Append(@, reasm[p].data)]
    /\ UNCHANGED <<hsVars, tx, reasm, upperOpen, parked, nextMsg, layerOpen, closes>>

\* CryptoLayer::on_message(SessionData): a message failing validation is
\* dropped; otherwise the Reassembler takes the payload and a complete
\* message is offered to the upper layer, which may refuse it for now.
OnSessionData(p, m) ==
    LET v == ValidateMessage(session[p], m)
        r == ReassemblerProcess(reasm[p], m.fir, m.fin, m.nonce, v.payload)
    IN  IF ~v.ok
        THEN UNCHANGED <<session, reasm, isRxReady, delivered>>
        ELSE /\ session' = [session EXCEPT ![p] = v.session]
             /\ reasm' = [reasm EXCEPT ![p] = r.state]
             /\ IF r.result = "complete"
                THEN \E accept \in {b \in BOOLEAN : b => upperOpen[p]} :
                        /\ isRxReady' = [isRxReady EXCEPT ![p] = ~accept]
                        /\ delivered' = IF accept
                                        THEN [delivered EXCEPT ![p] = Append(@, r.state.data)]
                                        ELSE delivered
                ELSE UNCHANGED <<isRxReady, delivered>>

\* CryptoLayer::process: dispatch on the function code of a frame taken off
\* the link (n: the links after that); a function the peer does not
\* support is dropped. A successful handshake opens the upper layer.
Process(p, m, n) ==
    CASE m.fn = "session_data" ->
            /\ OnSessionData(p, m)
            /\ net' = n
            /\ UNCHANGED <<initVars, rEph, txReady, sent, upperOpen>>
      [] p = "I" /\ m.fn \in {"reply_handshake_begin", "reply_handshake_error"} ->
            /\ HS!InitiatorOnHandshakeMessage(m)
            /\ net' = n
            /\ upperOpen' = [upperOpen EXCEPT !["I"] =
                                @ \/ (ihs = "WaitForBeginReply" /\ m.fn = "reply_handshake_begin")]
            /\ UNCHANGED <<rEph, txReady, sent, reasm, isRxReady, delivered>>
      [] p = "R" /\ m.fn = "request_handshake_begin" ->
            /\ HS!ResponderOnRequest(m, n)
            /\ upperOpen' = [upperOpen EXCEPT !["R"] = @ \/ m.ok]
            /\ UNCHANGED <<initVars, reasm, isRxReady, delivered>>
      [] OTHER ->
            /\ net' = n
            /\ UNCHANGED <<initVars, rEph, session, txReady, sent, upperOpen,
                           reasm, isRxReady, delivered>>

\* the lower layer offers the frame at the head of p's link:
\* CryptoLayer::on_rx_ready_impl processes it when can_receive, and
\* otherwise refuses it and the lower layer keeps it
LowerDeliver(p) ==
    /\ layerOpen[p]
    /\ net[p] # <<>>
    /\ ~parked[p]
    /\ IF CanReceive(p)
       THEN /\ Process(p, Head(net[p]), [net EXCEPT ![p] = Tail(@)])
            /\ UNCHANGED parked
       ELSE /\ parked' = [parked EXCEPT ![p] = TRUE]
            /\ UNCHANGED <<hsVars, reasm, isRxReady, upperOpen, delivered>>
    /\ UNCHANGED <<faults, tx, nextMsg, layerOpen, closes>>

\* Initiator::reset_state_on_close (spec 4.5, InitiatorTestSuite "stops
\* timer when closed"): the handshake back to Idle and the timers
\* cancelled; the responder keeps no handshake state
ResetStateOnClose(p) ==
    IF p = "I"
    THEN /\ ihs' = "Idle"
         /\ iTimer' = "none"
         /\ handshakeRequired' = FALSE
    ELSE UNCHANGED <<ihs, iTimer, handshakeRequired>>

\* mutant: on_close_impl without reset_state_on_close
OnCloseImplNoResetState(p) ==
    /\ UNCHANGED <<ihs, iTimer, handshakeRequired>>
    /\ session' = [session EXCEPT ![p] = NoSession]
    /\ reasm' = [reasm EXCEPT ![p] = ReassemblerReset]
    /\ upperOpen' = [upperOpen EXCEPT ![p] = FALSE]
    /\ tx' = [tx EXCEPT ![p] = TxIdle]
    /\ isRxReady' = [isRxReady EXCEPT ![p] = FALSE]

\* CryptoLayer::on_close_impl: reset_state_on_close, session.reset,
\* reassembler.reset, upper->on_close, tx_state.reset and
\* reset_lower_layer (no complete message waits any more)
OnCloseImpl(p) ==
    /\ ResetStateOnClose(p)
    /\ session' = [session EXCEPT ![p] = NoSession]
    /\ reasm' = [reasm EXCEPT ![p] = ReassemblerReset]
    /\ upperOpen' = [upperOpen EXCEPT ![p] = FALSE]
    /\ tx' = [tx EXCEPT ![p] = TxIdle]
    /\ isRxReady' = [isRxReady EXCEPT ![p] = FALSE]

\* IUpperLayer::on_close: the lower layer closes an open CryptoLayer
LowerClose(p) ==
    /\ p \in Closers
    /\ layerOpen[p]
    /\ closes < MaxCloses
    /\ layerOpen' = [layerOpen EXCEPT ![p] = FALSE]
    /\ closes' = closes + 1
    /\ OnCloseImpl(p)
    /\ UNCHANGED <<iEph, iHash, rEph, txReady, net, sent, faults, parked, nextMsg, delivered>>

\* Initiator::on_open_impl (spec 4.5, InitiatorTestSuite test_open): a
\* handshake is required; the responder just waits
OnOpenImpl(p) ==
    handshakeRequired' = IF p = "I" THEN TRUE ELSE handshakeRequired

\* IUpperLayer::on_open: the lower layer opens a closed CryptoLayer
LowerOpen(p) ==
    /\ ~layerOpen[p]
    /\ layerOpen' = [layerOpen EXCEPT ![p] = TRUE]
    /\ OnOpenImpl(p)
    /\ UNCHANGED <<ihs, iTimer, iEph, iHash, rEph, session, txReady, net, sent, faults,
                   tx, reasm, isRxReady, upperOpen, parked, nextMsg, delivered, closes>>

\* a closed CryptoLayer's lower layer finishes its transmit; on_tx_ready
\* does nothing while the CryptoLayer is closed
LowerTxReadyClosed(p) ==
    /\ ~layerOpen[p]
    /\ ~txReady[p]
    /\ txReady' = [txReady EXCEPT ![p] = TRUE]
    /\ UNCHANGED <<initVars, rEph, session, net, sent, faults, clVars>>

\* the initiator's handshake steps, which leave the data path alone
Handshaking ==
    /\ \/ HS!OnHandshakeRequired
       \/ HS!ResponseTimerFires
       \/ HS!RetryTimerFires
    /\ UNCHANGED clVars

\* link faults
LinkFault ==
    /\ HS!Lose \/ HS!Inject
    /\ UNCHANGED <<initVars, rEph, session, txReady, sent, clVars>>

Init ==
    /\ HS!Init
    /\ tx = [p \in Peers |-> TxIdle]
    /\ reasm = [p \in Peers |-> ReassemblerReset]
    /\ isRxReady = [p \in Peers |-> FALSE]
    /\ upperOpen = [p \in Peers |-> FALSE]
    /\ parked = [p \in Peers |-> FALSE]
    /\ nextMsg = [p \in Peers |-> 0]
    /\ delivered = [p \in Peers |-> <<>>]
    /\ layerOpen = [p \in Peers |-> TRUE]
    /\ closes = 0

Next ==
    \/ Handshaking
    \/ \E p \in Peers :
        \/ UpperTransmit(p)
        \/ OnTxReady(p)
        \/ UpperReceive(p)
        \/ LowerDeliver(p)
        \/ LowerClose(p)
        \/ LowerOpen(p)
        \/ LowerTxReadyClosed(p)
    \/ LinkFault

\* Timers fire, lower layers complete transmits and offer what they hold,
\* and an upper layer with a message waiting eventually pulls it. The
\* upper layers are not obliged to transmit; the links are not fair.
Fairness ==
    /\ WF_vars(HS!OnHandshakeRequired /\ UNCHANGED clVars)
    /\ WF_vars(HS!ResponseTimerFires /\ UNCHANGED clVars)
    /\ WF_vars(HS!RetryTimerFires /\ UNCHANGED clVars)
    /\ \A p \in Peers :
        /\ WF_vars(OnTxReady(p))
        /\ WF_vars(LowerDeliver(p))
        /\ WF_vars(UpperReceive(p))
        /\ WF_vars(LowerOpen(p))
        /\ WF_vars(LowerTxReadyClosed(p))

Spec == Init /\ [][Next]_vars /\ Fairness

-----------------------------------------------------------------------------
(* One application message end to end, as a recursive computation: the    *)
(* sender's check_transmit runs once per on_tx_ready of a lower layer that *)
(* is always ready, and every fragment goes through the receiver's         *)
(* on_message(SessionData).                                                *)

\* the fragments check_transmit sends from session s and transmit state t,
\* on_tx_complete being applied between two of them
RECURSIVE TransmitAll(_, _)
TransmitAll(s, t) ==
    LET c == CheckTransmit(s, t, TRUE) IN
    IF c.kind = "sent"
    THEN <<c.msg>> \o TransmitAll(c.session, TxOnTxComplete(c.tx).state)
    ELSE <<>>

\* the receiver's session s and Reassembler r after the fragments ms:
\* validate_message, then Reassembler::process for a valid one; result is
\* the Reassembler's answer to the last valid fragment
RECURSIVE ReceiveAll(_, _, _, _)
ReceiveAll(s, r, result, ms) ==
    IF ms = <<>> THEN [result |-> result, reasm |-> r]
    ELSE LET v == ValidateMessage(s, Head(ms))
             x == ReassemblerProcess(r, Head(ms).fir, Head(ms).fin, Head(ms).nonce, v.payload)
         IN  IF v.ok THEN ReceiveAll(v.session, x.state, x.result, Tail(ms))
             ELSE ReceiveAll(s, r, result, Tail(ms))


-----------------------------------------------------------------------------
(* Properties                                                              *)

TypeOK ==
    /\ HS!TypeOK
    /\ \A p \in Peers :
        /\ tx[p].active \in BOOLEAN /\ Len(tx[p].remainder) <= MsgLength
        /\ Len(reasm[p].data) <= MaxReassemblySize
        /\ session[p].txNonce \in 0..MaxNonce /\ session[p].rxNonce \in 0..MaxNonce
        /\ nextMsg[p] \in 0..MsgCount
        /\ Len(delivered[p]) <= MsgCount
    /\ isRxReady \in [Peers -> BOOLEAN]
    /\ upperOpen \in [Peers -> BOOLEAN]
    /\ parked \in [Peers -> BOOLEAN]
    /\ layerOpen \in [Peers -> BOOLEAN]
    /\ closes \in 0..MaxCloses

\* the index of the application message a delivered message claims to be
MsgIndex(d) == d[1][2]

\* Integrity of reassembly (spec 4.3, 8): every message an upper layer
\* accepts is, unit for unit, an application message its peer transmitted:
\* losses, replays and forgeries never make the Reassembler splice pieces of
\* two messages, or hand up a fragment as a whole message.
DeliveredIntact ==
    \A p \in Peers : \A i \in 1..Len(delivered[p]) :
        \E k \in 1..MsgCount : delivered[p][i] = AppMsg(Other(p), k)

\* No replay and no reordering (spec 3 nonce state, 8): each upper layer
\* receives its peer's messages at most once each and in the order they
\* were transmitted, although the attacker replays SessionData and the
\* handshake may be run again.
DeliveredInOrder ==
    \A p \in Peers : \A i, j \in 1..Len(delivered[p]) :
        i < j => MsgIndex(delivered[p][i]) < MsgIndex(delivered[p][j])

\* Transmit flow control (spec 4.4): a message the CryptoLayer has accepted
\* from its upper layer is drained fragment by fragment through the
\* on_tx_ready_impl / check_transmit chain until TxState is idle again,
\* unless the session ends first.
TxDrains ==
    \A p \in Peers :
        (tx[p].active /\ session[p].valid) ~> (~tx[p].active \/ ~session[p].valid)

\* Back-pressure is lifted (spec 4.4, 6): a frame the lower layer holds
\* because the CryptoLayer refused it (can_receive false while a complete
\* message waited for the upper layer) is taken once the upper layer has
\* pulled that message with CryptoLayer::receive.
ParkedFrameTaken ==
    \A p \in Peers : parked[p] ~> ~parked[p]

\* Closing the session on a transmit error is a close (spec 4.4, 7): when
\* check_transmit resets the session and closes the upper layer, the
\* transmit state is reset with them, so nothing of the old message is
\* sent into the next session.
TxIdleWhenClosed ==
    \A p \in Peers : (~upperOpen[p] /\ ~session[p].valid) => ~tx[p].active

\* No nonce is spent on nothing (spec 4.2, 4.4): every SessionData fragment
\* a peer transmits carries user data. max_writable_user_data_length has
\* to leave room for the truncated tag and still be positive; a writable
\* length of 0 makes check_transmit send empty, never final fragments until
\* max_nonce is reached and the session is closed.
FragmentsCarryData ==
    \A d \in sent : d[2].fn = "session_data" => d[2].data # <<>>

\* A close of the initiator's lower layer is recovered from (spec 4.5): once
\* the lower layer reopens it, Initiator::on_open_impl asks for a new
\* handshake, and the initiator sends a new RequestHandshakeBegin (unless
\* it has used up the key pairs of the model). This needs
\* CryptoLayer::on_close_impl to have put the handshake back to Idle: a
\* handshake left Open or waiting never starts again.
InitiatorRestartsAfterClose ==
    ~layerOpen["I"] ~> ((layerOpen["I"] /\ ihs = "WaitForBeginReply") \/ iEph = MaxHandshakes)
\* No nonce is used twice under one key: two SessionData frames the
\* peers have ever transmitted (check_transmit after
\* format_session_message) with the same tx key and nonce are the same
\* frame, across handshakes, closes and reopenings. A reused nonce would
\* let a replayed or substituted fragment pass validate_message.
NonceNeverReused ==
    \A a, b \in {x \in sent : x[2].fn = "session_data"} :
        a[2].tag.key = b[2].tag.key /\ a[2].nonce = b[2].nonce => a[2] = b[2]

\* Fragmentation and reassembly round trip (spec 8): every message of one
\* to max_reassembly_size data units that fits in max_nonce fragments,
\* sent by check_transmit from a fresh session and received through
\* validate_message and Reassembler::process, is reassembled complete and
\* equal to what was sent. It is about the boundary between
\* max_writable_user_data_length, the fin flag and the reassembly limit.
ReassemblyRoundTrip ==
    LET w == MaxWritableUserDataLength(MaxPayloadSize) IN
    \A n \in 1..MaxReassemblySize : \A msg \in [1..n -> {"a", "b"}] :
        n <= w * MaxNonce =>
            LET frags == TransmitAll(Initialize("kr", "kt"),
                                     TxInitialize(TxIdle, msg).state)
                out   == ReceiveAll(Initialize("kt", "kr"), ReassemblerReset, "none", frags)
            IN  out.result = "complete" /\ out.reasm.data = msg
=============================================================================
