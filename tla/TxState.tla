------------------------------ MODULE TxState ------------------------------
(***************************************************************************)
(* TxState (spec 4.4): the application message the CryptoLayer is         *)
(* transmitting on behalf of its upper layer, sent one SessionData        *)
(* fragment per lower-layer transmit. TxState.cpp is not part of the      *)
(* sources; this is written from the spec and from the calls              *)
(* CryptoLayer.cpp makes (initialize, get_remainder, get_fir,             *)
(* begin_transmit, on_tx_complete, reset).                                *)
(***************************************************************************)
EXTENDS Sequences

\* TxState::reset: not transmitting
TxIdle == [active |-> FALSE, remainder |-> <<>>, fir |-> TRUE]

\* TxState::initialize(data): refused while a message is still active
TxInitialize(t, data) ==
    IF t.active THEN [ok |-> FALSE, state |-> t]
    ELSE [ok |-> TRUE, state |-> [active |-> TRUE, remainder |-> data, fir |-> TRUE]]

\* TxState::begin_transmit(remainder): one fragment handed to the lower
\* layer; the next one is not the first
TxBeginTransmit(t, remainder) == [t EXCEPT !.remainder = remainder, !.fir = FALSE]

\* TxState::on_tx_complete: TRUE, and back to idle, once the lower layer
\* has finished the last fragment of the active message
TxOnTxComplete(t) ==
    IF t.active /\ t.remainder = <<>>
    THEN [done |-> TRUE, state |-> TxIdle]
    ELSE [done |-> FALSE, state |-> t]

\* data is waiting to be formatted into a fragment
TxPending(t) == t.active /\ t.remainder # <<>>
=============================================================================
