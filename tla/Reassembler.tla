---------------------------- MODULE Reassembler ----------------------------
(***************************************************************************)
(* The Reassembler (spec 4.3): rebuilds one application message from the  *)
(* SessionData fragments the Session has already validated. Reassembler   *)
(* .cpp is not part of the sources; this is written from the spec and the *)
(* way CryptoLayer.cpp uses it (process, get_data, reset).                 *)
(*                                                                         *)
(* The state is a record: the data gathered so far, the nonce of the last *)
(* fragment, and whether a message is being gathered. The data of a       *)
(* complete message stays readable (get_data) until the next fragment.    *)
(***************************************************************************)
EXTENDS Naturals, Sequences

CONSTANT MaxReassemblySize   \* Config max_reassembly_size, in data units

ASSUME MaxReassemblySize \in Nat \ {0}

\* Reassembler::reset
ReassemblerReset == [data |-> <<>>, nonce |-> 0, partial |-> FALSE]

\* mutant: a later fragment is appended without checking its nonce
ReassemblerProcessNoGapCheck(r, fir, fin, nonce, payload) ==
    LET data == IF fir THEN payload ELSE r.data \o payload IN
    IF /\ fir \/ r.partial
       /\ Len(data) <= MaxReassemblySize
    THEN [result |-> IF fin THEN "complete" ELSE "partial",
          state  |-> [data |-> data, nonce |-> nonce, partial |-> ~fin]]
    ELSE [result |-> "error", state |-> ReassemblerReset]

\* mutant: no bound on the size of the reassembled message
ReassemblerProcessUnbounded(r, fir, fin, nonce, payload) ==
    LET data == IF fir THEN payload ELSE r.data \o payload IN
    IF fir \/ (r.partial /\ nonce = r.nonce + 1)
    THEN [result |-> IF fin THEN "complete" ELSE "partial",
          state  |-> [data |-> data, nonce |-> nonce, partial |-> ~fin]]
    ELSE [result |-> "error", state |-> ReassemblerReset]

\* mutant: a message of exactly max_reassembly_size is refused
ReassemblerProcessSizeOffByOne(r, fir, fin, nonce, payload) ==
    LET data == IF fir THEN payload ELSE r.data \o payload IN
    IF /\ fir \/ (r.partial /\ nonce = r.nonce + 1)
       /\ Len(data) < MaxReassemblySize
    THEN [result |-> IF fin THEN "complete" ELSE "partial",
          state  |-> [data |-> data, nonce |-> nonce, partial |-> ~fin]]
    ELSE [result |-> "error", state |-> ReassemblerReset]

\* Reassembler::process(fir, fin, nonce, payload): a first fragment clears
\* what was gathered; a later one needs a message in progress and the
\* nonce right after the previous fragment's; the gathered size may not
\* exceed max_reassembly_size. An error resets the reassembler.
ReassemblerProcess(r, fir, fin, nonce, payload) ==
    LET data == IF fir THEN payload ELSE r.data \o payload IN
    IF /\ fir \/ (r.partial /\ nonce = r.nonce + 1)
       /\ Len(data) <= MaxReassemblySize
    THEN [result |-> IF fin THEN "complete" ELSE "partial",
          state  |-> [data |-> data, nonce |-> nonce, partial |-> ~fin]]
    ELSE [result |-> "error", state |-> ReassemblerReset]
=============================================================================
