----------------------------- MODULE MutualAuth -----------------------------
(***************************************************************************)
(* What an authenticated handshake promises its two ends (spec 4.1, 8),   *)
(* with the messages, keys and retries left out. Before the initiator     *)
(* opens, the responder may derive sessions any number of times; the     *)
(* initiator opens once, with exactly the keys the responder holds at     *)
(* that moment. From then on the responder's keys can only be dropped,    *)
(* when its lower layer closes it (spec 3 lifecycle, spec 5), never       *)
(* replaced; a close between the two ends' steps leaves the initiator     *)
(* open on a session the responder has dropped.                           *)
(*                                                                         *)
(* Keys are pairs <<key the responder receives with, key it transmits     *)
(* with>>; the initiator's are written in the responder's order, so the   *)
(* two ends agree when the pairs are equal.                                *)
(***************************************************************************)
CONSTANT Unset          \* the keys of a session never initialised

VARIABLES
    opened,             \* the initiator has opened its session
    respKeys,           \* the responder's session keys
    initKeys            \* the initiator's session keys, responder's order

abstractVars == <<opened, respKeys, initKeys>>

Init ==
    /\ opened = FALSE
    /\ respKeys = Unset
    /\ initKeys = Unset

\* the responder derives a (new) session while the initiator has not opened
Establish ==
    /\ ~opened
    /\ respKeys' # Unset
    /\ UNCHANGED <<opened, initKeys>>

\* the initiator opens with the keys the responder holds
Open ==
    /\ ~opened
    /\ respKeys # Unset
    /\ opened' = TRUE
    /\ initKeys' = respKeys
    /\ UNCHANGED respKeys

\* the responder's layer closes and drops its session; the initiator is
\* not told and keeps its own
Drop ==
    /\ respKeys # Unset
    /\ respKeys' = Unset
    /\ UNCHANGED <<opened, initKeys>>

\* the initiator opens after the responder that answered it has dropped
\* that session: it keeps keys the responder no longer holds
OpenDropped ==
    /\ ~opened
    /\ respKeys = Unset
    /\ opened' = TRUE
    /\ initKeys' # Unset
    /\ UNCHANGED respKeys

Next == Establish \/ Open \/ Drop \/ OpenDropped

\* a responder holding a session is eventually joined by the initiator
Spec == Init /\ [][Next]_abstractVars /\ WF_abstractVars(Open)
=============================================================================
