--------------------------- MODULE MCResponderAuth ---------------------------
\* ResponderAuth with the session constants it does not use fixed
EXTENDS ResponderAuth
=============================================================================
