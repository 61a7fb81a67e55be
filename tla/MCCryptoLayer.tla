--------------------------- MODULE MCCryptoLayer ---------------------------
(* Model-checking instance of CryptoLayer; the bounds are in the .cfg      *)
(* files.                                                                  *)
EXTENDS CryptoLayer
=============================================================================
