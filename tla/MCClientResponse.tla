--------------------------- MODULE MCClientResponse ---------------------------
(* Instance of ClientResponse for TLC: every body of at most five bytes and *)
(* every way to cut it, with a limit below and one of a signature.      *)
EXTENDS ClientResponse
=============================================================================
