--------------------------- MODULE MCRtspSession ---------------------------
(* Seven messages of the handshake and up to two of the steady state: a    *)
(* keep-alive that arrives together with the last of the handshake, and    *)
(* one more message behind it.                                             *)
EXTENDS RtspSession
=============================================================================
