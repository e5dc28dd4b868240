------------------------- MODULE MCClientListener -------------------------
(* ClientListener with a few connections that look alike.                   *)
EXTENDS ClientListener, TLC

CONSTANTS c1, c2, c3

MCConns == {c1, c2, c3}
=============================================================================
