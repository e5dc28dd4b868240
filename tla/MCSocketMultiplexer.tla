------------------------ MODULE MCSocketMultiplexer ------------------------
(* Two sockets and the jobs they can own between two updates: an entry, a    *)
(* displaced job and a transition each, plus one more replacement.           *)
EXTENDS SocketMultiplexer
CONSTANTS s1, s2, j1, j2, j3, j4
=============================================================================
