------------------------------ MODULE MCClient ------------------------------
(* Client with two servers: the first resolves to two addresses, and only   *)
(* the second is up.                                                        *)
EXTENDS Client

MCAddressCount == (0 :> 2) @@ (1 :> 2)
MCUp == {<<1, 1>>}
=============================================================================
