--------------------------- MODULE MCFileTransfer ---------------------------
(* Three files, one of them of a name that the client refuses.  Names       *)
(* collide when a file is dragged twice.                                    *)
EXTENDS FileTransfer, TLC

MCName == ("p1" :> "a") @@ ("p2" :> "b") @@ ("p3" :> "c:")
MCSelections == {<<"p1", "p2">>, <<"p3", "p1">>, <<"p1", "p2", "p3">>}

=============================================================================
