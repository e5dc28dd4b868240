---------------------------- MODULE MCClipboard ----------------------------
(* Clipboard with two clients that look alike, two contents that do, and    *)
(* one that is too big.                                                     *)
EXTENDS Clipboard, TLC

Symmetry == Permutations(Clients) \cup Permutations(Contents \ Big)
=============================================================================
