--------------------------- MODULE PacketChannel ---------------------------
(***************************************************************************)
(* What the owner of a packet stream may rely on: packets arrive whole, in  *)
(* order and once, and the end of input is announced after the last one.    *)
(* A connection that breaks may announce its end at any time, or never.     *)
(***************************************************************************)
EXTENDS Naturals, Sequences

CONSTANT MaxPackets

VARIABLES
    sent,   \* packets sent whole
    got,    \* packets read
    peer,   \* "open", "closed" after a whole packet, or "broken"
    told    \* the end was announced

vars == <<sent, got, peer, told>>

Init == sent = <<>> /\ got = <<>> /\ peer = "open" /\ told = FALSE

Send ==
    /\ peer = "open" /\ Len(sent) < MaxPackets
    /\ sent' = Append(sent, Len(sent) + 1)
    /\ UNCHANGED <<got, peer, told>>

End ==
    /\ peer = "open" /\ peer' \in {"closed", "broken"}
    /\ UNCHANGED <<sent, got, told>>

(* An answer meets the closed end, and what had not arrived may be lost.     *)
Refuse ==
    /\ peer = "closed" /\ peer' = "broken"
    /\ UNCHANGED <<sent, got, told>>

Deliver ==
    /\ ~told /\ Len(got) < Len(sent)
    /\ \E n \in Len(got) + 1 .. Len(sent) : got' = SubSeq(sent, 1, n)
    /\ UNCHANGED <<sent, peer, told>>

Tell ==
    /\ ~told
    /\ peer = "broken" \/ (peer = "closed" /\ got = sent)
    /\ told' = TRUE
    /\ UNCHANGED <<sent, got, peer>>

Next == Send \/ End \/ Refuse \/ Deliver \/ Tell

Safety == Init /\ [][Next]_vars

Spec == Safety /\ WF_vars(Deliver) /\ WF_vars(peer = "closed" /\ Tell)
=============================================================================
