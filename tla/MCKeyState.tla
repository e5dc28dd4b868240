----------------------------- MODULE MCKeyState -----------------------------
(* A server and a client with different keyboards.  The server: 1, with ! on *)
(* the same button, a and A, a circumflexed a, two Shift keys, Control and  *)
(* CapsLock.  The client: ! unshifted, 1 shifted elsewhere, two *)
(* Shift keys, and a circumflex that is a dead key.                         *)
EXTENDS KeyState, TLC

Key(button, required, sensitive) ==
    [button |-> button, required |-> required, sensitive |-> sensitive, generates |-> {}, lock |-> FALSE, dead |-> FALSE]
Mod(button, m) == [Key(button, {}, {}) EXCEPT !.generates = {m}]
Lock(button, m) == [Mod(button, m) EXCEPT !.lock = TRUE]
Dead(button) == [Key(button, {}, {0}) EXCEPT !.dead = TRUE]

MCLayout ==
    ("!" :> <<<<Key("k_bang", {}, {0})>>>>) @@
    ("1" :> <<<<Key("k_one", {0}, {0})>>>>) @@
    ("a" :> <<<<Key("k_a", {}, {0, 12})>>, <<Key("k_a", {0, 12}, {0, 12})>>>>) @@
    ("A" :> <<<<Key("k_a", {0}, {0, 12})>>, <<Key("k_a", {12}, {0, 12})>>>>) @@
    ("^a" :> <<<<Dead("k_dead"), Key("k_a", {}, {0, 12})>>>>) @@
    ("Shift_L" :> <<<<Mod("k_shl", 0)>>>>) @@
    ("Shift_R" :> <<<<Mod("k_shr", 0)>>>>) @@
    ("Control_L" :> <<<<Mod("k_ctl", 1)>>>>) @@
    ("CapsLock" :> <<<<Lock("k_cap", 12)>>>>)
MCIdOrder == <<"!", "1", "a", "A", "^a", "Shift_L", "Shift_R", "Control_L", "CapsLock">>

Always(id) == [m \in SUBSET {0, 12} |-> id]
Shifted(id, other) == [m \in SUBSET {0, 12} |-> IF 0 \in m THEN other ELSE id]
Letter(id, other) == [m \in SUBSET {0, 12} |-> IF Cardinality(m) = 1 THEN other ELSE id]
MCServerLayout ==
    ("s_one" :> Shifted("1", "!")) @@ ("s_a" :> Letter("a", "A")) @@
    ("s_shl" :> Always("Shift_L")) @@ ("s_shr" :> Always("Shift_R")) @@ ("s_ctl" :> Always("Control_L")) @@ ("s_cap" :> Always("CapsLock")) @@
    ("s_dead" :> Always("^a"))
MCServerModifiers == [s \in DOMAIN MCServerLayout |->
    CASE s \in {"s_shl", "s_shr"} -> 0 [] s = "s_ctl" -> 1 [] s = "s_cap" -> 12 [] OTHER -> NoKey]

=============================================================================
