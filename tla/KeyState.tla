------------------------------ MODULE KeyState ------------------------------
(***************************************************************************)
(* The keys a client presses for its server: how a key event of the server  *)
(* becomes keystrokes of the local keyboard, what the client remembers of   *)
(* them, and what the local system makes of them                            *)
(* (src/src/lib/synergy/input/KeyState.cpp and KeyMap.cpp, reached through  *)
(* src/src/lib/client/ServerProxy.cpp).                                     *)
(*                                                                         *)
(* A modifier is the number of its bit, a mask the set of its modifiers.    *)
(* There is one group (keyboard layout), no key is half-duplex, and no      *)
(* modifier's key is itself sensitive to modifiers.                         *)
(***************************************************************************)
EXTENDS Integers, Sequences, SequencesExt, FiniteSets, FiniteSetsExt

CONSTANTS
    NoKey,
    Platform,        \* "windows", "mac" or "linux"
    Layout,          \* m_keyIDMap: for each KeyID its entries, each a sequence of key items
    IdOrder,         \* the KeyIDs in the order of the map
    ServerLayout,    \* what the server's buttons mean: ServerLayout[button][mask]
    ServerModifiers, \* the modifier each of them holds or toggles, or NoKey
    Shift, CapsLock, Commands,   \* modifiers; getCommandModifiers
    Rollover         \* bound: buttons of the server held at once

(* A key item: [button, required, sensitive, generates, lock, dead].        *)
Items == UNION {ToSet(e) : e \in UNION {ToSet(Layout[id]) : id \in DOMAIN Layout}}
Modifiers == 0 .. 15
Buttons == {i.button : i \in Items}
ServerButtons == DOMAIN ServerLayout
Locks == {12, 13, 14}

VARIABLES
    server,      \* the server's keyboard: buttons held, toggles on
    here,        \* is the cursor on the client
    serverKeys,  \* m_serverKeys: the local button pressed for a button of the server
    synthetic,   \* m_syntheticKeys (and m_keys): how often a button is down
    active,      \* m_activeModifiers
    mask,        \* m_mask
    os,          \* the local system: buttons held, locks on, what was typed last
    stray,       \* history: buttons that a repeat has taken for released, and that are down
    wanted       \* the KeyID the last event should have typed, or NoKey

keyVars == <<server, here, serverKeys, synthetic, active, mask, os, stray, wanted>>

(***************************************************************************)
(* KeyMap: from a KeyID to keystrokes.  A mapping carries the keystrokes    *)
(* so far and the modifiers they leave behind.                              *)
(***************************************************************************)
Stroke(button, press, repeat) == [button |-> button, press |-> press, repeat |-> repeat]
Down(item) == Stroke(item.button, TRUE, FALSE)
Lift(item) == Stroke(item.button, FALSE, FALSE)

Generating(items, m) == SelectSeq(items, LAMBDA i : m \in i.generates)
ButtonsOf(items) == {i.button : i \in ToSet(items)}

Strike(r, strokes) == [r EXCEPT !.keys = @ \o strokes]
Activate(r, item) == [r EXCEPT !.active = Append(@, item), !.mask = @ \union item.generates]

(* erase(generates): every key of the modifier.                             *)
Deactivate(r, item) ==
    [r EXCEPT !.active = SelectSeq(@, LAMBDA i : i.generates # item.generates), !.mask = @ \ item.generates]

(* The modifier is off once no key of it is left.                           *)
DropOne(r, item) ==
    LET n == SelectInSeq(r.active, LAMBDA i : i.generates = item.generates /\ i.button = item.button)
        left == IF n = 0 THEN r.active ELSE RemoveAt(r.active, n)
    IN [r EXCEPT !.active = left,
                 !.mask = IF \E i \in ToSet(left) : i.generates = item.generates THEN @ ELSE @ \ item.generates]

(* addKeystrokes, one operator per kind.                                    *)
Press(r, item) ==
    LET s == Strike(r, <<Down(item)>>)
    IN CASE item.generates = {} -> s
         [] ~item.lock \/ r.mask \intersect item.generates = {} -> Activate(s, item)
         [] OTHER -> Deactivate(s, item)

Release(r, item) ==
    LET s == Strike(r, <<Lift(item)>>)
    IN IF item.generates # {} /\ ~item.lock THEN DropOne(s, item) ELSE s

Click(r, item) == Strike(r, <<Down(item), Lift(item)>>)

Repeat(r, item) == Strike(r,
    CASE Platform = "windows" -> <<Stroke(item.button, FALSE, TRUE), Stroke(item.button, TRUE, TRUE)>>
      [] Platform = "mac" -> <<Stroke(item.button, TRUE, TRUE)>>
      [] OTHER -> <<>>)

Modify(r, item) == Activate(IF item.lock THEN Click(r, item) ELSE Strike(r, <<Down(item)>>), item)

(* Releases every key of the modifier that is down.                         *)
Releases_First(down) == IF down = <<>> THEN <<>> ELSE <<Lift(Head(down))>>
Releases(down) == [n \in DOMAIN down |-> Lift(down[n])]
Unmodify(r, item) ==
    LET down == SelectSeq(r.active, LAMBDA i : i.generates = item.generates)
    IN Deactivate(IF item.lock THEN Click(r, item) ELSE Strike(r, Releases(down)), item)

(* The first key of a modifier that is not the button itself.               *)
Entries(id) == IF id \in DOMAIN Layout THEN Layout[id] ELSE <<>>
Single(entry) == Len(entry) = 1
ModifierKeys(m) == FlattenSeq([n \in DOMAIN IdOrder |->
    Generating(FlattenSeq(SelectSeq(Layout[IdOrder[n]], Single)), m)])
KeysForModifier(button, m) == SelectSeq(ModifierKeys(m), LAMBDA i : i.button # button)

(* keysForModifierState: each modifier that differs, from the highest bit   *)
(* down.                                                                    *)
FlipWith(keys, r, on) ==
    IF ~r.ok \/ keys = <<>> THEN [r EXCEPT !.ok = FALSE]
    ELSE IF on THEN Modify(r, Head(keys)) ELSE Unmodify(r, Head(keys))
Flip(r, m, button, on) == FlipWith(KeysForModifier(button, m), r, on)

HighestFirst == [n \in 1 .. 16 |-> 16 - n]

Require(r, button, required, sensitive, notRequired) ==
    LET flips == SymDiff(r.mask, required) \intersect (sensitive \ notRequired)
        step(x, m) == Flip(x, m, button, m \in required)
    IN FoldLeft(step, r, SelectSeq(HighestFirst, LAMBDA m : m \in flips))

(* keysForKeyItem.                                                          *)
NotRequired == {5, 13, 14}   \* AltGr, NumLock, ScrollLock

Hit(r, item, repeat) == IF repeat THEN Repeat(r, item) ELSE Press(r, item)

KeysForItem(r, item, desired, override, repeat) ==
    IF item.dead
    THEN Click(Require(r, item.button, item.required, item.sensitive, {}), item)
    ELSE LET sensitive == item.sensitive \ override
             others == Modifiers \ (sensitive \union item.generates)
             exact == Require(r, item.button, item.required, sensitive, {})
         IN Hit(Require(exact, item.button, desired, others, NotRequired), item, repeat)

(* keysToRestoreModifiers: the modifiers are as before, but for the key.    *)
Undo_Release(r, item) == Release(r, item)
Undo(r, item) == IF item.lock THEN Unmodify(r, item) ELSE Release(r, item)

Restore(r, item, before) ==
    LET surplus == SelectSeq(r.active, LAMBDA i : i.button \notin ButtonsOf(before) \union {item.button})
        missing == SelectSeq(before, LAMBDA i : i.button \notin ButtonsOf(r.active) \union {item.button})
        on(x, i) == IF i.lock THEN Modify(x, i) ELSE Press(x, i)
    IN FoldLeft(on, FoldLeft(Undo, r, surplus), missing)

(* findBestKeyIndex: the entry that the desired modifiers fit, or the one   *)
(* that changes the fewest.                                                 *)
Fits(item, desired) ==
    item.required \subseteq desired /\ item.required \intersect desired = item.sensitive \intersect desired
Changes(item, desired) == Cardinality(SymDiff(item.required, desired) \intersect item.sensitive)

Best(entries, desired) ==
    LET exact == {n \in DOMAIN entries : Fits(Last(entries[n]), desired)}
        count(n) == Changes(Last(entries[n]), desired)
        fewest == {n \in DOMAIN entries : \A k \in DOMAIN entries : count(n) <= count(k)}
    IN entries[Min(IF exact # {} THEN exact ELSE fewest)]

(* mapCommandKey: the right button rather than the right character.         *)
ForCommand(item, desired) ==
    /\ item.required \intersect desired \intersect {Shift} = item.sensitive \intersect desired \intersect {Shift}
    /\ item.required \ {Shift} \subseteq desired

IsCommand(id, desired) ==
    desired \intersect Commands # {} /\ \A e \in ToSet(Entries(id)) : Last(e).generates = {}

Unmapped == [ok |-> FALSE, keys |-> <<>>, active |-> active, mask |-> mask, item |-> NoKey]

MapEntry(entry, desired, override, repeat) ==
    LET add(r, item) == KeysForItem(r, item, desired, override, repeat)
        start == [Unmapped EXCEPT !.ok = TRUE, !.item = Last(entry)]
        finish(r) == IF r.ok THEN Restore(r, Last(entry), active) ELSE Unmapped
    IN finish(FoldLeft(add, start, entry))

MapCommand(entries, desired, repeat) ==
    IF entries = <<>> THEN Unmapped
    ELSE MapEntry(Head(entries), (desired \ {CapsLock}) \union (mask \intersect {CapsLock}), Modifiers, repeat)

MapKey(id, desired, repeat) ==
    IF IsCommand(id, desired)
    THEN MapCommand(SelectSeq(Entries(id), LAMBDA e : Single(e) /\ ForCommand(Last(e), desired)), desired, repeat)
    ELSE IF Entries(id) = <<>> THEN Unmapped
    ELSE MapEntry(Best(Entries(id), desired), desired, {}, repeat)

(***************************************************************************)
(* The local system                                                         *)
(***************************************************************************)
Generates(button) == UNION {i.generates : i \in {j \in Items : j.button = button}}
IsLock(button) == Generates(button) \intersect Locks # {}
OsMask(o) == o.locks \union UNION {Generates(b) : b \in {c \in o.held : ~IsLock(c)}}

(* MSWindowsKeyState::fakeKey discards the release of a repeated key.       *)
OsKey(o, stroke) ==
    IF stroke.press
    THEN [o EXCEPT !.held = @ \union {stroke.button},
                   !.locks = IF IsLock(stroke.button) THEN SymDiff(@, Generates(stroke.button)) ELSE @,
                   !.typed = IF Generates(stroke.button) = {} THEN [button |-> stroke.button, mask |-> OsMask(o)] ELSE @]
    ELSE IF stroke.repeat THEN o
    ELSE [o EXCEPT !.held = @ \ {stroke.button}]

(* The system types a KeyID when its button is pressed under modifiers that *)
(* suit it.                                                                 *)
Types(typed, id) == \E e \in ToSet(Entries(id)) :
    /\ Last(e).button = typed.button
    /\ typed.mask \intersect Last(e).sensitive = Last(e).required

(***************************************************************************)
(* KeyState                                                                 *)
(***************************************************************************)
(* updateModifierKeyState.                                                  *)
UpdateModifiers(keys, button, old, new) ==
    [b \in Buttons |->
        IF b = button THEN keys[b]
        ELSE IF b \in ButtonsOf(old) \ ButtonsOf(new) THEN 0
        ELSE IF b \in ButtonsOf(new) \ ButtonsOf(old) THEN 1
        ELSE keys[b]]

Strikes(strokes, taken) ==
    /\ os' = FoldLeft(OsKey, [os EXCEPT !.typed = NoKey], strokes)
    /\ stray' = (stray \union taken) \intersect os'.held

(* What the server asked for, if the keystrokes type anything: of a         *)
(* command only the button counts.                                          *)
Wants(id, desired, r) ==
    wanted' = IF Generates(r.item.button) = {} /\ ~IsCommand(id, desired)
                 /\ \E n \in DOMAIN r.keys : r.keys[n].press /\ r.keys[n].button = r.item.button
              THEN id ELSE NoKey

Unchanged == UNCHANGED <<serverKeys, synthetic, active, mask, os, stray>> /\ wanted' = NoKey

Freed_Zero(b) == [synthetic EXCEPT ![b] = 0]
Freed(b) == [synthetic EXCEPT ![b] = @ - 1]

PressFor(s, r) ==
    /\ active' = r.active /\ mask' = r.mask
    /\ Strikes(r.keys, {})
    /\ synthetic' = [UpdateModifiers(synthetic, r.item.button, active, r.active) EXCEPT ![r.item.button] = @ + 1]
    /\ serverKeys' = [serverKeys EXCEPT ![s] = r.item.button]

(* The key repeats as another button than it was pressed as: the first      *)
(* stroke of the new button becomes one of the old.                         *)
Exchanged(strokes, new, old) ==
    LET n == SelectInSeq(strokes, LAMBDA k : k.button = new)
    IN IF n = 0 THEN strokes ELSE [strokes EXCEPT ![n].button = old]

RepeatFor(s, r) ==
    LET old == serverKeys[s]
        new == r.item.button
    IN /\ active' = r.active /\ mask' = r.mask
       /\ IF new = old
          THEN Strikes(r.keys, {}) /\ UNCHANGED <<serverKeys, synthetic>>
          ELSE /\ Strikes(Exchanged(r.keys, new, old), {old})
               /\ synthetic' = [UpdateModifiers(Freed(old), new, active, r.active) EXCEPT ![new] = @ + 1]
               /\ serverKeys' = [serverKeys EXCEPT ![s] = new]

RepeatMapped(id, desired, s, r) ==
    IF serverKeys[s] = NoKey \/ ~r.ok THEN Unchanged
    ELSE RepeatFor(s, r) /\ Wants(id, desired, r)

FakeKeyRepeat(id, desired, s) == RepeatMapped(id, desired, s, MapKey(id, desired, TRUE))

IgnoredKey(id) == \E e \in ToSet(Entries(id)) : Last(e).lock

PressMapped(id, desired, s, r) ==
    IF IgnoredKey(id) \/ ~r.ok THEN Unchanged ELSE PressFor(s, r) /\ Wants(id, desired, r)

FakeKeyDown(id, desired, s) ==
    IF serverKeys[s] # NoKey THEN FakeKeyRepeat(id, desired, s)
    ELSE PressMapped(id, desired, s, MapKey(id, desired, FALSE))

(* A modifier with no key left is off.                                      *)
LapsedModifiers_Any(left) == UNION {i.generates : i \in ToSet(active) \ ToSet(left)}
LapsedModifiers(left) == UNION {i.generates : i \in ToSet(active)} \ UNION {i.generates : i \in ToSet(left)}

FakeKeyUp(s) ==
    LET b == serverKeys[s]
        left == SelectSeq(active, LAMBDA i : i.button # b \/ i.lock)
    IN IF b = NoKey THEN Unchanged
       ELSE /\ synthetic' = Freed(b)
            /\ serverKeys' = [serverKeys EXCEPT ![s] = NoKey]
            /\ active' = left /\ mask' = mask \ LapsedModifiers(left)
            /\ Strikes(<<Stroke(b, FALSE, FALSE)>>, {})
            /\ wanted' = NoKey

FakeAllKeysUp ==
    LET down == SetToSeq({b \in Buttons : synthetic[b] > 0})
    IN /\ Strikes([n \in DOMAIN down |-> Stroke(down[n], FALSE, FALSE)], {})
       /\ synthetic' = [b \in Buttons |-> IF synthetic[b] > 0 THEN 0 ELSE synthetic[b]]
       /\ serverKeys' = [s \in ServerButtons |-> NoKey]
       /\ active' = <<>> /\ mask' = OsMask(os')
       /\ wanted' = NoKey

(* updateKeyState, when the client's screen is enabled for a connection.    *)
Polled(items, m) == SetToSeq({i \in items : i.generates \intersect m # {}})
UpdateKeyState ==
    /\ synthetic' = [b \in Buttons |-> 0]
    /\ serverKeys' = [s \in ServerButtons |-> NoKey]
    /\ mask' = OsMask(os) /\ active' = Polled(Items, OsMask(os))
    /\ wanted' = NoKey
    /\ UNCHANGED <<os, stray>>

(***************************************************************************)
(* The server's keyboard and the cursor                                     *)
(***************************************************************************)
Pressed == {ServerModifiers[s] : s \in server.held} \ (Locks \union {NoKey})
ServerMask == server.locks \union Pressed
Id(s) == ServerLayout[s][ServerMask \intersect {Shift, CapsLock}]

Hold(s) ==
    server' = [server EXCEPT !.held = @ \union {s},
                             !.locks = IF ServerModifiers[s] \in Locks THEN SymDiff(@, {ServerModifiers[s]}) ELSE @]

(* A press reaches the client unless the cursor is elsewhere, or the        *)
(* client's InputValidator drops it: its key is blocked or comes too often. *)
ServerPress(s) ==
    /\ s \notin server.held /\ Cardinality(server.held) < Rollover /\ Hold(s)
    /\ \/ here /\ FakeKeyDown(Id(s), ServerMask, s)
       \/ Unchanged
    /\ UNCHANGED here

ServerRepeat(s) ==
    /\ s \in server.held /\ here
    /\ FakeKeyRepeat(Id(s), ServerMask, s)
    /\ UNCHANGED <<server, here>>

ServerRelease(s) ==
    /\ s \in server.held /\ server' = [server EXCEPT !.held = @ \ {s}]
    /\ IF here THEN FakeKeyUp(s) ELSE Unchanged
    /\ UNCHANGED here

Enter ==
    /\ ~here /\ here' = TRUE
    /\ Unchanged /\ UNCHANGED server

Leave ==
    /\ here /\ here' = FALSE
    /\ FakeAllKeysUp /\ UNCHANGED server

(* The connection was lost, which makes the cursor leave, and is back.      *)
Enable ==
    /\ ~here /\ UpdateKeyState
    /\ UNCHANGED <<server, here>>

KeyInit ==
    /\ server = [held |-> {}, locks |-> {}] /\ here = FALSE
    /\ os \in [held : {{}}, locks : {{}, {CapsLock}}, typed : {NoKey}]
    /\ serverKeys = [s \in ServerButtons |-> NoKey] /\ synthetic = [b \in Buttons |-> 0]
    /\ mask = os.locks /\ active = Polled(Items, mask)
    /\ wanted = NoKey /\ stray = {}

KeyNext ==
    \/ \E s \in ServerButtons : ServerPress(s) \/ ServerRepeat(s) \/ ServerRelease(s)
    \/ Enter \/ Leave \/ Enable

KeySpec == KeyInit /\ [][KeyNext]_keyVars

(***************************************************************************)
(* Properties                                                               *)
(***************************************************************************)
(* What the client has pressed for a button of the server ends with that     *)
(* button, and all of it when the cursor leaves, whatever the key map made   *)
(* of it and whatever events were dropped or came while the cursor was away  *)
(* (m_serverKeys and m_syntheticKeys in fakeKeyDown, fakeKeyUp and           *)
(* fakeAllKeysUp).                                                          *)
HeldForServer ==
    /\ \A s \in ServerButtons : serverKeys[s] # NoKey => here /\ s \in server.held
    /\ ~here => \A b \in Buttons : synthetic[b] <= 0

(* A key that is down on the client is one the client will release: the      *)
(* server still holds what it stands for, and when the cursor has left       *)
(* nothing is down (fakeAllKeysUp "for all fake pressed keys"), however keys *)
(* of the server share a key of the client, and whatever presses were        *)
(* dropped.  A key that was left by a repeat (stray) is the exception.       *)
NoStuck ==
    /\ HeldForServer
    /\ \A b \in Buttons : synthetic[b] = Cardinality({s \in ServerButtons : serverKeys[s] = b})
    /\ \A b \in os.held \ stray : synthetic[b] > 0
    /\ ~here => os.held \subseteq stray

(* What is typed on the client is the character that the server sent, under  *)
(* whatever modifiers and toggles the two keyboards have and need for it     *)
(* (keysForKeyItem, mapCharacterKey).                                        *)
Typed == wanted # NoKey => Types(os.typed, wanted)

(* m_mask follows the modifiers of the local system through every press,     *)
(* flip, restoration and release (KeyState::pollActiveModifiers is only      *)
(* asked when the cursor leaves or the screen is enabled).                   *)
MaskTrue == mask = OsMask(os)

(* Typing leaves the local toggles as they were (keysToRestoreModifiers):    *)
(* those that m_activeModifiers has.  fakeAllKeysUp forgets them, so that    *)
(* after the cursor has left once a toggle that a key turns off stays off.   *)
LocksKept ==
    [][mask \intersect Locks \subseteq UNION {i.generates : i \in ToSet(active)} => os'.locks = os.locks]_keyVars

=============================================================================

