------------------------------ MODULE Keyboard ------------------------------
(***************************************************************************)
(* A keyboard in front of the pre-edit component.  PreEdit takes key       *)
(* events in any order; here they come from keys that are released only    *)
(* after they were pressed, carry the modifiers that are held, and are     *)
(* converted by ibus_chewing_pre_edit_key_code_to_key_sym.  The time and   *)
(* the events since the press of each Shift key are remembered, to compare *)
(* what the user did with the two fields, keyLast and keyLastTs, that the  *)
(* code keeps of it.                                                       *)
(***************************************************************************)
EXTENDS PreEdit

CONSTANTS
  Keys,         \* the keys of the keyboard
  ControlKeys,  \* those that are Control
  SystemSym,    \* the symbol each has in the layout of the system
  USSym,        \* and in ibus_keymap_get("us"), or "VoidSymbol"
  UseSystem     \* use-system-keyboard-layout

Shifts == {k \in Keys : SystemSym[k] \in ShiftKeys}

ASSUME KeyboardAssumption ==
  /\ \A k \in Shifts : USSym[k] \in {SystemSym[k], "VoidSymbol"}
  /\ \A k \in Keys \ Shifts : USSym[k] \notin ShiftKeys
  /\ ControlKeys \subseteq Keys \ Shifts
  /\ UseSystem \in BOOLEAN

VARIABLES
  down,        \* the keys held
  clientDown,  \* the keys held as far as the client was told
  since,       \* time since each held Shift was pressed, as held counts it
  between      \* and what happened since: "press", "release", "shift"

keyboardVars == <<down, clientDown, since, between>>
allKeyVars == <<vars, keyboardVars>>

-----------------------------------------------------------------------------
\* ibus_chewing_pre_edit_key_code_to_key_sym.
KeySym(k) ==
  IF ~ctx.chi \/ UseSystem \/ USSym[k] = "VoidSymbol" THEN SystemSym[k] ELSE USSym[k]

\* The modifiers of an event are those held before it.
Modifiers ==
  (IF down \cap Shifts # {} THEN {"Shift"} ELSE {})
    \cup (IF down \cap ControlKeys # {} THEN {"Control"} ELSE {})

\* Every Shift that is held sees the event pass.
Seen(what) ==
  [s \in Shifts |-> IF s \in down THEN between[s] \cup {what} ELSE {}]

PressKey(k) ==
  /\ k \notin down
  /\ ProcessKey(KeySym(k), Modifiers)
  /\ down' = down \cup {k}
  /\ clientDown' = IF consumed' THEN clientDown ELSE clientDown \cup {k}
  /\ IF k \in Shifts
     THEN /\ since' = [since EXCEPT ![k] = 0]
          /\ between' = [Seen("shift") EXCEPT ![k] =
                           IF down \cap Shifts = {} THEN {} ELSE {"shift"}]
     ELSE /\ between' = Seen("press")
          /\ UNCHANGED since

ReleaseKey(k) ==
  /\ k \in down
  /\ ProcessKey(KeySym(k), Modifiers \cup {"Release"})
  /\ down' = down \ {k}
  /\ clientDown' = IF consumed' THEN clientDown ELSE clientDown \ {k}
  /\ IF k \in Shifts
     THEN /\ since' = [since EXCEPT ![k] = 0]
          /\ between' = [Seen("shift") EXCEPT ![k] = {}]
     ELSE /\ between' = Seen("release")
          /\ UNCHANGED since

\* 100 ms pass, for the keys held and for the component's last key.
KeyboardTick ==
  /\ \E s \in Shifts \cap down : since[s] < 3
  /\ since' = [s \in Shifts |-> IF s \in down /\ since[s] < 3 THEN since[s] + 1
                                                             ELSE since[s]]
  /\ held' = IF keyLast = "Shift" /\ held < 3 THEN held + 1 ELSE held
  /\ UNCHANGED <<text, iTable, tableShow, keyLast, consumed, pending, conf,
                 down, clientDown, between>>

\* The engine takes the outgoing text before the next key, and calls the rest.
EngineCalls ==
  /\ \/ outgoing > 0 /\ ClearOutgoing
     \/ outgoing = 0 /\ Clear
     \/ outgoing = 0 /\ SetChiEngMode(~ctx.chi)
     \/ outgoing = 0 /\ SetFullHalfMode(~ctx.full)
  /\ UNCHANGED keyboardVars

KeyboardInit ==
  /\ Init
  /\ down = {}
  /\ clientDown = {}
  /\ since = [s \in Shifts |-> 0]
  /\ between = [s \in Shifts |-> {}]

KeyboardNext ==
  \/ \E k \in Keys : PressKey(k)
  \/ \E k \in Keys : ReleaseKey(k)
  \/ KeyboardTick
  \/ EngineCalls

KeyboardSpec == KeyboardInit /\ [][KeyboardNext]_allKeyVars

-----------------------------------------------------------------------------
(* Properties. *)

Released(k) == k \in down \ down'

\* Whether the settings make a Shift key the toggle key.
Toggles(k) == conf.toggle \in {"s", IF SystemSym[k] = "Shift_L" THEN "l" ELSE "r"}

\* No key is stuck: the client is told of the release of each key it was told
\* was pressed, also when the language changes in between or by that release.
NoStuckKeys == clientDown \subseteq down

\* A release is not another press: it adds nothing to the text.
KeysActOnPress ==
  [][\A k \in Keys : Released(k) =>
       /\ ctx'.buf = ctx.buf /\ ctx'.bpmf <= ctx.bpmf
       /\ ctx'.pages <= ctx.pages /\ outgoing' = outgoing]_allKeyVars

\* A Shift toggles the language only when it was tapped by itself, whatever
\* was held when it was pressed; two Shift keys together are another matter.
OnlyTapToggles ==
  [][\A k \in Shifts : Released(k) /\ ctx'.chi # ctx.chi =>
       \/ "shift" \in between[k]
       \/ "press" \notin between[k] /\ since[k] <= 2]_allKeyVars

\* A tap always toggles, in either language and whatever is being composed:
\* no state locks the user into English mode.
TapToggles ==
  [][\A k \in Shifts : Released(k) =>
       \/ ctx'.chi # ctx.chi
       \/ between[k] # {} \/ since[k] > 2 \/ "Control" \in Modifiers
       \/ ~Toggles(k)]_allKeyVars

-----------------------------------------------------------------------------
(* A claim of the change log that the code does not keep. *)

\* CHANGELOG.md:12: Shift triggers a mode change only if it is released
\* immediately after the key press.
ToggleFollowsPress ==
  [][\A k \in Shifts : Released(k) /\ ctx'.chi # ctx.chi => since[k] <= 2]_allKeyVars
=============================================================================
