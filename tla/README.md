# ibus-chewing in TLA+

ibus-chewing is an IBus input method engine that turns key presses into Chinese
text with the libchewing library. This directory holds TLA+ specifications of
its own logic (`src/src/`), the configurations that model-check them with TLC,
and proofs checked by TLAPS. `PROJECT.json` lists components, runs, the source
lines of every definition, hazards, findings and theorems.

## The system

| Component | State it keeps | Operations | What makes it correct | Module |
|---|---|---|---|---|
| Pre-edit component, `ibus-chewing-preedit.c` | libchewing context, `preEdit`, `bpmfLen`, `outgoing`, lookup table, `FLAG_TABLE_SHOW`, last key and its time | `process_key` and its table of rules, `clear`, `clear_outgoing`, `force_commit`, mode setters, key codes to symbols | text, table and flag agree with libchewing after every call; nothing is lost, typed twice or left behind; no key is stuck | `PreEdit`, `Keyboard` |
| libchewing (a library) | modes, buffer, cursor, bopomofo, candidate list, commit string | `chewing_handle_*`, `chewing_ack`, setters | assumed: its contract as the calls rely on it | `Chewing` |
| Lookup table, `ibus-chewing-lookup-table.c` | candidates of a page, cursor, page size | `update`, `resize` | it is the page libchewing chooses from | in `PreEdit`, `Settings` |
| Engine, `ibus-chewing-engine.c` | status flags, settings, texts and properties to display | IBus callbacks: keys, buttons, clicks, reset, enable, focus, content type, properties, settings | text reaches the client it was typed for, once; what is shown is what is there | `Engine`, which implements `InputMethod` |
| Key symbol utilities, `ibus-chewing-util.c` | none | keypad conversion, logging | | constants of `PreEdit` |
| Settings, `*.gschema.xml`, setup window, `engine_init` and `set_property` | GSettings keys, the rows of the window, what libchewing was told | bindings, index/id mapping, a change by window or another program | every engine works with the settings there are, and the window shows what is in use | `Settings` |
| Start, `main.c` | bus connection, the old `plain-zhuyin` setting | connect, request a name, migrate one setting | a stopped or repeated migration forgets nothing | `Settings` |
| Setup program, about box | widgets | | user interface only | not modelled |

IBus calls the engine's handlers one at a time from one main loop. A handler
calls the pre-edit component, which calls libchewing and then copies what
libchewing holds into its own fields; then `ibus_chewing_engine_update` sends
the outgoing text to the client and the pre-edit text, a message and the table
to the panel. Settings arrive as property changes of the engine and are passed
on to libchewing; the component reads some of them through the engine and
notifies mode changes to it through two flags.

An engine process has one thread. Other processes share two things with it: the
client, which commits a shown text by itself when it loses the focus, and the
GSettings store, which the setup window, other programs and a second engine
process (IBus restarts one while the old one is still there) change at any
time. The hard behaviours are these:

- the same fact is kept in several places (libchewing's list, the lookup table,
  `FLAG_TABLE_SHOW`; libchewing's buffer, `preEdit`, the display; the mode, the
  language bar, the Caps Lock LED) and each call must bring all of them along;
- calls arrive in any order: a reset, a loss of focus, a click or a change of
  settings while a list is open or a syllable half typed;
- clearing is done by counting Esc calls from what the component remembers;
- the early returns for ignored keys skip the copying;
- the Shift toggle depends on time and on the previous key, of which the code
  keeps one for all keys;
- a press may be handled in one language and its release in another;
- a change of settings arrives late, and a handler reads more of the store than
  the setting it was called for;
- the migration makes two writes, and the process may stop at any point.

## The modules

`Chewing` (constants: size of the buffer, of a syllable, bound on pages, the
strings of selection keys the settings allow). A context is a record of counts;
each `chewing_handle_*` is the set of contexts the call may leave. It is as
nondeterministic as the library looks from outside: a key may start, grow or
end a syllable or open a symbol list, a list has any size, a chosen candidate
replaces a phrase or is inserted, Enter commits or ends in a message, Default
may report that it ignored or absorbed the key. That the code checks no other
result of libchewing is part of the model.

`PreEdit`, over `Chewing`. The variables are the fields of
`IBusChewingPreEdit`, the settings it reads (`conf`: toggle key, default
English case, orientation), the notifications it asks for (`pending`) and what
the last key returned (`consumed`).

| Action or operator | Code |
|---|---|
| `ProcessKey`, `Bypassed`, `IgnoredRelease`, `Dispatch` | `ibus_chewing_pre_edit_process_key` and its table of rules, one `Handle...` per handler |
| `Process`, `Absorb`, `Ignore` | the end of `process_key`, by the handler's response |
| `KeySymDefault`, `KeySymFix` | `self_handle_key_sym_default`, `self_key_sym_fix` |
| `UpdateTable` | `ibus_chewing_lookup_table_update` |
| `Update`, `Render` | `ibus_chewing_pre_edit_update`, text as a sequence of "zi" and "bpmf" |
| `ClosedList`, `BopomofoCleared`, `PreEditCleared` | `clear_bopomofo`, `clear_pre_edit` |
| `Clear`, `ClearOutgoing`, `ForceCommit`, `SetChiEngMode`, `SetFullHalfMode` | the public functions of those names |
| `Resize` | `ibus_chewing_lookup_table_resize` |
| `Tick` | the monotonic clock, as far as the Shift handlers read it |

A key event is a pair of a key and a set of modifiers; a Shift key is the one
whose time matters, so `keyLast` tells Shift from the rest and `held` counts
100 ms steps, to "more than 200 ms".

`Keyboard`, over `PreEdit`: the keys of a keyboard, each released only after it
was pressed, with the modifiers that are held and the symbol that
`ibus_chewing_pre_edit_key_code_to_key_sym` (`KeySym`) gives the key in the
language of that moment. `down` are the keys held, `clientDown` those the
application believes are held because it was passed their press and not their
release. `since` and `between` remember of each held Shift key when it was
pressed and what happened since; the code keeps one last key and one time
for all keys, and the properties compare the two. `EngineCalls` stands for the
engine's calls in between.

`Engine`, over `PreEdit`. A handler that processes a key is two steps, before
and after the pre-edit component's work: `ProcessKeyEvent`, the panel buttons
and `CandidateClicked`, and then `EngineUpdate`; `stage` keeps every other
handler out in between, as the single main loop does. The other callbacks are a
step each: `Reset`, `Enable`, `FocusIn`, `FocusOut`, `SetContentType`,
`ActivateInputMode`, `ActivateAlnumSize`, `SetProperty`. The environment is
`LedMoved` and `TimePasses`. What IBus gets is in `sent` (characters given to
the client in the step), `display` and `panel`. On a loss of focus the client
keeps what it was shown, since `update_pre_edit_text` sends the text with
`IBUS_ENGINE_PREEDIT_COMMIT`; `FocusOut` gives it that. The IBus daemon and the
client are assumed to call one engine in order and to send keys and clicks only
to an engine that has the focus.

`InputMethod` is the abstract specification: what an input method promises the
client, without keys, lists or a library. A character is typed, erased,
published or discarded; what a key committed is published before anything else
happens, to the client in focus. `Engine` implements it
(`ImplementsInputMethod`) under the refinement mapping

| InputMethod | Engine |
|---|---|
| `composing` | the buffer of libchewing while there is a client in focus, else 0 |
| `committed` | `outgoing` and libchewing's commit string |
| `given` | `sent` |
| `focused`, `sealed` | the flags `FOCUS_IN` and `IS_PASSWORD` |

A text left in the buffer when the focus goes is no one's any more: the client
has it, and `FocusIn` has to clear the buffer before the next one, or
characters would come from nowhere in `GainFocus`.

`Settings`: the store, the engine processes and the window. `Launch`,
`Migrate`, `StartComponent`, `Exit` are `main.c`, with the migration write by
write (`todo`, then `writes` until `Flush` brings them to the store).
`StartComponent` ends with `ibus_chewing_engine_init`, which binds every
setting (`Bound`). A change of a setting by another party is `due` to a process
until its main loop hands it to the binding (`Notice`), which calls
`ibus_chewing_engine_set_property` (`SetProperty`); `lib` is what libchewing
and the component were told. The window has a selected row per setting (`rows`)
and the mappings between rows and names (`RowOf`, `SelectRow`). `asked` and
`chosen` remember whether plain Zhuyin was asked for and whether the user has
chosen a conversion engine since.

Some operators are marked "Mutant": each is a definition changed the way a
plausible bug would change it, and serves to show that a property can fail.
No action uses them.

`MCPreEdit`, `MCKeyboard`, `MCEngine` and `MCSettings` give the constants their
values for TLC. `ChewingProofs`, `PreEditProofs`, `PreEditActionProofs`,
`KeyboardProofs`, `EngineProofs`, `EngineActionProofs` and `SettingsProofs` hold
the proofs.

## The runs

Each run takes the keys its question needs, one of each class: selection keys
that are digits, a keypad digit, a letter (in `MCPreEdit` in both cases, and as
a selection key in `PreEditSelKeyCase`), space, Caps Lock, the Shift keys and the
editing keys, with the modifiers their handlers ask for.

| Run | What it shows |
|---|---|
| `PreEditLists` | flag, table and commit string agree with libchewing; `ClearIsComplete`; Return picks what is highlighted |
| `PreEditModes` | text mirrors libchewing on every path; only the configured key changes the language, at the cost of the bopomofo; passed keys have no effect; English mode stays out |
| `KeyboardTaps` | no key is stuck in the application; releases type nothing; a Shift toggles exactly when it is tapped by itself, whatever else is held |
| `EngineText` | every character typed goes to the client it was typed for, once, or is erased there (`ImplementsInputMethod`); password fields are sealed; what is shown of the buffer is the buffer; a click picks what was clicked |
| `EngineModes` | the language bar shows the mode (without default-use-english-mode); Caps Lock keeps mode and LED in step; a bopomofo is caught in English mode by enabling alone |
| `SettingsFollow` | engines follow the store, the window shows what is in use, the migration forgets nothing, repeated, interrupted or made by two processes at once, and ends |
| `PreEditChiNotice` | violated: Caps Lock changes the language without notification |
| `PreEditSelKeyCase` | violated: the upper case default breaks letter selection keys in English mode |
| `EngineGhostTable` | violated: a reset with a list open leaves the flag of the table set, and a key libchewing does not handle shows the old table again |
| `EngineEnglishPanel` | violated: with default-use-english-mode, enabling leaves the language bar at Chinese |
| `EngineCapsLock` | violated: CHANGELOG says Caps Lock is always processed; the bypass passes it on when the LED was off |
| `KeyboardTwoShifts` | violated: CHANGELOG says Shift must be released immediately after its press; an event of the other Shift lets a Shift held for long toggle |

The violated properties state what the quoted comment, description or changelog
says; "findings" in `PROJECT.json` has quotation and line. `CapsLockKeepsStep`
shows the other side of `EngineCapsLock`: the exception in the bypass is exactly
what keeps an LED and a mode that agree in agreement.

Bounds, and why they are enough:

- `PreEdit`: the buffer holds two characters, a syllable one symbol, a list two
  pages of two candidates. That is a full buffer, a cursor inside the text, a
  bopomofo between characters, a first and a last page, a page with one
  candidate and a page with two. Larger values repeat these cases.
  `MaxOutgoing = 0` stops keys while committed text waits for the engine; the
  engine never lets any wait (`NothingWaits`).
- `Keyboard`: both Shift keys, Control, space and a letter whose symbol differs
  between the layouts; a text of one character, one page, one candidate. Times
  are counted to "more than 200 ms", past which the code treats all alike. The
  options that no key here depends on have their defaults (`MCKeyboardSpec`).
- `Engine`: two characters where text is the question (`EngineText`), one where
  modes are; one page; a second candidate only where clicks matter. A click may
  also fall outside the page.
- `Settings`: an engine and its successor, the window and another program, and
  `MaxChanges = 2` changes, which is a change while another is under way, of
  the same setting or of one that the same handler reads. `Picks` and `Values`
  hold one value per setting that differs from the default, of the layouts
  those in which the two lists of names disagree, of `sync-caps-lock` all
  three, "input method" by another program, for the window has no row for it.
  The number of starts and stops of a process is not bounded.

Fairness is assumed in two places.

- `EngineFairSpec`: weak fairness of `EngineUpdate`, the second half of a C
  function whose first half was called: nothing waits in between. With it,
  what a key commits is given to the client (`Publish` of `InputMethod`); each
  handler has to make that second call itself.
- `SettingsFairSpec`: weak fairness of `Flush` and `Dispatch` for each process,
  that is, GSettings' worker writes what was queued and a running main loop
  handles what is due. Nothing is assumed of starts, stops, users or other
  programs, so `EngineCatchesUp` and `MigrationEnds` except an engine that
  stops.

No run turns the deadlock check off.

## The proofs

TLAPS checks the theorems for every value of the constants: every keyboard,
every set of selection keys, every size of libchewing's buffers, every set of
preferences, any number of engine processes. They rest on the assumptions named
in the modules, which TLC evaluates for the values of the runs:

- `ChewingAssumption`: buffer, syllable and pages have room for one; a list has
  at least one selection key.
- `PreEditAssumption`: digits, keypad keys, printable keys and the keys with a
  rule of their own (`NamedKeys`) are four disjoint sets, as the table of rules
  is searched for the first match; a keypad key stands for a digit or a
  printable key; the toggle is one of the five the settings know.
- `KeyboardAssumption`: the other layout has the same Shift keys or none, and
  Control is no Shift key.
- `EngineAssumption`: selection keys are digits or printable keys;
  `sync-caps-lock` has one of its three values.
- `SettingsAssumption`: neither the window nor another program is an engine
  process; they pick values that the code's lists of names contain, and a page
  size in the range of the schema.

| Module | What it proves |
|---|---|
| `ChewingProofs` | lemmas: each call of libchewing's contract leads from a sound context (`ContextOK`) to a sound one, and what it does to characters, list and commit string |
| `PreEditProofs` | `PreEdit`'s type invariant, `FlagCoversList`, `PreEditMirrorsContext`, `CommitCollected`, `TableMirrorsList`, `NoBopomofoInEnglish`, `ClearIsComplete`, `PassedKeyTypesNothing`, `OnlyToggleChangesMode` |
| `PreEditActionProofs` | `EnglishStaysOut`; `ReturnPicksHighlighted` under `SelKeysDistinct`; and, for the settings under which they are true, `ChiNotifiedByKeys` and `SelectionKeyReachesList` |
| `KeyboardProofs` | `NoStuckKeys`, `KeysActOnPress`, `OnlyTapToggles`, `TapToggles`; `ToggleFollowsPress` with one Shift key; and `KeyboardSpec => Spec` |
| `EngineProofs` | `EngineTypeOK`, `NothingWaits`, `ShownTextIsBuffer`, `BopomofoStaysChinese`, `PasswordIsSealed`, `FocusInStartsClean`, `PanelShowsInputMode` without default-use-english-mode, and `EngineSpec => IM!IMSpec` |
| `EngineActionProofs` | `CapsLockKeepsStep`, `ClickPicksClicked` under `SelKeysDistinct`, and `EnglishStaysOut` and `ReturnPicksHighlighted` of the engine |
| `SettingsProofs` | `PlainZhuyinKept`, `EngineIsCurrent`, `ShownIsUsed` |

**The component.** None of its properties is inductive alone; the invariant is
`IInv == Core /\ KeyInv /\ ~Caught(ctx)`, with `Core == TextInv /\ TableInv`.
Each part is there for another:

- `ClearIsComplete` counts the Esc calls from the flag of the table and from
  `bpmfLen`, so it needs both to be right about libchewing (`FlagCoversList`,
  `PreEditMirrorsContext`); that libchewing opens no list over a bopomofo is
  part of `ContextOK`, without which the Esc meant for the bopomofo would
  close a list.
- The text is right after an early return only if it was right before and the
  key returned early changed nothing, which `PassedKeyTypesNothing` also says.
- A bopomofo must not be caught in English mode, where the next clear would not
  reach it. The engine's `Enable` may catch one, so `~Caught(ctx)` stands apart
  and the engine's proof keeps `Core` and `KeyInv` alone.

The proof follows the code: a lemma per handler of the table of rules says what
it leaves to the end of `process_key`, and one lemma treats that end for each
response.

**Choosing a candidate.** `ReturnPicksHighlighted` and `ClickPicksClicked` are
about a step, but rest on an invariant of their own, `PickInv`: an open list
has nothing picked and a closed one has no width (`ListInv`), and the table's
page size is the number of selection keys. The second part makes the cursor in
the page an index of the selection keys; the first makes a choice the work of
this key and not of one before. A lemma per handler shows that it hands
`Process` a context that keeps `ListInv` and chose nothing (`Plain`), or passed
one key to `chewing_handle_Default` and chose among the candidates that key
selects. That these are one and the same candidate is the hypothesis
`SelKeysDistinct`: no selection key is the upper or lower case of another, for
`key_sym_fix` may change the case of a letter. All strings the setup window
offers satisfy it. In the engine the same invariant survives the handlers that
are no keys: `PickInv` is kept by `Reset`, by every change of focus and by
`restore_mode`, which changes the mode alone.

**English mode.** From half-shape English with nothing pending only three keys
are not bypassed: Shift+space, Caps Lock and a Shift. Each changes a mode or
does nothing, and so does every call of the engine; enabling might have to drop
a bopomofo, but an empty text has none (`EmptyTextHasNoBopomofo`).

**The claims that fail.** Where a run refutes a claim of the documentation, a
theorem says for which settings it does hold, so that the two together tell how
far the claim is wrong: every change of the language by a key is notified where
the toggle is not Caps Lock (`ShiftChangeIsNotified`); a selection key reaches
the list when it is no upper case letter, nor a letter at all where Caps Lock
toggles to forced capitals (`UnshiftedKeysSelect`); a toggle follows its press
where there is one Shift key (`AToggleFollowsItsPress`); the language bar is
right without default-use-english-mode (`PanelIsRight`).

**The keyboard.** `TapInv` says of every Shift key that is down what the one
last key and the one time of the code tell about it: if the last key is a Shift
and no other Shift was touched since, no key was pressed since; if nothing
happened since, the time counted is that since its press. `NoStuckKeys` and
`KeysActOnPress` need only that a release is never consumed and changes text
in no way but as the toggle. With one Shift key nothing but releases and presses
of other keys comes between its press and its release (`Undisturbed`), and the
time the code keeps is the time since the press. `KeyboardUsesComponent` shows
that a keyboard together with the engine's calls is one of the users `PreEdit`
allows for, if the component's `KeyEvents` hold the symbols of the keyboard with
every set of modifiers: the theorems about `Spec` then hold of `KeyboardSpec`.

**The engine.** `EngineInv` joins `Core` and `KeyInv` with two parts.
`StageInv`: nothing is outgoing between handlers, and a handler is in its
middle only for a client in focus that is no password field. `ShownInv`:
without focus nothing is shown, and with it, between handlers, the characters
shown are those of the buffer. The actions are first put into eight kinds
(`StepKinds`): the first half of a key or click, `EngineUpdate`, `Reset`,
`Enable`, `FocusIn`, `FocusOut`, `SetContentType`, and the steps that settle in
place (modes, settings, LED, time). Each kind keeps the invariant and maps to
`InputMethod`: keys to `Type`, `Erase` or `Other`, the update to `Publish` or
`Other`, `Reset` to `Discard`, focus to `GainFocus` and `LoseFocus`, the content
type to `Seal`, the rest to `Other`. That is `EngineIsInputMethod`. In
`PanelIsRight` no preference set may ask for English mode; `EngineEnglishPanel`
shows that the assumption is necessary.

**The settings.** `MigrationInv` describes how far a migration can be: what is
queued and what it still has to write are the two writes in order, or a part of
them whose beginning is already in the store. As long as plain Zhuyin was asked
for and nothing else chosen, either the new setting is there, or the old one is
and every process under way has both writes before it. It holds over any number
of starts and stops. `CurrentInv` says of each setting that libchewing has the
store's value unless a notice of it is due, and of the lookup table that it has
both values `resize` reads unless either is due. `ShownIsUsed` adds that every
name in the store is one of the code's lists (`StoreInv`) and that the window
shows the row of the store's name unless a notice is due to it (`RowsInv`); what
is left is that row and libchewing's number name the same entry of lists in two
different orders, which is proved name by name.

Only model-checked: what needs fairness (`EngineCatchesUp`, `MigrationEnds`, and
that what is committed is published, the fair half of `ImplementsInputMethod`),
for the prover has neither `ENABLED` nor liveness. Every other property of a
passing run is a theorem. Of the refuted claims `ShownTableHasList` and
`CapsLockAlwaysToggles` have no theorem: it is no setting that makes them false. The model has no recursive definition, so nothing had to be
left out for want of induction.

## Not modelled

- Which character a syllable becomes, dictionaries, tones and phrases; the
  library's options `easySymbolInput`, `autoShiftCur`, `addPhraseDirection`,
  `phraseChoiceRearward`, `spaceAsSelection`, and what a keyboard type and a
  conversion engine do inside libchewing (that they are the ones in the
  settings is in `Settings`). A change of `max-chi-symbol-len` while a longer
  text is being composed: what becomes of the text is inside the library.
- The selection keys past the page size that `resize` passes uninitialized: the
  code tells libchewing the page size first, and a model of what the surplus
  does could only assume the answer.
- Settings that are copied as they are, in `Settings`; those that steer the
  engine change at any time in `Engine`'s `SetProperty`. The writing back by a
  binding of a property that the engine sets itself: no property is set by the
  code but through its binding.
- The window's own writes, which are treated as in the store at once; two
  windows; several engine objects in one process, which share the store and
  nothing else.
- The hint `clean-buffer-focus-out` gives about a text kept across a change of
  focus: `focus_in` clears the buffer always, and the model does as the code.
- Conversion of hardware key codes by `ibus_keymap_lookup_keysym` beyond its
  result, capabilities of the client, appearance and visibility of properties,
  the launch of the setup program, the setup application and its about box.
- Memory: allocation, reference counts, `finalize`.

## What could follow

`LookupTable`: candidates as a sequence and the labels of the page, so that the
text of a candidate and the key that selects it are compared; it would take a
model of libchewing's enumeration, which the code restarts on every update.
