------------------------------ MODULE PreEdit ------------------------------
(***************************************************************************)
(* IBusChewingPreEdit, ibus-chewing-preedit.c: the component that turns    *)
(* key events into calls of libchewing and keeps what the engine shows and *)
(* sends: the pre-edit text, the outgoing text and the lookup table.       *)
(*                                                                         *)
(* Everything runs in the engine's one thread, so a call of a public       *)
(* function is a step.  A text is a sequence of "zi" and "bpmf" tokens, or *)
(* its length when no property looks inside.                               *)
(***************************************************************************)
EXTENDS Chewing

CONSTANTS
  KeyEvents,     \* bound: the <<kSym, unmaskedMod>> pairs that may arrive
  DigitKeys,     \* IBUS_KEY_0 .. IBUS_KEY_9
  KeypadKeys,    \* IBUS_KEY_KP_0 .. 9 and KP_Multiply .. KP_Divide
  PrintableKeys, \* the other printable ASCII keys but space
  KPNormal,      \* key_sym_KP_to_normal: the key each keypad key stands for
  Upper,         \* toupper, on the lower case letters
  Confs,         \* the settings the handlers read from the engine
  MaxOutgoing    \* bound: characters waiting for the engine

ShiftKeys == {"Shift_L", "Shift_R"}

\* The keys with a rule of their own.
NamedKeys ==
  ShiftKeys \cup {"Caps_Lock", "space", "Return", "BackSpace", "Delete", "Escape",
                  "Left", "Up", "Right", "Down", "Page_Up", "Page_Down", "Tab",
                  "Home", "End", "special"}

ASSUME PreEditAssumption ==
  /\ MaxOutgoing \in Nat
  /\ DigitKeys \cap KeypadKeys = {}
  /\ PrintableKeys \cap (DigitKeys \cup KeypadKeys) = {}
  /\ NamedKeys \cap (DigitKeys \cup KeypadKeys \cup PrintableKeys) = {}
  /\ KPNormal \in [KeypadKeys -> DigitKeys \cup PrintableKeys]
  /\ \A f \in Confs : f.toggle \in {"c", "s", "l", "r", "n"}

VARIABLES
  ctx,         \* context, the libchewing context
  preEdit,     \* preEdit, as tokens
  bpmfLen,     \* bpmfLen
  outgoing,    \* outgoing, its length
  iTable,      \* iTable: candidates held, cursor_pos and page_size
  tableShow,   \* FLAG_TABLE_SHOW
  keyLast,     \* keyLast: a Shift key or another, no code asks for more
  held,        \* now - keyLastTs in units of 100 ms, rounded up, see Tick
  consumed,    \* what the last ibus_chewing_pre_edit_process_key returned
  pending,     \* the mode changes notified to the engine
  conf         \* toggle key, English case and table orientation

text == <<ctx, preEdit, bpmfLen, outgoing>>
vars == <<ctx, preEdit, bpmfLen, outgoing, iTable, tableShow, keyLast, held,
          consumed, pending, conf>>

-----------------------------------------------------------------------------
(* Modifiers and key symbols. *)

Masked(m) == m \cap {"Shift", "Control", "Alt"}

ToUpper(k) == IF k \in DOMAIN Upper THEN Upper[k] ELSE k
ToLower(k) == IF \E l \in DOMAIN Upper : Upper[l] = k
              THEN CHOOSE l \in DOMAIN Upper : Upper[l] = k ELSE k

\* The case of a letter in context c: Chinese mode ignores Caps Lock, English
\* mode has a default case when Caps Lock is the toggle key.
KeySymFix(c, k, m) ==
  LET shifted == "Shift" \in m
      case == IF conf.toggle = "c" THEN conf.case ELSE "n" IN
  IF c.chi \/ case = "l" THEN (IF shifted THEN ToUpper(k) ELSE ToLower(k))
  ELSE IF case = "u" THEN (IF shifted THEN ToLower(k) ELSE ToUpper(k))
  ELSE k

-----------------------------------------------------------------------------
(* Pieces of the component's functions. *)

\* The buffer with the bopomofo string at the cursor, or at its end.
Render(c) ==
  LET zi(n) == [i \in 1..n |-> "zi"]
      bopomofo == [i \in 1..c.bpmf |-> "bpmf"] IN
  IF c.cur < c.buf THEN zi(c.cur) \o bopomofo \o zi(c.buf - c.cur)
                   ELSE zi(c.buf) \o bopomofo

\* Esc once for the list the flag says is open, and once for a bopomofo.
ClosedList(c) == IF tableShow THEN Escaped(c, c.escAll) ELSE c
BopomofoCleared(c) ==
  LET d == ClosedList(c) IN IF d.bpmf > 0 THEN Escaped(d, d.escAll) ELSE d

\* Mutant: the last Esc obeys the user's setting.
PreEditClearedByOption(c) == Escaped(BopomofoCleared(c), c.escAll)

\* ... with one more Esc, told to clean the whole buffer.
PreEditCleared(c) == Escaped(BopomofoCleared(c), TRUE)

\* Mutant: the commit string is read and not acknowledged.
UpdateWithoutAck(c) ==
  /\ ctx' = c
  /\ preEdit' = Render(c)
  /\ bpmfLen' = c.bpmf
  /\ outgoing' = outgoing + c.commit

\* ibus_chewing_pre_edit_update.
Update(c) ==
  /\ ctx' = Ack(c)
  /\ preEdit' = Render(c)
  /\ bpmfLen' = c.bpmf
  /\ outgoing' = outgoing + c.commit

\* The text follows context c only where the code calls update.
Leave(c, updated) ==
  IF updated THEN Update(c) ELSE ctx' = c /\ UNCHANGED <<preEdit, bpmfLen, outgoing>>

\* Mutant: the direction of the switch is the wrong one.
DropsReturningToChinese(c, chi) == chi /\ ~c.chi /\ c.bpmf > 0

\* Leaving Chinese mode drops a bopomofo, and updates the text if one was left
\* to clear once the list was closed.
DropsBopomofo(c, chi) == ~chi /\ c.chi /\ c.bpmf > 0
\* Mutant: clear_bopomofo does not update the text.
NeverUpdatesText(c, chi) == FALSE

UpdatesText(c, chi) == DropsBopomofo(c, chi) /\ ClosedList(c).bpmf > 0
ChiEngSet(c, chi) ==
  [(IF DropsBopomofo(c, chi) THEN BopomofoCleared(c) ELSE c) EXCEPT !.chi = chi]

\* Mutant: the table is filled without asking chewing_cand_hasNext.
UpdateFullTable(c) == iTable' = [iTable EXCEPT !.n = c.width, !.cur = 0]

\* ibus_chewing_lookup_table_update: the candidates of the page, from the first.
UpdateTable(c) == iTable' = [iTable EXCEPT !.n = OnPage(c), !.cur = 0]

\* Mutant: the flag of the table is set and never cleared.
ProcessNeverHides(c) ==
  /\ Update(c)
  /\ UpdateTable(c)
  /\ tableShow' = (tableShow \/ OnPage(c) > 0)
  /\ consumed' = TRUE

\* Mutant: a key that commits is reported as not handled.
ProcessReportsCommit(c) ==
  /\ Update(c)
  /\ UpdateTable(c)
  /\ tableShow' = (OnPage(c) > 0)
  /\ consumed' = (c.commit = 0)

\* The three ways a handler's response ends the processing of a key.
Process(c) ==
  /\ Update(c)
  /\ UpdateTable(c)
  /\ tableShow' = (OnPage(c) > 0)
  /\ consumed' = TRUE

Absorb == consumed' = TRUE  /\ UNCHANGED <<text, tableShow>>
Ignore == consumed' = FALSE /\ UNCHANGED <<text, tableShow, iTable>>

\* No text, no table: the handlers leave such a key to the application.
Idle == preEdit = <<>> /\ ~tableShow
Accepts(m, allowed) == Masked(m) \subseteq allowed /\ ~Idle

\* The common handler: a call of libchewing that always ends in Process.
Editing(m, allowed, contexts) ==
  /\ IF Accepts(m, allowed) THEN \E c \in contexts : Process(c) ELSE Ignore
  /\ UNCHANGED pending

-----------------------------------------------------------------------------
(* The handlers, for a key that reaches them. *)

\* Mutant: the mode of c is not restored.
KeySymDefaultKeepsMode(c, k, m, updated) ==
  \/ \E d \in Default(c, KeySymFix(c, k, m)) : Process(d)
  \/ /\ Leave(Fresh(c), updated)
     /\ consumed' \in BOOLEAN
     /\ UNCHANGED <<iTable, tableShow>>

\* self_handle_key_sym_default on context c, the mode of ctx restored after
\* it; libchewing may also ignore or absorb the key.
KeySymDefault(c, k, m, updated) ==
  \/ \E d \in Default(c, KeySymFix(c, k, m)) : Process([d EXCEPT !.chi = ctx.chi])
  \/ /\ Leave([Fresh(c) EXCEPT !.chi = ctx.chi], updated)
     /\ consumed' \in BOOLEAN
     /\ UNCHANGED <<iTable, tableShow>>

HandleDefault(k, m) ==
  /\ IF Masked(m) \subseteq {"Shift"} THEN KeySymDefault(ctx, k, m, FALSE) ELSE Ignore
  /\ UNCHANGED pending

\* A key alone that only a text or a table makes the input method's.
Bare(m) == Masked(m) = {} /\ ~ctx.full /\ Idle

\* The shape of both number handlers: Ctrl+digit, a character, neither.
Number(k, m, bare, character) ==
  /\ \/ /\ Masked(m) = {"Control"}
        /\ \E c \in CtrlNum(ctx) : Process(c)
     \/ /\ Masked(m) \subseteq {"Shift"} /\ ~bare
        /\ character
     \/ /\ bare \/ ~(Masked(m) \subseteq {"Shift"} \/ Masked(m) = {"Control"})
        /\ Ignore
  /\ UNCHANGED pending

HandleNum(k, m) ==
  Number(k, m, Bare(m) /\ ~ctx.chi, KeySymDefault(ctx, k, m, FALSE))

\* English mode for the length of the call, which costs the bopomofo.
HandleNumKeypad(k, m) ==
  Number(k, m, Bare(m), KeySymDefault(ChiEngSet(ctx, FALSE), KPNormal[k], m,
                                      UpdatesText(ctx, FALSE)))

HandleCapsLock(m) ==
  /\ IF Masked(m) = {} /\ conf.toggle = "c"
     THEN \E c \in Capslock(IF DropsBopomofo(ctx, FALSE)
                            THEN BopomofoCleared(ctx) ELSE ctx) : Process(c)
     ELSE Ignore
  /\ UNCHANGED pending

\* Mutant: the last key is not asked for.
QuickShiftInCombination(m, toggles) ==
  /\ Masked(m) \subseteq {"Shift"}
  /\ conf.toggle \in toggles
  /\ "Release" \in m
  /\ held <= 2

\* A Shift key released at most 200 ms after a Shift event.
QuickShift(m, toggles) ==
  /\ Masked(m) \subseteq {"Shift"}
  /\ conf.toggle \in toggles
  /\ "Release" \in m
  /\ keyLast = "Shift"
  /\ held <= 2

\* Mutant: the release that toggles is kept from the client.
HandleShiftAbsorbs(m, toggles) ==
  \/ /\ QuickShift(m, toggles)
     /\ Leave(ChiEngSet(ctx, ~ctx.chi), UpdatesText(ctx, ~ctx.chi))
     /\ pending' = [pending EXCEPT !.chi = TRUE]
     /\ consumed' = TRUE
     /\ UNCHANGED <<iTable, tableShow>>
  \/ /\ ~QuickShift(m, toggles)
     /\ Ignore
     /\ UNCHANGED pending

HandleShift(m, toggles) ==
  \/ /\ QuickShift(m, toggles)
     /\ Leave(ChiEngSet(ctx, ~ctx.chi), UpdatesText(ctx, ~ctx.chi))
     /\ pending' = [pending EXCEPT !.chi = TRUE]
     /\ consumed' = FALSE
     /\ UNCHANGED <<iTable, tableShow>>
  \/ /\ ~QuickShift(m, toggles)
     /\ Ignore
     /\ UNCHANGED pending

HandleShiftLeft(m)  == HandleShift(m, {"s", "l"})
HandleShiftRight(m) == HandleShift(m, {"s", "r"})

\* On the first page, Down takes a list of shorter phrases if there is one.
HandlePageUp(m) ==
  Editing(m, {}, PageUp(ctx) \cup (IF tableShow /\ Choosing(ctx) /\ ctx.page = 0
                                   THEN Down(ctx) ELSE {}))

HandlePageDown(m) ==
  Editing(m, {}, IF tableShow /\ ctx.page = ctx.pages - 1
                 THEN Down(ctx) ELSE PageDown(ctx))

HandleSpace(m) ==
  \/ /\ Masked(m) = {"Shift"}
     /\ \E c \in ShiftSpace(ctx) : Process(c)
     /\ pending' = [pending EXCEPT !.full = TRUE]
  \/ /\ Masked(m) = {}
     /\ ctx.chi \/ ctx.full \/ ~Idle
     /\ \E c \in Space(ctx) : Process(c)
     /\ UNCHANGED pending
  \/ /\ \/ ~(Masked(m) \subseteq {"Shift"})
        \/ Masked(m) = {} /\ ~ctx.chi /\ ~ctx.full /\ Idle
     /\ Ignore
     /\ UNCHANGED pending

\* ibus_lookup_table_get_cursor_in_page.
CursorInPage == iTable.cur % iTable.size

\* Mutant: Return chooses the first candidate of the page.
ReturnPicksFirst(m) ==
  /\ \/ /\ Accepts(m, {})
        /\ tableShow
        /\ KeySymDefault(ctx, ctx.selKeys[1], m, FALSE)
     \/ /\ Accepts(m, {})
        /\ ~tableShow
        /\ \E c \in Enter(ctx) : Process(c)
     \/ /\ ~Accepts(m, {})
        /\ Ignore
  /\ UNCHANGED pending

HandleReturn(m) ==
  /\ \/ /\ Accepts(m, {})
        /\ tableShow
        /\ KeySymDefault(ctx, ctx.selKeys[CursorInPage + 1], m, FALSE)
     \/ /\ Accepts(m, {})
        /\ ~tableShow
        /\ \E c \in Enter(ctx) : Process(c)
     \/ /\ ~Accepts(m, {})
        /\ Ignore
  /\ UNCHANGED pending

HandleBackspace(m) == Editing(m, {}, Backspace(ctx))
HandleDelete(m)    == Editing(m, {}, Del(ctx))
HandleEscape(m)    == Editing(m, {}, Esc(ctx))
HandleTab(m)       == Editing(m, {}, Tab(ctx))
HandleHome(m)      == Editing(m, {}, Home(ctx))
HandleEnd(m)       == Editing(m, {}, End(ctx))

\* Mutant: the cursor moves up from the first candidate too.
CursorUpUnchecked(vertical) ==
  /\ conf.vertical = vertical
  /\ iTable' = [iTable EXCEPT !.cur = @ - 1]

\* Moving the cursor inside the table, which asks nothing of libchewing.
CursorUp(vertical) ==
  /\ conf.vertical = vertical
  /\ CursorInPage > 0
  /\ iTable' = [iTable EXCEPT !.cur = @ - 1]
CursorDown(vertical) ==
  /\ conf.vertical = vertical
  /\ CursorInPage + 1 # iTable.n
  /\ iTable' = [iTable EXCEPT !.cur = IF @ = iTable.n - 1 THEN 0 ELSE @ + 1]

\* The arrow that walks the table backwards: along it, else by pages.
Backward(m, vertical, outside) ==
  \/ /\ tableShow /\ Masked(m) = {}
     /\ CursorUp(vertical) /\ Absorb /\ UNCHANGED pending
  \/ /\ tableShow /\ Masked(m) = {}
     /\ ~(conf.vertical = vertical /\ CursorInPage > 0)
     /\ HandlePageUp(m)
  \/ /\ ~(tableShow /\ Masked(m) = {})
     /\ outside

Forward(m, vertical, outside) ==
  \/ /\ tableShow /\ Masked(m) = {}
     /\ CursorDown(vertical) /\ Absorb /\ UNCHANGED pending
  \/ /\ tableShow /\ Masked(m) = {}
     /\ ~(conf.vertical = vertical /\ CursorInPage + 1 # iTable.n)
     /\ HandlePageDown(m)
  \/ /\ ~(tableShow /\ Masked(m) = {})
     /\ outside

HandleLeft(m) ==
  Backward(m, FALSE, Editing(m, {"Shift"}, IF Masked(m) = {"Shift"}
                                           THEN ShiftLeft(ctx) ELSE Left(ctx)))
HandleUp(m) == Backward(m, TRUE, Editing(m, {}, Up(ctx)))

HandleRight(m) ==
  Forward(m, FALSE, Editing(m, {"Shift"}, IF Masked(m) = {"Shift"}
                                          THEN ShiftRight(ctx) ELSE Right(ctx)))
HandleDown(m) == Forward(m, TRUE, Editing(m, {}, Down(ctx)))

HandleSpecial == Ignore /\ UNCHANGED pending

-----------------------------------------------------------------------------
(* ibus_chewing_pre_edit_process_key. *)

\* The table of handling rules, of which the first match wins; a keypad's
\* editing key is handled as the key it repeats.
Dispatch(k, m) ==
  \/ k \in DigitKeys     /\ HandleNum(k, m)
  \/ k \in KeypadKeys    /\ HandleNumKeypad(k, m)
  \/ k \in PrintableKeys /\ HandleDefault(k, m)
  \/ k = "Caps_Lock"     /\ HandleCapsLock(m)
  \/ k = "Shift_L"       /\ HandleShiftLeft(m)
  \/ k = "Shift_R"       /\ HandleShiftRight(m)
  \/ k = "space"         /\ HandleSpace(m)
  \/ k = "Return"        /\ HandleReturn(m)
  \/ k = "BackSpace"     /\ HandleBackspace(m)
  \/ k = "Delete"        /\ HandleDelete(m)
  \/ k = "Escape"        /\ HandleEscape(m)
  \/ k = "Left"          /\ HandleLeft(m)
  \/ k = "Up"            /\ HandleUp(m)
  \/ k = "Right"         /\ HandleRight(m)
  \/ k = "Down"          /\ HandleDown(m)
  \/ k = "Page_Up"       /\ HandlePageUp(m)
  \/ k = "Page_Down"     /\ HandlePageDown(m)
  \/ k = "Tab"           /\ HandleTab(m)
  \/ k = "Home"          /\ HandleHome(m)
  \/ k = "End"           /\ HandleEnd(m)
  \/ k = "special"       /\ HandleSpecial

\* is_shift_toggle, on the last key.
ShiftToggle(k, m) == Masked(m) = {"Shift"} /\ keyLast = "Shift" /\ k \in ShiftKeys

\* Mutant: the shape is tested the wrong way round.
BypassedInFullShape(k, m) ==
  /\ ctx.full /\ ~ctx.chi /\ Idle
  /\ ~(k = "space" /\ m = {"Shift"})
  /\ ~(k = "Caps_Lock" /\ "Lock" \in m)
  /\ ~ShiftToggle(k, m)

\* Mutant: no exception for a lit Caps Lock.
BypassedWithCapsLock(k, m) ==
  /\ ~ctx.full /\ ~ctx.chi /\ Idle
  /\ ~(k = "space" /\ m = {"Shift"})
  /\ ~ShiftToggle(k, m)

\* Mutant: no exception for a Shift that may toggle.
BypassedWithShift(k, m) ==
  /\ ~ctx.full /\ ~ctx.chi /\ Idle
  /\ ~(k = "space" /\ m = {"Shift"})
  /\ ~(k = "Caps_Lock" /\ "Lock" \in m)

\* Half-shape English with nothing pending: the input method is as good as off.
Bypassed(k, m) ==
  /\ ~ctx.full /\ ~ctx.chi /\ Idle
  /\ ~(k = "space" /\ m = {"Shift"})
  /\ ~(k = "Caps_Lock" /\ "Lock" \in m)
  /\ ~ShiftToggle(k, m)

\* Mutant: every release is handled like a press.
IgnoredReleaseNever(k, m) == FALSE

IgnoredRelease(k, m) == "Release" \in m /\ k \notin ShiftKeys

RecordKey(k) ==
  /\ keyLast' = IF k \in ShiftKeys THEN "Shift" ELSE "other"
  /\ held' = 0

ProcessKey(k, m) ==
  /\ outgoing <= MaxOutgoing
  /\ UNCHANGED conf
  /\ \/ /\ Bypassed(k, m)
        /\ RecordKey(k)
        /\ Ignore
        /\ UNCHANGED pending
     \/ /\ ~Bypassed(k, m) /\ IgnoredRelease(k, m)
        /\ Ignore
        /\ UNCHANGED <<keyLast, held, pending>>
     \/ /\ ~Bypassed(k, m) /\ ~IgnoredRelease(k, m)
        /\ RecordKey(k)
        /\ Dispatch(k, m)

-----------------------------------------------------------------------------
(* The other public functions. *)

\* ibus_chewing_pre_edit_clear: the flag of the table is left as it is.
Clear ==
  LET c == PreEditCleared(ctx) IN
  /\ ctx' = Ack(c)
  /\ preEdit' = Render(c)
  /\ bpmfLen' = c.bpmf
  /\ outgoing' = c.commit
  /\ UNCHANGED <<iTable, tableShow, keyLast, held, consumed, pending, conf>>

ClearOutgoing ==
  /\ outgoing' = 0
  /\ UNCHANGED <<ctx, preEdit, bpmfLen, iTable, tableShow, keyLast, held,
                 consumed, pending, conf>>

\* ibus_chewing_pre_edit_force_commit, which only tests call.
ForceCommit ==
  LET c == PreEditCleared(ctx) IN
  /\ outgoing <= MaxOutgoing
  /\ ctx' = Ack(c)
  /\ preEdit' = Render(c)
  /\ bpmfLen' = c.bpmf
  /\ outgoing' = outgoing + Len(preEdit) + c.commit
  /\ UNCHANGED <<iTable, tableShow, keyLast, held, consumed, pending, conf>>

SetChiEngMode(chi) ==
  /\ Leave(ChiEngSet(ctx, chi), UpdatesText(ctx, chi))
  /\ UNCHANGED <<iTable, tableShow, keyLast, held, consumed, pending, conf>>

SetFullHalfMode(full) ==
  LET drops == ctx.chi /\ ctx.bpmf > 0
      c == IF drops THEN BopomofoCleared(ctx) ELSE ctx IN
  /\ Leave([c EXCEPT !.full = full], drops /\ ClosedList(ctx).bpmf > 0)
  /\ UNCHANGED <<iTable, tableShow, keyLast, held, consumed, pending, conf>>

\* ibus_chewing_lookup_table_resize, whenever the settings of the table change.
Resize(keys) ==
  /\ ctx' = SetSelKeys(ctx, keys)
  /\ iTable' = [iTable EXCEPT !.size = Len(keys)]
  /\ UNCHANGED <<preEdit, bpmfLen, outgoing, tableShow, keyLast, held,
                 consumed, pending, conf>>

\* The clock.  Only the time since a Shift event is ever read, and only
\* whether it is more than 200 ms; past that it no longer matters.
Tick ==
  /\ keyLast = "Shift" /\ held < 3
  /\ held' = held + 1
  /\ UNCHANGED <<text, iTable, tableShow, keyLast, consumed, pending, conf>>

-----------------------------------------------------------------------------
\* ibus_chewing_pre_edit_new, with the settings bound to the engine.
Init ==
  /\ \E keys \in SelKeySets, escAll, fwKey \in BOOLEAN :
       /\ ctx = NewContext(keys, escAll, fwKey)
       /\ iTable = [n |-> 0, cur |-> 0, size |-> Len(keys)]
  /\ preEdit = <<>>
  /\ bpmfLen = 0
  /\ outgoing = 0
  /\ tableShow = FALSE
  /\ keyLast = "other"
  /\ held = 0
  /\ consumed = FALSE
  /\ pending = [chi |-> FALSE, full |-> FALSE]
  /\ conf \in Confs

Next ==
  \/ \E e \in KeyEvents : ProcessKey(e[1], e[2])
  \/ Clear
  \/ ClearOutgoing
  \/ ForceCommit
  \/ \E chi \in BOOLEAN : SetChiEngMode(chi)
  \/ \E full \in BOOLEAN : SetFullHalfMode(full)
  \/ \E keys \in SelKeySets : Resize(keys)
  \/ Tick

Spec == Init /\ [][Next]_vars

-----------------------------------------------------------------------------
(* Properties. *)

\* Every variable stays in the range its C type and its uses give it.
TypeOK ==
  /\ ContextOK(ctx)
  /\ preEdit \in Seq({"zi", "bpmf"})
  /\ bpmfLen \in Nat
  /\ outgoing \in Nat
  /\ iTable \in [n : Nat, cur : Nat, size : Nat \ {0}]
  /\ tableShow \in BOOLEAN
  /\ keyLast \in {"Shift", "other"}
  /\ held \in 0..3
  /\ consumed \in BOOLEAN
  /\ pending \in [chi : BOOLEAN, full : BOOLEAN]
  /\ conf \in Confs

\* FLAG_TABLE_SHOW is never off while libchewing has a list open, and it is on
\* without a list only when a clear left nothing at all behind: the Esc calls
\* of clear_bopomofo and clear_pre_edit count on both.
FlagCoversList ==
  /\ Choosing(ctx) => tableShow
  /\ tableShow /\ ~Choosing(ctx) => ctx.buf = 0 /\ ctx.bpmf = 0

\* The text shown is the buffer and the bopomofo of libchewing after every
\* function, also those that return without calling update.
PreEditMirrorsContext == preEdit = Render(ctx) /\ bpmfLen = ctx.bpmf

\* No commit string is left in libchewing, where the next key would lose it.
CommitCollected == ctx.commit = 0

\* A bopomofo cannot be entered or finished in English mode, so none survives
\* the switch to it, whichever of the four ways the mode changes.
NoBopomofoInEnglish == ~ctx.chi => ctx.bpmf = 0

\* The lookup table holds the page of the list libchewing would choose from.
TableMirrorsList ==
  Choosing(ctx) => iTable.n = OnPage(ctx) /\ iTable.cur < iTable.n

\* After ibus_chewing_pre_edit_clear nothing is left, whatever was open: one
\* Esc too few would leave the buffer to the next client.
Nothing(c) == c.buf = 0 /\ c.bpmf = 0 /\ ~Choosing(c)
ClearIsComplete ==
  [][Clear => Nothing(ctx') /\ preEdit' = <<>> /\ outgoing' = 0]_vars

\* A key returned to the application adds nothing to the text or to what will
\* be committed: no key press has an effect twice.
PassedKeyTypesNothing ==
  [][\/ consumed'
     \/ outgoing' = outgoing /\ ctx'.buf = ctx.buf /\ ctx'.pages = ctx.pages
     \/ ~\E e \in KeyEvents : ProcessKey(e[1], e[2])]_vars

\* Return never chooses a candidate other than the one highlighted, as long as
\* the selection keys are as many as the open list is wide.
ReturnPicksHighlighted ==
  [][\/ ctx'.picked \in {0, CursorInPage + 1}
     \/ ctx.width # Len(ctx.selKeys)
     \/ ~\E e \in KeyEvents : e[1] = "Return" /\ ProcessKey(e[1], e[2])]_vars

\* The mode changes by the configured toggle key and by the engine's own call
\* alone: the English mode a keypad key borrows is always given back.
OnlyToggleChangesMode ==
  [][ctx'.chi # ctx.chi =>
       \/ \E chi \in BOOLEAN : SetChiEngMode(chi)
       \/ conf.toggle = "c" /\ \E e \in KeyEvents :
            e[1] = "Caps_Lock" /\ ProcessKey(e[1], e[2])
       \/ conf.toggle \in {"s", "l", "r"} /\ keyLast = "Shift" /\ \E e \in KeyEvents :
            e[1] \in ShiftKeys /\ "Release" \in e[2] /\ ProcessKey(e[1], e[2])]_vars

\* In half-shape English with nothing pending the input method stays out of
\* the way: no key but a mode change starts a text or commits one.
EnglishStaysOut ==
  [][~ctx.chi /\ ~ctx.full /\ Idle /\ ~ctx'.chi /\ ~ctx'.full
       => preEdit' = <<>> /\ outgoing' <= outgoing]_vars

-----------------------------------------------------------------------------
(* Claims of comments and of the settings' descriptions the code contradicts. *)

\* gschema.xml:165: a notification is displayed when an input mode change is
\* triggered by user input, so whenever a key changes the language.
ChiNotifiedByKeys ==
  [][ctx'.chi # ctx.chi /\ (\E e \in KeyEvents : ProcessKey(e[1], e[2]))
       => pending'.chi]_vars

\* gschema.xml:48: pressing a selection key selects a candidate, so the key
\* libchewing is handed is the selection key.
SelectionKeyReachesList ==
  Choosing(ctx) => \A i \in DOMAIN ctx.selKeys :
                     KeySymFix(ctx, ctx.selKeys[i], {}) = ctx.selKeys[i]
=============================================================================
