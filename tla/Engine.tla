------------------------------- MODULE Engine -------------------------------
(***************************************************************************)
(* IBusChewingEngine, ibus-chewing-engine.c: the IBus engine object around *)
(* one pre-edit component.  IBus calls its handlers one at a time from the *)
(* main loop; a handler that processes a key first lets the pre-edit       *)
(* component work (ProcessKey) and then publishes what it left (Update),   *)
(* and nothing comes between: stage says which half is due.                *)
(*                                                                         *)
(* IBus, the client and the panel are outside this repository.  They are   *)
(* seen through what the engine sends them: sent, display and panel.       *)
(***************************************************************************)
EXTENDS PreEdit, FiniteSets

CONSTANTS
  PrefSets,     \* the settings the engine itself reads
  LedMoves,     \* bound: whether the keyboard's Caps Lock may change elsewhere
  MaxIndex      \* bound: the largest index of a clicked candidate

ASSUME EngineAssumption ==
  /\ LedMoves \in BOOLEAN
  /\ MaxIndex \in Nat
  /\ \A s \in SelKeySets : \A i \in 1..Len(s) : s[i] \in DigitKeys \cup PrintableKeys
  /\ \A p \in PrefSets : p.sync \in {"keyboard", "input method", "disable"}

VARIABLES
  statusFlags,  \* statusFlags: those of "FOCUS_IN", "REGISTERED", "IS_PASSWORD"
  stage,        \* what is due of the handler that is running
  prefs,        \* notify, cleanOut, useEnglish, sync and showPage
  capsOn,       \* gdk_device_get_caps_lock_state
  panel,        \* the modes on the language bar: InputMode and AlnumSize
  display,      \* pre-edit text with cursor, auxiliary text, lookup table
  sent          \* characters given to a client in the last step

engineVars == <<statusFlags, stage, prefs, capsOn, panel, display, sent>>
allVars == <<vars, engineVars>>

Blank == [preEdit |-> <<>>, cursor |-> 0, aux |-> "", table |-> FALSE]

\* The characters of a text: what is neither shown nor counted is a bopomofo.
Characters(t) == Cardinality({i \in DOMAIN t : t[i] = "zi"})

IsPassword == "IS_PASSWORD" \in statusFlags

-----------------------------------------------------------------------------
(* Pieces of the handlers. *)

\* refresh_aux_text: one message at most; showing a notification forgets it.
AuxText(c, p) ==
  IF c.aux THEN "message"
  ELSE IF prefs.notify /\ p.chi THEN (IF c.chi THEN "Chinese" ELSE "English")
  ELSE IF prefs.notify /\ p.full THEN (IF c.full THEN "Fullwidth" ELSE "Halfwidth")
  ELSE IF prefs.showPage /\ Choosing(c) THEN "page"
  ELSE ""

PendingLeft(c, p) ==
  IF c.aux \/ ~prefs.notify THEN p
  ELSE IF p.chi THEN [p EXCEPT !.chi = FALSE]
  ELSE [p EXCEPT !.full = FALSE]

\* ibus_chewing_engine_restore_mode: the mode follows the keyboard's Caps Lock,
\* past set_chi_eng_mode and what it does to a bopomofo.
RestoreMode(c) ==
  IF conf.toggle = "c" /\ prefs.sync = "keyboard" THEN [c EXCEPT !.chi = ~capsOn] ELSE c

\* ibus_chewing_engine_refresh_property_list once the context is c: InputMode
\* is sent always, AlnumSize only when the properties are registered.
RefreshPropertyList(c, flags) ==
  panel' = [chi |-> c.chi, full |-> IF "REGISTERED" \in flags THEN c.full ELSE panel.full]

\* ibus_chewing_engine_start, with the other flags a handler sets.
Start(flags) ==
  /\ statusFlags' = statusFlags \cup {"REGISTERED"} \cup flags
  /\ RefreshPropertyList(RestoreMode(ctx), {"REGISTERED"})

Quiet == sent' = 0 /\ stage = "idle" /\ stage' = "idle"

-----------------------------------------------------------------------------
(* Handlers that process a key, which IBus calls for the client in focus. *)

HasFocus == stage = "idle" /\ "FOCUS_IN" \in statusFlags

\* The keyboard: the Lock modifier is the LED, which a press of the key turns.
Keyboard(k, m) ==
  /\ k \in {"Caps_Lock", "space"} => ("Lock" \in m <=> capsOn)
  /\ capsOn' = IF k = "Caps_Lock" /\ "Release" \notin m THEN ~capsOn ELSE capsOn

\* Mutant: Caps Lock refreshes nothing.
RefreshingShiftKeys == ShiftKeys

RefreshingKeys == ShiftKeys \cup {"Caps_Lock"}

\* ibus_chewing_engine_process_key_event up to ibus_chewing_engine_update.
ProcessKeyEvent(k, m) ==
  /\ HasFocus /\ sent' = 0
  /\ Keyboard(k, m)
  /\ \/ /\ "Super" \in m \/ IsPassword
        /\ stage' = "idle"
        /\ consumed' = FALSE
        /\ UNCHANGED <<text, iTable, tableShow, keyLast, held, pending, conf>>
     \/ /\ "Super" \notin m /\ ~IsPassword
        /\ stage' = IF k \in RefreshingKeys THEN "update and refresh" ELSE "update"
        /\ ProcessKey(k, m)
  /\ UNCHANGED <<statusFlags, prefs, panel, display>>

\* A key of the pre-edit component that a button of the panel stands for.
Button(k) ==
  /\ HasFocus /\ sent' = 0
  /\ \/ /\ IsPassword
        /\ UNCHANGED <<vars, stage>>
     \/ /\ ~IsPassword
        /\ stage' = "update"
        /\ ProcessKey(k, {})
  /\ UNCHANGED <<statusFlags, prefs, capsOn, panel, display>>

PageUpButton     == Button("Page_Up")
PageDownButton   == Button("Page_Down")
CursorUpButton   == Button("Up")
CursorDownButton == Button("Down")

\* Mutant: clicks are not stopped in a password field.
ClickableInPassword(i) == i < Len(ctx.selKeys) /\ tableShow

\* A click on the candidate at an index of the page is its selection key.
Clickable(i) == ~IsPassword /\ i < Len(ctx.selKeys) /\ tableShow

\* Mutant: the page is counted from its end.
CandidateClickedFromEnd(i) ==
  /\ HasFocus /\ sent' = 0
  /\ \/ /\ ~Clickable(i)
        /\ UNCHANGED <<vars, stage>>
     \/ /\ Clickable(i)
        /\ stage' = "update"
        /\ ProcessKey(ctx.selKeys[Len(ctx.selKeys) - i], {})
  /\ UNCHANGED <<statusFlags, prefs, capsOn, panel, display>>

CandidateClicked(i) ==
  /\ HasFocus /\ sent' = 0
  /\ \/ /\ ~Clickable(i)
        /\ UNCHANGED <<vars, stage>>
     \/ /\ Clickable(i)
        /\ stage' = "update"
        /\ ProcessKey(ctx.selKeys[i + 1], {})
  /\ UNCHANGED <<statusFlags, prefs, capsOn, panel, display>>

\* Mutant: the outgoing text is kept.
CommitTextKeeps ==
  /\ sent' = IF outgoing > 0 \/ "FOCUS_IN" \notin statusFlags THEN outgoing ELSE 0
  /\ outgoing' = outgoing

\* Mutant: nothing is committed while a text is shown.
CommitTextWhenEmpty ==
  /\ sent' = IF preEdit = <<>> THEN outgoing ELSE 0
  /\ outgoing' = 0

\* commit_text: an empty text is sent too to a client out of focus.
CommitText ==
  /\ sent' = IF outgoing > 0 \/ "FOCUS_IN" \notin statusFlags THEN outgoing ELSE 0
  /\ outgoing' = 0

\* Mutant: the length of the bopomofo is taken off the cursor.
ShowTextBehind ==
  display' = [preEdit |-> preEdit, cursor |-> ctx.cur - bpmfLen,
              aux |-> AuxText(ctx, pending), table |-> tableShow]

\* update_pre_edit_text, update_aux_text and update_lookup_table.
ShowText ==
  display' = [preEdit |-> preEdit, cursor |-> ctx.cur + bpmfLen,
              aux |-> AuxText(ctx, pending), table |-> tableShow]

\* ibus_chewing_engine_update, then the end of process_key_event.
EngineUpdate ==
  /\ stage # "idle" /\ stage' = "idle"
  /\ CommitText
  /\ ShowText
  /\ pending' = PendingLeft(ctx, pending)
  /\ IF stage = "update and refresh" THEN RefreshPropertyList(ctx, statusFlags)
                                     ELSE UNCHANGED panel
  /\ UNCHANGED <<ctx, preEdit, bpmfLen, iTable, tableShow, keyLast, held,
                 consumed, conf, statusFlags, prefs, capsOn>>

-----------------------------------------------------------------------------
(* Handlers that process none. *)

\* Mutant: the outgoing text alone is cleared.
ClearOutgoingFrom(c) ==
  /\ ctx' = c
  /\ outgoing' = 0
  /\ UNCHANGED <<preEdit, bpmfLen>>

\* What ibus_chewing_pre_edit_clear makes of the component, from context c.
ClearFrom(c) ==
  /\ ctx' = Ack(PreEditCleared(c))
  /\ preEdit' = Render(PreEditCleared(c))
  /\ bpmfLen' = PreEditCleared(c).bpmf
  /\ outgoing' = PreEditCleared(c).commit

\* Mutant: what is shown stays.
ResetUnseen ==
  /\ Quiet
  /\ Clear
  /\ UNCHANGED <<statusFlags, prefs, capsOn, panel, display>>

Reset ==
  /\ Quiet
  /\ Clear
  /\ display' = Blank
  /\ UNCHANGED <<statusFlags, prefs, capsOn, panel>>

Enable ==
  /\ Quiet
  /\ Start({})
  /\ LET c == RestoreMode(ctx) IN
     IF prefs.useEnglish THEN Leave(ChiEngSet(c, FALSE), UpdatesText(c, FALSE))
                         ELSE Leave(c, FALSE)
  /\ UNCHANGED <<iTable, tableShow, keyLast, held, consumed, pending, conf,
                 prefs, capsOn, display>>

\* The texts are made anew and not sent: a notification is forgotten unseen.
FocusIn ==
  /\ Quiet
  /\ "FOCUS_IN" \notin statusFlags
  /\ Start({"FOCUS_IN"})
  /\ ClearFrom(RestoreMode(ctx))
  /\ pending' = PendingLeft(PreEditCleared(RestoreMode(ctx)), pending)
  /\ UNCHANGED <<iTable, tableShow, keyLast, held, consumed, conf, prefs,
                 capsOn, display>>

\* IBus commits what the client that loses the focus was shown, for the text is
\* sent with IBUS_ENGINE_PREEDIT_COMMIT, and blanks it.
FocusOut ==
  /\ stage = "idle" /\ stage' = "idle"
  /\ "FOCUS_IN" \in statusFlags
  /\ sent' = Characters(display.preEdit)
  /\ statusFlags' = statusFlags \ {"FOCUS_IN", "REGISTERED"}
  /\ \/ /\ prefs.cleanOut
        /\ ClearFrom(ctx)
        /\ pending' = PendingLeft(PreEditCleared(ctx), pending)
     \/ /\ ~prefs.cleanOut
        /\ UNCHANGED <<text, pending>>
  /\ display' = Blank
  /\ UNCHANGED <<iTable, tableShow, keyLast, held, consumed, conf, prefs,
                 capsOn, panel>>

SetContentType(password) ==
  /\ Quiet
  /\ statusFlags' = IF password THEN statusFlags \cup {"IS_PASSWORD"}
                                ELSE statusFlags \ {"IS_PASSWORD"}
  /\ UNCHANGED <<vars, prefs, capsOn, panel, display>>

\* A click on a property: a toggle past the keys, and no update of the text.
ActivateInputMode ==
  /\ Quiet
  /\ SetChiEngMode(~ctx.chi)
  /\ panel' = [panel EXCEPT !.chi = ~ctx.chi]
  /\ UNCHANGED <<statusFlags, prefs, capsOn, display>>

ActivateAlnumSize ==
  /\ Quiet
  /\ SetFullHalfMode(~ctx.full)
  /\ panel' = IF "REGISTERED" \in statusFlags THEN [panel EXCEPT !.full = ~ctx.full]
                                             ELSE panel
  /\ UNCHANGED <<statusFlags, prefs, capsOn, display>>

\* ibus_chewing_engine_set_property, for the settings that are modelled.
SetProperty ==
  /\ Quiet
  /\ \/ \E keys \in SelKeySets : Resize(keys) /\ UNCHANGED prefs
     \/ /\ conf' \in Confs
        /\ UNCHANGED <<text, iTable, tableShow, keyLast, held, consumed, pending, prefs>>
     \/ /\ prefs' \in PrefSets
        /\ UNCHANGED vars
     \/ /\ \E escAll, fwKey \in BOOLEAN :
             ctx' = [ctx EXCEPT !.escAll = escAll, !.fwKey = fwKey]
        /\ UNCHANGED <<preEdit, bpmfLen, outgoing, iTable, tableShow, keyLast,
                       held, consumed, pending, conf, prefs>>
  /\ UNCHANGED <<statusFlags, capsOn, panel, display>>

\* Caps Lock pressed while another input method has the keyboard.
LedMoved ==
  /\ Quiet
  /\ LedMoves
  /\ capsOn' = ~capsOn
  /\ UNCHANGED <<vars, statusFlags, prefs, panel, display>>

TimePasses ==
  /\ Quiet
  /\ Tick
  /\ UNCHANGED <<statusFlags, prefs, capsOn, panel, display>>

-----------------------------------------------------------------------------
EngineInit ==
  /\ Init
  /\ statusFlags = {}
  /\ stage = "idle"
  /\ prefs \in PrefSets
  /\ capsOn = FALSE
  /\ panel = [chi |-> TRUE, full |-> FALSE]
  /\ display = Blank
  /\ sent = 0

EngineNext ==
  \/ \E e \in KeyEvents : ProcessKeyEvent(e[1], e[2])
  \/ PageUpButton \/ PageDownButton \/ CursorUpButton \/ CursorDownButton
  \/ \E i \in 0..MaxIndex : CandidateClicked(i)
  \/ EngineUpdate
  \/ Reset
  \/ Enable
  \/ FocusIn
  \/ FocusOut
  \/ \E password \in BOOLEAN : SetContentType(password)
  \/ ActivateInputMode
  \/ ActivateAlnumSize
  \/ SetProperty
  \/ LedMoved
  \/ TimePasses

EngineSpec == EngineInit /\ [][EngineNext]_allVars

\* ibus_chewing_engine_update follows in the handler that processed the key.
EngineFairSpec == EngineSpec /\ WF_allVars(EngineUpdate)

-----------------------------------------------------------------------------
(* Properties. *)

\* The engine's variables stay in range.
EngineTypeOK ==
  /\ statusFlags \subseteq {"FOCUS_IN", "REGISTERED", "IS_PASSWORD"}
  /\ stage \in {"idle", "update", "update and refresh"}
  /\ prefs \in PrefSets
  /\ capsOn \in BOOLEAN
  /\ panel \in [chi : BOOLEAN, full : BOOLEAN]
  /\ display \in [preEdit : Seq({"zi", "bpmf"}), cursor : Nat, table : BOOLEAN,
                  aux : {"", "message", "Chinese", "English", "Fullwidth",
                         "Halfwidth", "page"}]
  /\ sent \in Nat

\* Between two handlers nothing waits to be committed, neither in libchewing
\* nor in the outgoing text: the next focus_in would throw it away.
NothingWaits == stage = "idle" => outgoing = 0 /\ ctx.commit = 0

\* In a password field nothing is committed, shown or changed by the keys,
\* the panel's buttons or the mouse, whatever was going on when it began; a
\* text shown before the field became one is left to the client with the focus.
PasswordIsSealed ==
  [][IsPassword =>
       /\ sent' = 0 \/ (FocusOut /\ sent' <= ctx.buf)
       /\ display' \in {display, Blank}
       /\ ctx'.buf <= ctx.buf /\ ctx'.pages <= ctx.pages]_allVars

\* What the client in focus shows of the buffer is the buffer, whatever was
\* clicked, focused or reset since the last key: a later commit surprises no
\* one.
ShownTextIsBuffer ==
  HasFocus => Characters(display.preEdit) = ctx.buf

\* The engine is an input method: a text out of focus is no longer anyone's.
IM == INSTANCE InputMethod WITH
  composing <- IF "FOCUS_IN" \in statusFlags THEN ctx.buf ELSE 0,
  committed <- outgoing + ctx.commit,
  given     <- sent,
  focused   <- "FOCUS_IN" \in statusFlags,
  sealed    <- IsPassword

\* Every character typed goes to the client it was typed for once, or is
\* erased there, through keys, clicks, resets, changes of focus and of
\* settings; and what a key commits is given before anything else happens.
ImplementsInputMethod == IM!IMFairSpec

\* The language bar shows the input mode in use.
PanelShowsInputMode == stage = "idle" => panel.chi = ctx.chi

\* Once mode and Caps Lock are in step, pressing Caps Lock keeps them in step:
\* the exception for a lit Caps Lock in the bypass of English mode is for this.
InStep == ctx.chi = ~capsOn
CapsLockKeepsStep ==
  [][\/ InStep => InStep'
     \/ conf.toggle # "c" \/ IsPassword
     \/ ~\E m \in {{}, {"Lock"}} : ProcessKeyEvent("Caps_Lock", m)]_allVars

\* A bopomofo is caught in English mode, where no key can finish it, only by
\* the one handler that sets the mode past set_chi_eng_mode, and none starts
\* there: enabling leaves it, every other way of changing the mode drops it.
CaughtBopomofo == ~ctx.chi /\ ctx.bpmf > 0
BopomofoStaysChinese ==
  [][CaughtBopomofo' => CaughtBopomofo \/ Enable]_allVars

\* A client that gets the focus gets none of the text of another.
FocusInStartsClean ==
  [][FocusIn => Nothing(ctx') /\ preEdit' = <<>> /\ outgoing' = 0]_allVars

\* A click chooses the candidate at that place of the page or none at all.
ClickPicksClicked ==
  [][\A i \in 0..MaxIndex :
       ctx'.picked \in {0, ctx.picked, i + 1} \/ ~CandidateClicked(i)]_allVars

-----------------------------------------------------------------------------
(* Claims of the documentation and of comments that the code does not keep. *)

\* ibus-chewing-preedit.h:54: FLAG_TABLE_SHOW means that the lookup table is
\* shown; so a table on the screen is one libchewing can choose from.
ShownTableHasList == stage = "idle" /\ display.table => Choosing(ctx)

\* CHANGELOG.md:52: Caps Lock is always processed, to toggle the mode back.
CapsLockAlwaysToggles ==
  [][\A m \in {{}, {"Lock"}} :
       ProcessKeyEvent("Caps_Lock", m) /\ conf.toggle = "c" /\ ~IsPassword
         => ctx'.chi = ~ctx.chi]_allVars
=============================================================================
