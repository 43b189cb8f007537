-------------------------- MODULE KeyboardProofs --------------------------
(***************************************************************************)
(* Proofs about a keyboard in front of the pre-edit component, for every   *)
(* keyboard, layout and setting.                                           *)
(***************************************************************************)
EXTENDS Keyboard, PreEditProofs

\* What the code keeps of a Shift key, against what the user did with it: the
\* last key is a Shift only where nothing but releases was in between.
ShiftInv(s) ==
  /\ keyLast = "Shift" /\ "shift" \notin between[s] =>
       "press" \notin between[s] /\ since[s] <= held
  /\ between[s] = {} => keyLast = "Shift" /\ held = since[s]

TapInv ==
  /\ since \in [Shifts -> 0..3]
  /\ between \in [Shifts -> SUBSET {"press", "release", "shift"}]
  /\ \A s \in Shifts : s \in down => ShiftInv(s)

-----------------------------------------------------------------------------
(* Keys and their symbols. *)

LEMMA SymbolOfShift ==
  ASSUME NEW k \in Keys
  PROVE  /\ k \in Shifts => KeySym(k) = SystemSym[k] /\ KeySym(k) \in ShiftKeys
         /\ k \notin Shifts => KeySym(k) \notin ShiftKeys
  BY KeyboardAssumption DEF KeySym, Shifts

LEMMA MaskedModifiers ==
  /\ Masked(Modifiers \cup {"Release"}) = Masked(Modifiers)
  /\ down \cap Shifts # {} /\ "Control" \notin Modifiers => Masked(Modifiers) = {"Shift"}
  /\ "Release" \notin Modifiers
  BY DEF Masked, Modifiers

Side(k) == {"s", IF k = "Shift_L" THEN "l" ELSE "r"}

LEMMA ShiftDispatch ==
  ASSUME NEW k \in ShiftKeys, NEW m
  PROVE  Dispatch(k, m) <=> HandleShift(m, Side(k))
<1>1. k \notin DigitKeys /\ k \notin KeypadKeys /\ k \notin PrintableKeys
  BY PreEditAssumption DEF NamedKeys
<1>2. CASE k = "Shift_L"
  BY <1>1, <1>2 DEF Dispatch, HandleShiftLeft, Side
<1>3. CASE k = "Shift_R"
  BY <1>1, <1>3 DEF Dispatch, HandleShiftRight, Side
<1> QED BY <1>2, <1>3 DEF ShiftKeys

\* What the release of a key may do.
Toggled(k, m) ==
  /\ k \in Shifts
  /\ QuickShift(m, Side(SystemSym[k]))
  /\ Leave(ChiEngSet(ctx, ~ctx.chi), UpdatesText(ctx, ~ctx.chi))
  /\ UNCHANGED <<iTable, tableShow>>

LEMMA ReleaseIs ==
  ASSUME NEW k \in Keys, NEW m, "Release" \in m, ProcessKey(KeySym(k), m)
  PROVE  consumed' = FALSE /\ (UNCHANGED text \/ Toggled(k, m))
<1>1. CASE Ignore
  BY <1>1 DEF Ignore
<1>2. CASE ~Ignore
  <2>1. ~IgnoredRelease(KeySym(k), m) /\ Dispatch(KeySym(k), m)
    BY <1>2 DEF ProcessKey
  <2>2. k \in Shifts /\ KeySym(k) = SystemSym[k] /\ KeySym(k) \in ShiftKeys
    BY <2>1, SymbolOfShift DEF IgnoredRelease
  <2>3. HandleShift(m, Side(SystemSym[k]))
    BY <2>1, <2>2, ShiftDispatch
  <2> QED BY <1>2, <2>2, <2>3 DEF HandleShift, Toggled
<1> QED BY <1>1, <1>2

\* When the release of a Shift toggles.
LEMMA ToggleIs ==
  ASSUME IInv, NEW k \in Shifts, NEW m, "Release" \in m, Masked(m) = {"Shift"},
         ProcessKey(KeySym(k), m), conf.toggle \in Side(SystemSym[k]),
         keyLast = "Shift", held <= 2
  PROVE  /\ Leave(ChiEngSet(ctx, ~ctx.chi), UpdatesText(ctx, ~ctx.chi))
         /\ UNCHANGED <<iTable, tableShow>>
<1>1. k \in Keys /\ KeySym(k) = SystemSym[k] /\ KeySym(k) \in ShiftKeys
  BY SymbolOfShift DEF Shifts
<1>2. ~Bypassed(KeySym(k), m) /\ ~IgnoredRelease(KeySym(k), m)
  BY <1>1 DEF Bypassed, ShiftToggle, IgnoredRelease
<1>3. HandleShift(m, Side(SystemSym[k]))
  BY <1>1, <1>2, ShiftDispatch DEF ProcessKey
<1>4. QuickShift(m, Side(SystemSym[k]))
  BY DEF QuickShift
<1> QED BY <1>3, <1>4 DEF HandleShift

LEMMA LeaveIs ==
  ASSUME IInv, NEW chi \in BOOLEAN, Leave(ChiEngSet(ctx, chi), UpdatesText(ctx, chi)),
         UNCHANGED <<iTable, tableShow>>
  PROVE  /\ ctx'.chi = chi /\ ctx'.buf = ctx.buf /\ ctx'.bpmf <= ctx.bpmf
         /\ ctx'.pages = ctx.pages /\ outgoing' = outgoing
<1> DEFINE d == ChiEngSet(ctx, chi)
           u == UpdatesText(ctx, chi)
<1>1. /\ KeepsList(d) /\ d.chi = chi /\ d.commit = 0
      /\ u \/ d.bpmf = ctx.bpmf
      /\ u \in BOOLEAN
  BY CtxKeeps, ChiEngSetKeeps DEF IInv
<1>2. Leave(d, u)
  OBVIOUS
<1> HIDE DEF d, u
<1>3. /\ ctx'.buf = ctx.buf /\ ctx'.pages = ctx.pages /\ ctx'.chi = d.chi
      /\ ctx'.bpmf = d.bpmf /\ outgoing' = outgoing
  BY <1>1, <1>2, LeaveCore DEF IInv
<1>4. d.bpmf <= ctx.bpmf
  <2>1. ctx.bpmf \in Nat
    BY Sizes DEF IInv, Core, TextInv, ContextOK, Context
  <2> QED BY <1>1, <2>1 DEF KeepsList
<1> QED BY <1>1, <1>3, <1>4

-----------------------------------------------------------------------------
(* The steps. *)

LEMMA ReleaseKeeps ==
  ASSUME IInv, NEW k \in Keys, ReleaseKey(k)
  PROVE  /\ consumed' = FALSE
         /\ ctx'.buf = ctx.buf /\ ctx'.bpmf <= ctx.bpmf
         /\ ctx'.pages <= ctx.pages /\ outgoing' = outgoing
         /\ ctx'.chi # ctx.chi => Toggled(k, Modifiers \cup {"Release"})
<1>1. /\ consumed' = FALSE
      /\ UNCHANGED text \/ Toggled(k, Modifiers \cup {"Release"})
  BY ReleaseIs DEF ReleaseKey
<1>2. ctx \in Context
  BY DEF IInv, Core, TextInv, ContextOK
<1>3. CASE UNCHANGED text
  BY <1>1, <1>2, <1>3, Sizes DEF text, Context
<1>4. CASE Toggled(k, Modifiers \cup {"Release"})
  <2>1. PICK chi \in BOOLEAN : chi = ~ctx.chi
    BY <1>2, Zenon DEF Context
  <2>2. /\ Leave(ChiEngSet(ctx, chi), UpdatesText(ctx, chi))
        /\ UNCHANGED <<iTable, tableShow>>
    BY <1>4, <2>1 DEF Toggled
  <2>3. /\ ctx'.buf = ctx.buf /\ ctx'.bpmf <= ctx.bpmf
        /\ ctx'.pages = ctx.pages /\ outgoing' = outgoing
    BY <2>2, LeaveIs
  <2>4. ctx.pages \in Nat
    BY <1>2, Sizes DEF Context
  <2> QED BY <1>1, <1>4, <2>3, <2>4
<1> QED BY <1>1, <1>3, <1>4

LEMMA KeyRecorded ==
  ASSUME NEW k \in Keys, NEW m, ProcessKey(KeySym(k), m)
  PROVE  /\ \/ keyLast' = (IF k \in Shifts THEN "Shift" ELSE "other") /\ held' = 0
            \/ "Release" \in m /\ k \notin Shifts /\ UNCHANGED <<keyLast, held>>
  BY SymbolOfShift DEF ProcessKey, RecordKey, IgnoredRelease

LEMMA SeenTyped ==
  ASSUME TapInv, NEW what \in {"press", "release", "shift"}
  PROVE  Seen(what) \in [Shifts -> SUBSET {"press", "release", "shift"}]
  BY DEF TapInv, Seen

LEMMA TapInvInit == KeyboardInit => TapInv
  BY DEF KeyboardInit, TapInv

LEMMA TapInvNext ==
  ASSUME IInv, TapInv, [KeyboardNext]_allKeyVars
  PROVE  TapInv'
<1>0. keyLast \in {"Shift", "other"} /\ held \in 0..3
  BY DEF IInv, KeyInv
<1>1. ASSUME NEW k \in Keys, PressKey(k) PROVE TapInv'
  <2>1. keyLast' = (IF k \in Shifts THEN "Shift" ELSE "other") /\ held' = 0
    BY <1>1, KeyRecorded, MaskedModifiers DEF PressKey
  <2>2. CASE k \in Shifts
    <3>1. /\ since' = [since EXCEPT ![k] = 0]
          /\ between' = [Seen("shift") EXCEPT ![k] =
                           IF down \cap Shifts = {} THEN {} ELSE {"shift"}]
          /\ down' = down \cup {k}
      BY <1>1, <2>2 DEF PressKey
    <3>2. /\ since' \in [Shifts -> 0..3]
          /\ between' \in [Shifts -> SUBSET {"press", "release", "shift"}]
      <4>1. since' \in [Shifts -> 0..3]
        <5>1. 0 \in 0..3
          OBVIOUS
        <5>2. since \in [Shifts -> 0..3]
          BY DEF TapInv
        <5> QED BY <3>1, <5>1, <5>2, Zenon
      <4>2. Seen("shift") \in [Shifts -> SUBSET {"press", "release", "shift"}]
        BY SeenTyped
      <4> QED BY <3>1, <4>1, <4>2
    <3>3. since'[k] = 0 /\ between'[k] \in {{}, {"shift"}}
      BY <2>2, <3>1 DEF TapInv, Seen
    <3>4. ASSUME NEW s \in Shifts, s \in down, s # k PROVE "shift" \in between'[s]
      BY <3>1, <3>4 DEF Seen
    <3> QED BY <2>1, <2>2, <3>1, <3>2, <3>3, <3>4 DEF TapInv, ShiftInv
  <2>3. CASE k \notin Shifts
    <3>1. /\ between' = Seen("press")
          /\ UNCHANGED since
          /\ down' = down \cup {k}
      BY <1>1, <2>3 DEF PressKey
    <3>2. between' \in [Shifts -> SUBSET {"press", "release", "shift"}]
      BY <3>1 DEF TapInv, Seen
    <3>3. ASSUME NEW s \in Shifts, s \in down' PROVE "press" \in between'[s]
      BY <2>3, <3>1, <3>3 DEF Seen
    <3> QED BY <2>1, <2>3, <3>1, <3>2, <3>3 DEF TapInv, ShiftInv
  <2> QED BY <2>2, <2>3
<1>2. ASSUME NEW k \in Keys, ReleaseKey(k) PROVE TapInv'
  <2>1. \/ keyLast' = (IF k \in Shifts THEN "Shift" ELSE "other") /\ held' = 0
        \/ k \notin Shifts /\ UNCHANGED <<keyLast, held>>
    BY <1>2, KeyRecorded DEF ReleaseKey
  <2>2. CASE k \in Shifts
    <3>1. /\ since' = [since EXCEPT ![k] = 0]
          /\ between' = [Seen("shift") EXCEPT ![k] = {}]
          /\ down' = down \ {k}
      BY <1>2, <2>2 DEF ReleaseKey
    <3>2. /\ since' \in [Shifts -> 0..3]
          /\ between' \in [Shifts -> SUBSET {"press", "release", "shift"}]
      <4>1. since' \in [Shifts -> 0..3]
        <5>1. 0 \in 0..3
          OBVIOUS
        <5>2. since \in [Shifts -> 0..3]
          BY DEF TapInv
        <5> QED BY <3>1, <5>1, <5>2, Zenon
      <4>2. Seen("shift") \in [Shifts -> SUBSET {"press", "release", "shift"}]
        BY SeenTyped
      <4> QED BY <3>1, <4>1, <4>2
    <3>3. ASSUME NEW s \in Shifts, s \in down' PROVE "shift" \in between'[s]
      BY <3>1, <3>3 DEF Seen
    <3> QED BY <3>2, <3>3 DEF TapInv, ShiftInv
  <2>3. CASE k \notin Shifts
    <3>1. /\ between' = Seen("release")
          /\ UNCHANGED since
          /\ down' = down \ {k}
      BY <1>2, <2>3 DEF ReleaseKey
    <3>2. between' \in [Shifts -> SUBSET {"press", "release", "shift"}]
      BY <3>1 DEF TapInv, Seen
    <3>3. ASSUME NEW s \in Shifts, s \in down' PROVE ShiftInv(s)'
      <4>1. between'[s] = between[s] \cup {"release"} /\ ShiftInv(s)
        BY <3>1, <3>3 DEF Seen, TapInv
      <4> QED BY <2>1, <2>3, <3>1, <4>1 DEF ShiftInv
    <3> QED BY <3>1, <3>2, <3>3 DEF TapInv
  <2> QED BY <2>2, <2>3
<1>3. CASE KeyboardTick
  <2>1. /\ since' = [s \in Shifts |-> IF s \in down /\ since[s] < 3
                                     THEN since[s] + 1 ELSE since[s]]
        /\ held' = IF keyLast = "Shift" /\ held < 3 THEN held + 1 ELSE held
        /\ UNCHANGED <<keyLast, down, between>>
    BY <1>3 DEF KeyboardTick
  <2>2. since' \in [Shifts -> 0..3]
    BY <2>1 DEF TapInv
  <2>3. ASSUME NEW s \in Shifts, s \in down PROVE ShiftInv(s)'
    <3>1. /\ since[s] \in 0..3 /\ ShiftInv(s)
          /\ since'[s] = IF since[s] < 3 THEN since[s] + 1 ELSE since[s]
      BY <2>1, <2>3 DEF TapInv
    <3> QED BY <1>0, <2>1, <3>1 DEF ShiftInv
  <2> QED BY <2>1, <2>2, <2>3 DEF TapInv
<1>4. CASE EngineCalls \/ UNCHANGED allKeyVars
  <2>1. UNCHANGED <<keyLast, held, down, since, between>>
    BY <1>4 DEF EngineCalls, Clear, ClearOutgoing, SetChiEngMode, SetFullHalfMode,
                keyboardVars, allKeyVars, vars
  <2> QED BY <2>1 DEF TapInv, ShiftInv
<1> QED BY <1>1, <1>2, <1>3, <1>4 DEF KeyboardNext

LEMMA ComponentNext ==
  ASSUME IInv, [KeyboardNext]_allKeyVars
  PROVE  IInv'
<1>1. ASSUME NEW k \in Keys, NEW m, ProcessKey(KeySym(k), m) PROVE IInv'
  BY <1>1, KeyStep
<1>2. CASE KeyboardTick
  <2>1. held' \in 0..3 /\ outgoing' \in Nat
    BY <1>2 DEF KeyboardTick, text, IInv, KeyInv, Core, TextInv
  <2> QED BY <1>2, <2>1, UnchangedStep DEF KeyboardTick, text
<1>3. CASE EngineCalls
  <2>1. (~ctx.chi) \in BOOLEAN /\ (~ctx.full) \in BOOLEAN
    BY Zenon
  <2>2. Next
    BY <1>3, <2>1 DEF EngineCalls, Next
  <2> QED BY <2>2, NextStep
<1>4. CASE UNCHANGED allKeyVars
  BY <1>4, NextStep DEF allKeyVars
<1> QED BY <1>1, <1>2, <1>3, <1>4 DEF KeyboardNext, PressKey, ReleaseKey

LEMMA OnlyReleaseReleases ==
  ASSUME NEW k \in Keys, Released(k), [KeyboardNext]_allKeyVars
  PROVE  ReleaseKey(k)
<1>1. \A j \in Keys : ~PressKey(j)
  BY DEF PressKey, Released
<1>2. ~KeyboardTick /\ ~EngineCalls /\ ~UNCHANGED allKeyVars
  BY DEF KeyboardTick, EngineCalls, keyboardVars, allKeyVars, Released
<1>3. PICK j \in Keys : ReleaseKey(j)
  BY <1>1, <1>2 DEF KeyboardNext
<1>4. j = k
  BY <1>3 DEF ReleaseKey, Released
<1> QED BY <1>3, <1>4

-----------------------------------------------------------------------------
(* The theorems. *)

LEMMA KeyboardInvariant == KeyboardSpec => [](IInv /\ TapInv)
<1>1. KeyboardInit => IInv /\ TapInv
  BY InitEstablishes, TapInvInit DEF KeyboardInit
<1>2. IInv /\ TapInv /\ [KeyboardNext]_allKeyVars => IInv' /\ TapInv'
  BY ComponentNext, TapInvNext
<1> QED BY <1>1, <1>2, PTL DEF KeyboardSpec

\* The client is told of the release of every key it was told was pressed
\* (preedit.c 755-823), whatever the language was then and is now.
THEOREM NoKeyIsStuck == KeyboardSpec => []NoStuckKeys
<1>1. KeyboardInit => NoStuckKeys
  BY DEF KeyboardInit, NoStuckKeys
<1>2. IInv /\ NoStuckKeys /\ [KeyboardNext]_allKeyVars => NoStuckKeys'
  <2> SUFFICES ASSUME IInv, NoStuckKeys, [KeyboardNext]_allKeyVars
               PROVE  NoStuckKeys'
    OBVIOUS
  <2>1. ASSUME NEW k \in Keys, PressKey(k) PROVE NoStuckKeys'
    BY <2>1 DEF PressKey, NoStuckKeys
  <2>2. ASSUME NEW k \in Keys, ReleaseKey(k) PROVE NoStuckKeys'
    <3>1. consumed' = FALSE
      BY <2>2, ReleaseKeeps
    <3> QED BY <2>2, <3>1 DEF ReleaseKey, NoStuckKeys
  <2>3. CASE KeyboardTick \/ EngineCalls \/ UNCHANGED allKeyVars
    BY <2>3 DEF KeyboardTick, EngineCalls, keyboardVars, allKeyVars, NoStuckKeys
  <2> QED BY <2>1, <2>2, <2>3 DEF KeyboardNext
<1> QED BY <1>1, <1>2, KeyboardInvariant, PTL DEF KeyboardSpec

\* No release adds to the text, a Shift's that changes the language included.
THEOREM OnlyPressesAct == KeyboardSpec => KeysActOnPress
<1>1. IInv /\ [KeyboardNext]_allKeyVars =>
        [\A k \in Keys : Released(k) =>
           /\ ctx'.buf = ctx.buf /\ ctx'.bpmf <= ctx.bpmf
           /\ ctx'.pages <= ctx.pages /\ outgoing' = outgoing]_allKeyVars
  BY OnlyReleaseReleases, ReleaseKeeps
<1> QED BY <1>1, KeyboardInvariant, PTL DEF KeyboardSpec, KeysActOnPress

LEMMA TapsOnly ==
  ASSUME IInv, TapInv, [KeyboardNext]_allKeyVars,
         NEW k \in Shifts, Released(k), ctx'.chi # ctx.chi
  PROVE  \/ "shift" \in between[k]
         \/ "press" \notin between[k] /\ since[k] <= 2
<1>1. k \in Keys /\ ReleaseKey(k) /\ k \in down
  BY OnlyReleaseReleases DEF Shifts, Released
<1>2. Toggled(k, Modifiers \cup {"Release"})
  BY <1>1, ReleaseKeeps
<1>3. keyLast = "Shift" /\ held <= 2
  BY <1>2 DEF Toggled, QuickShift
<1>4. ShiftInv(k) /\ since[k] \in 0..3 /\ held \in 0..3
  BY <1>1 DEF TapInv, IInv, KeyInv
<1> QED BY <1>3, <1>4 DEF ShiftInv

\* A Shift that was used with another key, or held, does not toggle
\* (preedit.c 369-411), unless the other Shift was used as well.
THEOREM OnlyATapToggles == KeyboardSpec => OnlyTapToggles
<1>1. IInv /\ TapInv /\ [KeyboardNext]_allKeyVars =>
        [\A k \in Shifts : Released(k) /\ ctx'.chi # ctx.chi =>
           \/ "shift" \in between[k]
           \/ "press" \notin between[k] /\ since[k] <= 2]_allKeyVars
  BY TapsOnly
<1> QED BY <1>1, KeyboardInvariant, PTL DEF KeyboardSpec, OnlyTapToggles

\* A tapped Shift always toggles, also where the component is as good as off
\* (preedit.c 775-790): nobody is locked into English mode.
THEOREM ATapToggles == KeyboardSpec => TapToggles
<1>1. IInv /\ TapInv /\ [KeyboardNext]_allKeyVars =>
        [\A k \in Shifts : Released(k) =>
           \/ ctx'.chi # ctx.chi
           \/ between[k] # {} \/ since[k] > 2 \/ "Control" \in Modifiers
           \/ ~Toggles(k)]_allKeyVars
  <2> SUFFICES ASSUME IInv, TapInv, [KeyboardNext]_allKeyVars,
                      NEW k \in Shifts, Released(k), between[k] = {},
                      ~(since[k] > 2), "Control" \notin Modifiers, Toggles(k)
               PROVE  ctx'.chi # ctx.chi
    OBVIOUS
  <2>1. k \in Keys /\ ReleaseKey(k) /\ k \in down
    BY OnlyReleaseReleases DEF Shifts, Released
  <2>2. ShiftInv(k) /\ since[k] \in 0..3
    BY <2>1 DEF TapInv
  <2>3. keyLast = "Shift" /\ held <= 2
    BY <2>2 DEF ShiftInv
  <2>4. Masked(Modifiers \cup {"Release"}) = {"Shift"}
    BY <2>1, MaskedModifiers
  <2>5. /\ Leave(ChiEngSet(ctx, ~ctx.chi), UpdatesText(ctx, ~ctx.chi))
        /\ UNCHANGED <<iTable, tableShow>>
    <3>1. conf.toggle \in Side(SystemSym[k])
      BY DEF Toggles, Side
    <3>2. ProcessKey(KeySym(k), Modifiers \cup {"Release"})
      BY <2>1 DEF ReleaseKey
    <3> QED BY <2>3, <2>4, <3>1, <3>2, ToggleIs
  <2>6. PICK chi \in BOOLEAN : chi = ~ctx.chi
    <3>1. ctx.chi \in BOOLEAN
      BY DEF IInv, Core, TextInv, ContextOK, Context
    <3> QED BY <3>1, Zenon
  <2>7. ctx'.chi = chi
    BY <2>5, <2>6, LeaveIs
  <2> QED BY <2>6, <2>7, Zenon
<1> QED BY <1>1, KeyboardInvariant, PTL DEF KeyboardSpec, TapToggles

-----------------------------------------------------------------------------
(* A keyboard with one Shift key. *)

OneShift == \A a, b \in Shifts : a = b

\* Then no other Shift resets the clock while one is held.
Undisturbed == \A s \in Shifts : s \in down => "shift" \notin between[s]

LEMMA UndisturbedNext ==
  ASSUME OneShift, TapInv, Undisturbed, [KeyboardNext]_allKeyVars
  PROVE  Undisturbed'
<1>1. ASSUME NEW k \in Keys, PressKey(k) PROVE Undisturbed'
  <2>1. CASE k \in Shifts
    <3>1. down \cap Shifts = {}
      BY <1>1, <2>1 DEF PressKey, OneShift
    <3>2. between' = [Seen("shift") EXCEPT ![k] = {}] /\ down' = down \cup {k}
      BY <1>1, <2>1, <3>1 DEF PressKey
    <3>3. between'[k] = {}
      BY <2>1, <3>2 DEF Seen
    <3> QED BY <3>3, <2>1 DEF Undisturbed, OneShift
  <2>2. CASE k \notin Shifts
    <3>1. between' = Seen("press") /\ down' = down \cup {k}
      BY <1>1, <2>2 DEF PressKey
    <3> QED BY <2>2, <3>1 DEF Undisturbed, Seen
  <2> QED BY <2>1, <2>2
<1>2. ASSUME NEW k \in Keys, ReleaseKey(k) PROVE Undisturbed'
  <2>1. CASE k \in Shifts
    <3>1. down' = down \ {k}
      BY <1>2 DEF ReleaseKey
    <3> QED BY <2>1, <3>1 DEF Undisturbed, OneShift
  <2>2. CASE k \notin Shifts
    <3>1. between' = Seen("release") /\ down' = down \ {k}
      BY <1>2, <2>2 DEF ReleaseKey
    <3> QED BY <2>2, <3>1 DEF Undisturbed, Seen
  <2> QED BY <2>1, <2>2
<1>3. CASE KeyboardTick \/ EngineCalls \/ UNCHANGED allKeyVars
  BY <1>3 DEF KeyboardTick, EngineCalls, keyboardVars, allKeyVars, Undisturbed
<1> QED BY <1>1, <1>2, <1>3 DEF KeyboardNext

\* With one Shift key the mode changes only on a release at most 200 ms after
\* the press, as the change log says: keyLastTs is then the time of the press
\* (preedit.c 384, 418, 799-800).
THEOREM AToggleFollowsItsPress ==
  ASSUME OneShift
  PROVE  KeyboardSpec => ToggleFollowsPress
<1>1. KeyboardInit => Undisturbed
  BY DEF KeyboardInit, Undisturbed
<1>2. TapInv /\ Undisturbed /\ [KeyboardNext]_allKeyVars => Undisturbed'
  BY UndisturbedNext
<1>3. IInv /\ TapInv /\ Undisturbed /\ [KeyboardNext]_allKeyVars =>
        [\A k \in Shifts : Released(k) /\ ctx'.chi # ctx.chi => since[k] <= 2]_allKeyVars
  BY TapsOnly DEF Undisturbed, Released
<1> QED BY <1>1, <1>2, <1>3, KeyboardInvariant, PTL DEF KeyboardSpec, ToggleFollowsPress
-----------------------------------------------------------------------------
(* The keyboard as a user of the component. *)

\* The component's key events include those the keyboard makes.
KeysAreEvents ==
  \A k \in Keys : \A m \in SUBSET {"Shift", "Control", "Release"} :
    \A s \in {SystemSym[k]} \cup ({USSym[k]} \ {"VoidSymbol"}) : <<s, m>> \in KeyEvents

LEMMA KeyIsEvent ==
  ASSUME KeysAreEvents, NEW k \in Keys, NEW m \in SUBSET {"Shift", "Control", "Release"},
         ProcessKey(KeySym(k), m)
  PROVE  Next
<1>1. KeySym(k) \in {SystemSym[k]} \cup ({USSym[k]} \ {"VoidSymbol"})
  BY DEF KeySym
<1> DEFINE e == <<KeySym(k), m>>
<1>2. e \in KeyEvents /\ e[1] = KeySym(k) /\ e[2] = m
  BY <1>1 DEF KeysAreEvents
<1> HIDE DEF e
<1>3. \E f \in KeyEvents : ProcessKey(f[1], f[2])
  BY <1>2
<1> QED BY <1>3 DEF Next

\* The keyboard and the engine's calls use the component as its own
\* specification allows (preedit.c 755-838): what holds of the component for
\* every order of key events holds behind a keyboard.
THEOREM KeyboardUsesComponent ==
  ASSUME KeysAreEvents
  PROVE  KeyboardSpec => Spec
<1>1. KeyboardInit => Init
  BY DEF KeyboardInit
<1>2. [KeyboardNext]_allKeyVars => [Next]_vars
  <2> SUFFICES ASSUME [KeyboardNext]_allKeyVars PROVE [Next]_vars
    OBVIOUS
  <2>1. ASSUME NEW k \in Keys, PressKey(k) \/ ReleaseKey(k) PROVE Next
    <3>1. Modifiers \in SUBSET {"Shift", "Control", "Release"}
      BY DEF Modifiers
    <3>2. Modifiers \cup {"Release"} \in SUBSET {"Shift", "Control", "Release"}
      BY <3>1
    <3> QED BY <2>1, <3>1, <3>2, KeyIsEvent DEF PressKey, ReleaseKey
  <2>2. CASE KeyboardTick
    <3>1. UNCHANGED <<text, iTable, tableShow, keyLast, consumed, pending, conf>>
      BY <2>2 DEF KeyboardTick
    <3>2. CASE keyLast = "Shift" /\ held < 3
      BY <2>2, <3>1, <3>2 DEF KeyboardTick, Tick, Next
    <3>3. CASE ~(keyLast = "Shift" /\ held < 3)
      <4>1. held' = held
        BY <2>2, <3>3 DEF KeyboardTick
      <4> QED BY <3>1, <4>1 DEF vars, text
    <3> QED BY <3>2, <3>3
  <2>3. CASE EngineCalls
    <3>1. (~ctx.chi) \in BOOLEAN /\ (~ctx.full) \in BOOLEAN
      BY Zenon
    <3> QED BY <2>3, <3>1 DEF EngineCalls, Next
  <2>4. CASE UNCHANGED allKeyVars
    BY <2>4 DEF allKeyVars
  <2> QED BY <2>1, <2>2, <2>3, <2>4 DEF KeyboardNext
<1> QED BY <1>1, <1>2, PTL DEF KeyboardSpec, Spec
=============================================================================
