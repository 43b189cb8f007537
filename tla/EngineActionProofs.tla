------------------------- MODULE EngineActionProofs -------------------------
(***************************************************************************)
(* Proofs about what a click and the Caps Lock key do to the engine, and   *)
(* that what a key may do to the pre-edit component it may do in the       *)
(* engine, whatever the other handlers did before.                         *)
(***************************************************************************)
EXTENDS EngineProofs, PreEditActionProofs

-----------------------------------------------------------------------------
(* A click on a candidate. *)

\* A digit or a printable key pressed alone chooses the candidate it selects.
LEMMA BareKeyChooses ==
  ASSUME Core, NEW k, HandleNum(k, {}) \/ HandleDefault(k, {})
  PROVE  \/ ctx'.picked \in {0, ctx.picked}
         \/ Choosing(ctx) /\ ctx'.picked \in SelIndices(ctx, KeySymFix(ctx, k, {}))
<1>1. Masked({}) # {"Control"}
  BY DEF Masked
<1>2. Ignore \/ KeySymDefault(ctx, k, {}, FALSE)
  BY <1>1 DEF HandleNum, HandleDefault, Number
<1>3. CASE Ignore
  BY <1>3 DEF Ignore, text
<1>4. CASE KeySymDefault(ctx, k, {}, FALSE)
  BY <1>4, CtxKeeps, KeySymDefaultChooses
<1> QED BY <1>2, <1>3, <1>4

\* A click chooses the candidate at its place or none (engine.c 1028-1052): the
\* selection key it is turned into selects that candidate and no other.
THEOREM AClickPicksClicked ==
  ASSUME SelKeysDistinct
  PROVE  EngineSpec => ClickPicksClicked
<1>1. EngineInv =>
        \A i \in 0..MaxIndex :
          ctx'.picked \in {0, ctx.picked, i + 1} \/ ~CandidateClicked(i)
  <2> SUFFICES ASSUME EngineInv, NEW i \in 0..MaxIndex, CandidateClicked(i)
               PROVE  ctx'.picked \in {0, ctx.picked, i + 1}
    OBVIOUS
  <2>0. Core /\ ctx \in Context
    BY CtxKeeps DEF EngineInv, ContextOK
  <2>1. CASE UNCHANGED vars
    BY <2>1 DEF vars
  <2>2. CASE Clickable(i) /\ ProcessKey(ctx.selKeys[i + 1], {})
    <3> DEFINE k == ctx.selKeys[i + 1]
    <3>1. i + 1 \in 1..Len(ctx.selKeys)
      <4>1. MaxIndex \in Nat
        BY EngineAssumption DEF EngineAssumption
      <4>2. i < Len(ctx.selKeys) /\ Len(ctx.selKeys) \in Nat
        BY <2>0, <2>2, KeysAreFinite DEF Clickable
      <4> QED BY <4>1, <4>2
    <3>2. k \in DigitKeys \cup PrintableKeys
      <4>1. ctx.selKeys \in SelKeySets
        BY <2>0 DEF Context
      <4> QED BY <3>1, <4>1, EngineAssumption DEF EngineAssumption
    <3>3. Ignore \/ Dispatch(k, {})
      BY <2>2 DEF ProcessKey
    <3>4. CASE Ignore
      BY <3>4 DEF Ignore, text
    <3>5. CASE Dispatch(k, {})
      <4> HIDE DEF k
      <4>1. HandleNum(k, {}) \/ HandleDefault(k, {})
        BY <3>2, <3>5, RuleOfKey
      <4>2. ASSUME Choosing(ctx), ctx'.picked \in SelIndices(ctx, KeySymFix(ctx, k, {}))
            PROVE  ctx'.picked = i + 1
        BY <2>0, <3>1, <4>2, SelectsOnly DEF k
      <4> QED BY <2>0, <4>1, <4>2, BareKeyChooses
    <3> QED BY <3>3, <3>4, <3>5
  <2> QED BY <2>1, <2>2 DEF CandidateClicked
<1> QED BY <1>1, EngineInvariantHolds, PTL DEF ClickPicksClicked

-----------------------------------------------------------------------------
(* Caps Lock. *)

\* handle_caps_lock turns the mode, whatever it has to clear before.
LEMMA CapsLockTurns ==
  ASSUME Core, NEW m, Masked(m) = {}, conf.toggle = "c", HandleCapsLock(m)
  PROVE  ctx'.chi = ~ctx.chi
<1> DEFINE c == IF DropsBopomofo(ctx, FALSE) THEN BopomofoCleared(ctx) ELSE ctx
<1>1. ContextOK(c) /\ c.chi = ctx.chi /\ c \in Context
  <2>1. CASE DropsBopomofo(ctx, FALSE)
    <3>1. ctx.bpmf > 0
      BY <2>1 DEF DropsBopomofo
    <3> QED BY <2>1, <3>1, CtxKeeps, BopomofoIsCleared DEF KeepsList, ContextOK
  <2>2. CASE ~DropsBopomofo(ctx, FALSE)
    BY <2>2, CtxKeeps DEF ContextOK
  <2> QED BY <2>1, <2>2
<1>2. PICK d \in Capslock(c) : Process(d)
  BY DEF HandleCapsLock
<1> HIDE DEF c
<1>3. ctx' = Ack([Fresh(c) EXCEPT !.chi = ~c.chi])
  BY <1>2 DEF Process, Update, Capslock
<1>4. ctx'.chi = ~c.chi
  BY <1>1, <1>3 DEF Ack, Fresh, Context
<1> QED BY <1>1, <1>4

\* Pressing Caps Lock keeps mode and lamp in step (engine.c 991-1012, preedit.c
\* 770-790): in half-shape English the key is let through just when the lamp is
\* lit, and in step it is.
THEOREM CapsLockStaysInStep == EngineSpec => CapsLockKeepsStep
<1>1. EngineInv =>
        \/ InStep => InStep'
        \/ conf.toggle # "c" \/ IsPassword
        \/ ~\E m \in {{}, {"Lock"}} : ProcessKeyEvent("Caps_Lock", m)
  <2> SUFFICES ASSUME EngineInv, InStep, conf.toggle = "c", ~IsPassword,
                      NEW m \in {{}, {"Lock"}}, ProcessKeyEvent("Caps_Lock", m)
               PROVE  InStep'
    OBVIOUS
  <2>1. /\ "Lock" \in m <=> capsOn
        /\ capsOn' = ~capsOn
        /\ ProcessKey("Caps_Lock", m)
    BY DEF ProcessKeyEvent, Keyboard
  <2>2. Masked(m) = {} /\ "Release" \notin m
    BY DEF Masked
  <2>3. ~Bypassed("Caps_Lock", m)
    <3>1. CASE capsOn
      BY <2>1, <3>1 DEF Bypassed
    <3>2. CASE ~capsOn
      <4>1. ctx.chi
        BY <3>2, Zenon DEF InStep
      <4> QED BY <4>1 DEF Bypassed
    <3> QED BY <3>1, <3>2
  <2>4. Dispatch("Caps_Lock", m)
    BY <2>1, <2>2, <2>3 DEF ProcessKey, IgnoredRelease
  <2>5. ctx'.chi = ~ctx.chi
    BY <2>2, <2>4, RuleOfKey, CapsLockTurns DEF EngineInv
  <2> QED BY <2>1, <2>5, Zenon DEF InStep
<1> QED BY <1>1, EngineInvariantHolds, PTL DEF CapsLockKeepsStep
-----------------------------------------------------------------------------
(* The pre-edit component between the handlers of the engine. *)

\* A handler of IBus that may hand a key to the pre-edit component.
TakesKey ==
  \/ UNCHANGED <<text, iTable>>
  \/ \E k, m : ProcessKey(k, m)

LEMMA KeysAreTaken ==
  /\ \A k, m : ProcessKeyEvent(k, m) => TakesKey
  /\ PageUpButton \/ PageDownButton \/ CursorUpButton \/ CursorDownButton => TakesKey
  /\ \A i : CandidateClicked(i) => TakesKey
<1>1. \A k, m : ProcessKeyEvent(k, m) => TakesKey
  BY DEF ProcessKeyEvent, TakesKey
<1>2. \A k : Button(k) => TakesKey
  <2> SUFFICES ASSUME NEW k, Button(k) PROVE TakesKey
    OBVIOUS
  <2>1. UNCHANGED vars \/ ProcessKey(k, {})
    BY DEF Button
  <2> QED BY <2>1 DEF TakesKey, vars, text
<1>3. \A i : CandidateClicked(i) => TakesKey
  <2> SUFFICES ASSUME NEW i, CandidateClicked(i) PROVE TakesKey
    OBVIOUS
  <2>1. UNCHANGED vars \/ ProcessKey(ctx.selKeys[i + 1], {})
    BY DEF CandidateClicked
  <2> QED BY <2>1 DEF TakesKey, vars, text
<1> QED BY <1>1, <1>2, <1>3 DEF PageUpButton, PageDownButton, CursorUpButton, CursorDownButton

\* Handlers that leave the context, the text and the table alone, but for the
\* outgoing text that is committed.
LEMMA QuietHandlers ==
  ASSUME \/ EngineUpdate
         \/ \E password \in BOOLEAN : SetContentType(password)
         \/ LedMoved
         \/ TimePasses
         \/ UNCHANGED allVars
  PROVE  /\ UNCHANGED <<ctx, preEdit, iTable>>
         /\ outgoing' = outgoing \/ outgoing' = 0
<1>1. CASE EngineUpdate
  BY <1>1 DEF EngineUpdate, CommitText
<1>2. CASE \E password \in BOOLEAN : SetContentType(password)
  BY <1>2 DEF SetContentType, vars
<1>3. CASE LedMoved \/ TimePasses
  BY <1>3 DEF LedMoved, TimePasses, Tick, vars, text
<1>4. CASE UNCHANGED allVars
  BY <1>4 DEF allVars, vars
<1> QED BY <1>1, <1>2, <1>3, <1>4

-----------------------------------------------------------------------------
(* Return, in the engine. *)

LEMMA RestoredKept ==
  ASSUME EngineInv, ListInv(ctx)
  PROVE  Kept(ctx, RestoreMode(ctx)) /\ ContextOK(RestoreMode(ctx))
<1>1. capsOn \in BOOLEAN /\ Core /\ ctx \in Context
  BY CtxKeeps DEF EngineInv, EngineTypeOK, ContextOK
<1>2. PICK chi \in BOOLEAN : chi = ~capsOn
  BY Zenon
<1>3. Kept(ctx, ctx)
  BY DEF Kept
<1>4. Kept(ctx, [ctx EXCEPT !.chi = chi])
  BY <1>1, <1>3, ModeKept
<1> QED BY <1>1, <1>2, <1>3, <1>4, RestoreModeKeeps DEF RestoreMode

LEMMA ClearFromPicks ==
  ASSUME NEW c, ContextOK(c), Kept(ctx, c), ClearFrom(c), iTable' = iTable
  PROVE  PickStep
<1> DEFINE d == PreEditCleared(c)
<1>1. Kept(ctx, d) /\ d \in Context
  BY ClearedKept DEF Kept, ContextOK
<1>2. ctx' = Ack(d)
  BY DEF ClearFrom
<1> HIDE DEF d
<1> QED BY <1>1, <1>2, AckKept DEF PickStep

LEMMA EnablePicks ==
  ASSUME EngineInv, ListInv(ctx), Enable
  PROVE  PickStep
<1> DEFINE c == RestoreMode(ctx)
           e == IF DropsBopomofo(c, FALSE) THEN BopomofoCleared(c) ELSE c
           d == [e EXCEPT !.chi = FALSE]
<1>1. Kept(ctx, c) /\ ContextOK(c)
  BY RestoredKept
<1>2. Kept(ctx, e) /\ ContextOK(e)
  BY <1>1, ClearedKept DEF Kept
<1>3. /\ iTable' = iTable
      /\ IF prefs.useEnglish THEN Leave(d, UpdatesText(c, FALSE)) ELSE Leave(c, FALSE)
  BY DEF Enable, ChiEngSet
<1> HIDE DEF c, e
<1>4. Kept(ctx, d) /\ d \in Context
  BY <1>2, ModeKept DEF ContextOK, Context
<1>5. c \in Context
  BY <1>1 DEF ContextOK
<1> HIDE DEF d
<1> QED BY <1>1, <1>3, <1>4, <1>5, LeavePicks

LEMMA PropertyPicks ==
  ASSUME Core, PickInv, SetProperty
  PROVE  PickInv'
<1>1. ASSUME NEW keys \in SelKeySets, Resize(keys) PROVE PickInv'
  BY <1>1, ResizePicks
<1>2. CASE UNCHANGED <<ctx, iTable>>
  BY <1>2 DEF PickInv
<1>3. ASSUME NEW escAll \in BOOLEAN, NEW fwKey \in BOOLEAN,
             ctx' = [ctx EXCEPT !.escAll = escAll, !.fwKey = fwKey], iTable' = iTable
      PROVE  PickInv'
  <2>1. ctx \in Context
    BY CtxKeeps DEF ContextOK
  <2> QED BY <1>3, <2>1 DEF PickInv, ListInv, Choosing, Context
<1> QED BY <1>1, <1>2, <1>3 DEF SetProperty, text, vars

LEMMA EnginePickNext ==
  ASSUME EngineInv, PickInv, [EngineNext]_allVars
  PROVE  PickInv'
<1>0. Core /\ ListInv(ctx) /\ ContextOK(ctx) /\ Kept(ctx, ctx)
  BY CtxKeeps DEF EngineInv, PickInv, Kept
<1>1. PickStep => PickInv'
  BY DEF PickStep, PickInv, Kept
<1>2. UNCHANGED <<ctx, iTable>> => PickInv'
  BY DEF PickInv
<1>3. TakesKey => PickInv'
  <2>1. ASSUME NEW k, NEW m, ProcessKey(k, m) PROVE PickInv'
    <3>1. Ignore \/ Dispatch(k, m)
      BY <2>1 DEF ProcessKey
    <3> QED BY <1>0, <1>1, <3>1, IgnorePicks, DispatchPicks
  <2> QED BY <1>2, <2>1 DEF TakesKey, text
<1>4. CASE Reset
  <2> DEFINE d == PreEditCleared(ctx)
  <2>1. Kept(ctx, d) /\ d \in Context
    BY <1>0, ClearedKept DEF ContextOK
  <2>2. ctx' = Ack(d) /\ iTable' = iTable
    BY <1>4 DEF Reset, Clear
  <2> HIDE DEF d
  <2> QED BY <1>1, <2>1, <2>2, AckKept DEF PickStep
<1>5. CASE Enable
  BY <1>0, <1>1, <1>5, EnablePicks
<1>6. CASE FocusIn
  <2>1. ClearFrom(RestoreMode(ctx)) /\ iTable' = iTable
    BY <1>6 DEF FocusIn
  <2> QED BY <1>0, <1>1, <2>1, RestoredKept, ClearFromPicks
<1>7. CASE FocusOut
  <2>1. (ClearFrom(ctx) \/ UNCHANGED ctx) /\ iTable' = iTable
    BY <1>7 DEF FocusOut, text
  <2> QED BY <1>0, <1>1, <1>2, <2>1, ClearFromPicks
<1>8. CASE ActivateInputMode
  <2>1. PICK chi \in BOOLEAN : chi = ~ctx.chi
    BY Zenon
  <2> DEFINE d == ChiEngSet(ctx, chi)
  <2>2. Kept(ctx, d) /\ d \in Context
    BY <1>0, CtxKeeps, ChiEngSetKeeps, ChiEngSetKept DEF KeepsList, ContextOK
  <2>3. Leave(d, UpdatesText(ctx, chi)) /\ iTable' = iTable
    BY <1>8, <2>1 DEF ActivateInputMode, SetChiEngMode
  <2> HIDE DEF d
  <2> QED BY <1>1, <2>2, <2>3, LeavePicks
<1>9. CASE ActivateAlnumSize
  <2>1. PICK full \in BOOLEAN : full = ~ctx.full
    BY Zenon
  <2> DEFINE drops == ctx.chi /\ ctx.bpmf > 0
             c == IF drops THEN BopomofoCleared(ctx) ELSE ctx
             d == [c EXCEPT !.full = full]
  <2>2. Kept(ctx, c) /\ c \in Context
    BY <1>0, ClearedKept DEF ContextOK, Kept
  <2>3. Leave(d, drops /\ ClosedList(ctx).bpmf > 0) /\ iTable' = iTable
    BY <1>9, <2>1 DEF ActivateAlnumSize, SetFullHalfMode
  <2> HIDE DEF c
  <2>4. Kept(ctx, d) /\ d \in Context
    BY <2>2 DEF Kept, ListInv, Choosing, Context
  <2> HIDE DEF d
  <2> QED BY <1>1, <2>3, <2>4, LeavePicks
<1>10. CASE SetProperty
  BY <1>0, <1>10, PropertyPicks
<1>11. CASE \/ EngineUpdate
            \/ \E password \in BOOLEAN : SetContentType(password)
            \/ LedMoved
            \/ TimePasses
            \/ UNCHANGED allVars
  BY <1>2, <1>11, QuietHandlers
<1> QED BY <1>3, <1>4, <1>5, <1>6, <1>7, <1>8, <1>9, <1>10, <1>11, KeysAreTaken DEF EngineNext

\* In the engine, too, Return chooses the highlighted candidate or none
\* (preedit.c 481-501): no change of focus, of the mode or of a setting between
\* two keys parts the table from the selection keys.
THEOREM ReturnStaysHighlighted ==
  ASSUME SelKeysDistinct
  PROVE  EngineSpec => ReturnPicksHighlighted
<1>1. EngineInit => PickInv
  BY DEF EngineInit, Init, NewContext, PickInv, ListInv, Choosing
<1>2. EngineInv /\ PickInv /\ [EngineNext]_allVars => PickInv'
  BY EnginePickNext
<1>3. EngineInv /\ PickInv =>
        \/ ctx'.picked \in {0, CursorInPage + 1}
        \/ ctx.width # Len(ctx.selKeys)
        \/ ~\E e \in KeyEvents : e[1] = "Return" /\ ProcessKey(e[1], e[2])
  BY ReturnHighlights DEF EngineInv
<1> QED BY <1>1, <1>2, <1>3, EngineInvariantHolds, PTL DEF EngineSpec, ReturnPicksHighlighted

-----------------------------------------------------------------------------
(* English mode, in the engine. *)

\* A text with a bopomofo in it is not empty.
LEMMA EmptyTextHasNoBopomofo ==
  ASSUME NEW c, ContextOK(c), Render(c) = <<>>
  PROVE  c.bpmf = 0
<1> DEFINE zi(n) == [i \in 1..n |-> "zi"]
           b == [i \in 1..c.bpmf |-> "bpmf"]
           T == {"zi", "bpmf"}
<1>1. c.buf \in Nat /\ c.cur \in Nat /\ c.bpmf \in Nat
  BY Sizes DEF ContextOK, Context
<1>2. \A n \in Nat : zi(n) \in Seq(T) /\ Len(zi(n)) \in Nat
  BY Repeated
<1>3. b \in Seq(T) /\ Len(b) = c.bpmf
  BY <1>1, Repeated
<1>4. Render(c) = IF c.cur < c.buf THEN (zi(c.cur) \o b) \o zi(c.buf - c.cur)
                                   ELSE zi(c.buf) \o b
  BY DEF Render
<1> HIDE DEF zi, b, T
<1>5. \A s, t \in Seq(T) : s \o t \in Seq(T) /\ Len(s \o t) = Len(s) + Len(t)
  BY ConcatProperties
<1>6. CASE c.cur < c.buf
  <2>1. c.buf - c.cur \in Nat
    BY <1>1, <1>6
  <2>2. /\ zi(c.cur) \o b \in Seq(T)
        /\ Len(zi(c.cur) \o b) = Len(zi(c.cur)) + c.bpmf
    BY <1>1, <1>2, <1>3, <1>5
  <2>3. Len(Render(c)) = Len(zi(c.cur)) + c.bpmf + Len(zi(c.buf - c.cur))
    BY <1>2, <1>4, <1>5, <1>6, <2>1, <2>2
  <2>4. Len(zi(c.cur)) \in Nat /\ Len(zi(c.buf - c.cur)) \in Nat
    BY <1>1, <1>2, <2>1
  <2>5. Len(Render(c)) = 0
    OBVIOUS
  <2> QED BY <1>1, <2>3, <2>4, <2>5
<1>7. CASE ~(c.cur < c.buf)
  <2>1. Len(Render(c)) = Len(zi(c.buf)) + c.bpmf
    BY <1>1, <1>2, <1>3, <1>4, <1>5, <1>7
  <2>2. Len(zi(c.buf)) \in Nat
    BY <1>1, <1>2
  <2>3. Len(Render(c)) = 0
    OBVIOUS
  <2> QED BY <1>1, <2>1, <2>2, <2>3
<1> QED BY <1>6, <1>7

\* The mode may be the keyboard's when the engine is enabled, but there is no
\* bopomofo that the switch back to English would have to drop.
LEMMA EnableStaysOut ==
  ASSUME EngineInv, InEnglish, Enable
  PROVE  preEdit' = preEdit /\ outgoing' = outgoing
<1> DEFINE c == RestoreMode(ctx)
<1>1. Core /\ capsOn \in BOOLEAN
  BY DEF EngineInv, EngineTypeOK
<1>2. ctx.bpmf = 0
  BY <1>1, EmptyTextHasNoBopomofo DEF Core, TextInv, PreEditMirrorsContext, InEnglish, Idle
<1>3. c.bpmf = 0
  BY <1>1, <1>2, RestoreModeKeeps
<1>4. IF prefs.useEnglish THEN Leave(ChiEngSet(c, FALSE), UpdatesText(c, FALSE))
                          ELSE Leave(c, FALSE)
  BY DEF Enable
<1> HIDE DEF c
<1>5. UpdatesText(c, FALSE) = FALSE
  BY <1>3 DEF UpdatesText, DropsBopomofo
<1> QED BY <1>4, <1>5 DEF Leave

\* In the engine, too, half-shape English with nothing pending starts no text
\* and commits none (preedit.c 776-784), whatever else IBus calls: not on
\* enabling, not by a button or a click, not by a change of focus.
THEOREM EngineLeavesEnglishAlone == EngineSpec => EnglishStaysOut
<1>1. EngineInv /\ [EngineNext]_allVars =>
        [~ctx.chi /\ ~ctx.full /\ Idle /\ ~ctx'.chi /\ ~ctx'.full
           => preEdit' = <<>> /\ outgoing' <= outgoing]_vars
  <2> SUFFICES ASSUME EngineInv, [EngineNext]_allVars, InEnglish, ~ctx'.chi
               PROVE  StaysOut
    BY DEF InEnglish, StaysOut
  <2>0. Core /\ outgoing \in Nat /\ preEdit = <<>>
    BY DEF EngineInv, Core, TextInv, InEnglish, Idle
  <2>1. TakesKey => StaysOut
    <3>1. ASSUME NEW k, NEW m, ProcessKey(k, m) PROVE StaysOut
      BY <2>0, <3>1, KeyStaysOut
    <3> QED BY <2>0, <3>1, UntouchedStaysOut DEF TakesKey, text
  <2>2. CASE Reset
    <3>1. preEdit' = <<>> /\ outgoing' = 0
      BY <2>0, <2>2, ClearStep DEF Reset
    <3> QED BY <2>0, <3>1 DEF StaysOut
  <2>3. CASE Enable
    BY <2>0, <2>3, EnableStaysOut, UntouchedStaysOut
  <2>4. CASE FocusIn
    <3>1. preEdit' = <<>> /\ outgoing' = 0
      BY <2>4, FocusInStep
    <3> QED BY <2>0, <3>1 DEF StaysOut
  <2>5. CASE FocusOut
    <3>1. CASE ClearFrom(ctx)
      <4>1. ContextOK(ctx) /\ (Choosing(ctx) => tableShow) /\ UNCHANGED <<iTable, tableShow>>
        BY <2>0, <2>5, CtxClears DEF FocusOut
      <4>2. preEdit' = <<>> /\ outgoing' = 0
        BY <2>0, <3>1, <4>1, ClearFromStep
      <4> QED BY <2>0, <4>2 DEF StaysOut
    <3>2. CASE UNCHANGED text
      BY <2>0, <3>2, UntouchedStaysOut DEF text
    <3> QED BY <2>5, <3>1, <3>2 DEF FocusOut
  <2>6. CASE ActivateInputMode
    <3>1. SetChiEngMode(TRUE)
      <4>1. ~ctx.chi = TRUE
        BY Zenon DEF InEnglish
      <4> QED BY <2>6, <4>1 DEF ActivateInputMode
    <3>2. ctx'.chi = TRUE
      BY <2>0, <3>1, SetChiEngModeStep
    <3> QED BY <3>2
  <2>7. CASE ActivateAlnumSize
    <3>1. preEdit' = preEdit /\ outgoing' = outgoing
      BY <2>7 DEF ActivateAlnumSize, SetFullHalfMode, Leave, InEnglish
    <3> QED BY <2>0, <3>1, UntouchedStaysOut
  <2>8. CASE SetProperty
    <3>1. preEdit' = preEdit /\ outgoing' = outgoing
      BY <2>8 DEF SetProperty, Resize, text, vars
    <3> QED BY <2>0, <3>1, UntouchedStaysOut
  <2>9. CASE \/ EngineUpdate
             \/ \E password \in BOOLEAN : SetContentType(password)
             \/ LedMoved
             \/ TimePasses
             \/ UNCHANGED allVars
    BY <2>0, <2>9, QuietHandlers DEF StaysOut
  <2> QED BY <2>1, <2>2, <2>3, <2>4, <2>5, <2>6, <2>7, <2>8, <2>9, KeysAreTaken DEF EngineNext
<1> QED BY <1>1, EngineInvariantHolds, PTL DEF EngineSpec, EnglishStaysOut
=============================================================================
