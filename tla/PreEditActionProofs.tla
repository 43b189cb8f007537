------------------------- MODULE PreEditActionProofs -------------------------
(***************************************************************************)
(* Proofs about what a key may do to the pre-edit component: which         *)
(* candidate Return chooses, that English mode stays out of the way, and   *)
(* under which settings a change of the language is always notified and a  *)
(* selection key always reaches libchewing.                                *)
(***************************************************************************)
EXTENDS PreEditProofs

-----------------------------------------------------------------------------
(* The rules of the keys that have one of their own. *)

LEMMA RuleOfKey ==
  ASSUME NEW k, NEW m, Dispatch(k, m)
  PROVE  /\ k = "space" => HandleSpace(m)
         /\ k = "Caps_Lock" => HandleCapsLock(m)
         /\ k = "Return" => HandleReturn(m)
         /\ k \in ShiftKeys => HandleShiftLeft(m) \/ HandleShiftRight(m)
         /\ k \in DigitKeys \cup PrintableKeys => HandleNum(k, m) \/ HandleDefault(k, m)
<1>1. k \in NamedKeys => k \notin DigitKeys /\ k \notin KeypadKeys /\ k \notin PrintableKeys
  BY PreEditAssumption
<1>2. CASE k = "space"
  BY <1>1, <1>2 DEF Dispatch, NamedKeys, ShiftKeys
<1>3. CASE k = "Caps_Lock"
  BY <1>1, <1>3 DEF Dispatch, NamedKeys, ShiftKeys
<1>4. CASE k = "Return"
  BY <1>1, <1>4 DEF Dispatch, NamedKeys, ShiftKeys
<1>5. CASE k \in ShiftKeys
  BY <1>1, <1>5 DEF Dispatch, NamedKeys, ShiftKeys
<1>6. CASE k \in DigitKeys \cup PrintableKeys
  <2>1. k \notin NamedKeys /\ k \notin KeypadKeys
    BY <1>6, PreEditAssumption
  <2> QED BY <1>6, <2>1 DEF Dispatch, NamedKeys, ShiftKeys
<1> QED BY <1>2, <1>3, <1>4, <1>5, <1>6

-----------------------------------------------------------------------------
(* What a step does to the list and to the choice. *)

\* The candidate table is as wide as the selection keys are many.
PickInv == ListInv(ctx) /\ iTable.size = Len(ctx.selKeys)

\* A step that chooses no candidate of a list left open.
PickStep == Kept(ctx, ctx') /\ iTable'.size = iTable.size

LEMMA EscapedKept ==
  ASSUME NEW c, ContextOK(c), ListInv(c), NEW all
  PROVE  Kept(c, Escaped(c, all)) /\ ContextOK(Escaped(c, all))
<1>1. c \in Context
  BY DEF ContextOK
<1>2. ContextOK(Escaped(c, all))
  BY EscapedLevels
<1>3. Plain(c, Escaped(c, all))
  BY <1>1 DEF Escaped, Context, ListInv, Plain, Choosing, Fresh, CloseList
<1> QED BY <1>2, <1>3 DEF Plain, Kept, ListInv

LEMMA ClearedKept ==
  ASSUME NEW c, ContextOK(c), ListInv(c)
  PROVE  /\ Kept(c, BopomofoCleared(c)) /\ ContextOK(BopomofoCleared(c))
         /\ Kept(c, PreEditCleared(c)) /\ ContextOK(PreEditCleared(c))
<1> DEFINE d == ClosedList(c)
           e == BopomofoCleared(c)
<1>1. Kept(c, d) /\ ContextOK(d)
  BY EscapedKept DEF ClosedList, Kept
<1>2. e = IF d.bpmf > 0 THEN Escaped(d, d.escAll) ELSE d
  BY DEF BopomofoCleared
<1> HIDE DEF d
<1>3. Kept(c, e) /\ ContextOK(e)
  BY <1>1, <1>2, EscapedKept DEF Kept
<1>4. PreEditCleared(c) = Escaped(e, TRUE)
  BY DEF PreEditCleared
<1> HIDE DEF e
<1>5. Kept(c, PreEditCleared(c)) /\ ContextOK(PreEditCleared(c))
  BY <1>3, <1>4, EscapedKept DEF Kept
<1> QED BY <1>3, <1>5 DEF e

\* Neither the mode nor the commit string bears on the list and the choice.
LEMMA ModeKept ==
  ASSUME NEW c, NEW d, d \in Context, Kept(c, d), NEW b \in BOOLEAN
  PROVE  LET e == [d EXCEPT !.chi = b] IN Kept(c, e) /\ e.picked = d.picked
  BY DEF Kept, ListInv, Choosing, Context

LEMMA AckKept ==
  ASSUME NEW c, NEW d, d \in Context, Kept(c, d)
  PROVE  Kept(c, Ack(d)) /\ Ack(d).picked = d.picked
  BY DEF Kept, ListInv, Choosing, Context, Ack

LEMMA ChiEngSetKept ==
  ASSUME Core, ListInv(ctx), NEW chi \in BOOLEAN
  PROVE  Kept(ctx, ChiEngSet(ctx, chi)) /\ ContextOK(ctx)
<1>1. ContextOK(ctx)
  BY CtxKeeps
<1> DEFINE e == IF DropsBopomofo(ctx, chi) THEN BopomofoCleared(ctx) ELSE ctx
<1>2. Kept(ctx, e) /\ ContextOK(e)
  BY <1>1, ClearedKept DEF Kept
<1>3. ChiEngSet(ctx, chi) = [e EXCEPT !.chi = chi]
  BY DEF ChiEngSet
<1> HIDE DEF e
<1>4. Kept(ctx, [e EXCEPT !.chi = chi])
  BY <1>2, ModeKept DEF ContextOK
<1> QED BY <1>1, <1>3, <1>4

LEMMA ProcessPicks ==
  ASSUME Core, NEW c, c \in Context, Kept(ctx, c), Process(c)
  PROVE  PickStep /\ ctx'.picked = c.picked
<1>1. ctx' = Ack(c) /\ iTable' = [iTable EXCEPT !.n = OnPage(c), !.cur = 0]
  BY DEF Process, Update, UpdateTable
<1>2. Kept(ctx, ctx') /\ ctx'.picked = c.picked
  BY <1>1, AckKept
<1>3. iTable'.size = iTable.size
  BY <1>1 DEF Core, TableInv
<1> QED BY <1>2, <1>3 DEF PickStep

LEMMA LeavePicks ==
  ASSUME NEW c \in Context, Kept(ctx, c), NEW updated, Leave(c, updated), iTable' = iTable
  PROVE  PickStep /\ ctx'.picked = c.picked
<1>1. ctx' = Ack(c) \/ ctx' = c
  BY DEF Leave, Update
<1>2. Kept(ctx, ctx') /\ ctx'.picked = c.picked
  BY <1>1, AckKept
<1> QED BY <1>2 DEF PickStep

LEMMA SamePicks ==
  ASSUME ListInv(ctx), ctx' = ctx, iTable'.size = iTable.size
  PROVE  PickStep
  BY DEF PickStep, Kept

\* A key that is handed to chewing_handle_Default.
LEMMA KeySymDefaultPicks ==
  ASSUME Core, NEW c, ContextOK(c), Kept(ctx, c), NEW k, NEW m, NEW updated,
         KeySymDefault(c, k, m, updated)
  PROVE  PickStep
<1> DEFINE j == KeySymFix(c, k, m)
<1>1. c \in Context /\ ListInv(c) /\ ctx.chi \in BOOLEAN
  BY CtxKeeps DEF ContextOK, Context, Kept
<1>2. CASE \E d \in Default(c, j) : Process([d EXCEPT !.chi = ctx.chi])
  <2>1. PICK d \in Default(c, j) : Process([d EXCEPT !.chi = ctx.chi])
    BY <1>2
  <2>2. d \in Context
    BY DefaultFollows DEF Follows, Yields, ContextOK
  <2>3. Kept(ctx, d)
    BY <1>1, DefaultKept DEF Kept
  <2> DEFINE e == [d EXCEPT !.chi = ctx.chi]
  <2>4. e \in Context
    BY <1>1, <2>2 DEF Context
  <2>5. Kept(ctx, e)
    BY <1>1, <2>2, <2>3, ModeKept
  <2>6. Process(e)
    BY <2>1
  <2> HIDE DEF e
  <2> QED BY <2>4, <2>5, <2>6, ProcessPicks
<1>3. CASE Leave([Fresh(c) EXCEPT !.chi = ctx.chi], updated) /\ UNCHANGED <<iTable, tableShow>>
  <2> DEFINE e == [Fresh(c) EXCEPT !.chi = ctx.chi]
  <2>1. e \in Context
    BY <1>1, FreshSound DEF ContextOK, Context
  <2>2. Plain(c, Fresh(c))
    BY <1>1, FreshPlain
  <2>3. Plain(c, e)
    BY <1>1, <2>2 DEF Plain, Choosing, Fresh, Context
  <2>4. Kept(ctx, e)
    BY <2>3 DEF Plain, Kept, ListInv
  <2>5. Leave(e, updated) /\ iTable' = iTable
    BY <1>3
  <2> HIDE DEF e
  <2> QED BY <2>1, <2>4, <2>5, LeavePicks
<1> QED BY <1>2, <1>3 DEF KeySymDefault

\* It chooses the candidate that key stands for, once its case is fixed.
LEMMA KeySymDefaultChooses ==
  ASSUME Core, NEW c, ContextOK(c), NEW k, NEW m, NEW updated,
         KeySymDefault(c, k, m, updated)
  PROVE  \/ ctx'.picked = 0
         \/ Choosing(c) /\ ctx'.picked \in SelIndices(c, KeySymFix(c, k, m))
<1> DEFINE j == KeySymFix(c, k, m)
<1>1. c \in Context /\ ctx.chi \in BOOLEAN
  BY CtxKeeps DEF ContextOK, Context
<1>2. CASE \E d \in Default(c, j) : Process([d EXCEPT !.chi = ctx.chi])
  <2>1. PICK d \in Default(c, j) : Process([d EXCEPT !.chi = ctx.chi])
    BY <1>2
  <2>2. d \in Context
    BY DefaultFollows DEF Follows, Yields, ContextOK
  <2>3. d.picked = 0 \/ (Choosing(c) /\ d.picked \in SelIndices(c, j))
    BY <1>1, DefaultChooses
  <2>4. ctx' = Ack([d EXCEPT !.chi = ctx.chi])
    BY <2>1 DEF Process, Update
  <2>5. ctx'.picked = d.picked
    BY <1>1, <2>2, <2>4 DEF Ack, Context
  <2> QED BY <2>3, <2>5
<1>3. CASE Leave([Fresh(c) EXCEPT !.chi = ctx.chi], updated)
  BY <1>1, <1>3 DEF Leave, Update, Ack, Fresh, Context
<1> QED BY <1>2, <1>3 DEF KeySymDefault

-----------------------------------------------------------------------------
(* The forms a handler takes. *)

\* The calls that choose no candidate.
Calls(c) ==
  UNION {Space(c), Enter(c), Backspace(c), Del(c), ShiftSpace(c), CtrlNum(c), Esc(c),
         PageUp(c), PageDown(c), Left(c), Right(c), ShiftLeft(c), ShiftRight(c),
         Home(c), End(c), Tab(c), Up(c), Down(c)}

LEMMA CallPicks ==
  ASSUME Core, ListInv(ctx), NEW d \in Calls(ctx), Process(d)
  PROVE  PickStep
<1>1. ContextOK(ctx) /\ ctx \in Context
  BY CtxKeeps DEF ContextOK
<1>2. Follows(ctx, d)
  <2>1. CASE d \in Space(ctx) \cup Enter(ctx) \cup ShiftSpace(ctx) \cup CtrlNum(ctx)
    BY <1>1, <2>1, SpaceFollows, EnterFollows, ShiftSpaceFollows, CtrlNumFollows
  <2>2. CASE d \in Backspace(ctx) \cup Del(ctx) \cup Esc(ctx) \cup Down(ctx)
    BY <1>1, <2>2, DeletingFollows, EscFollows, DownFollows
  <2>3. CASE d \in PageUp(ctx) \cup PageDown(ctx) \cup Left(ctx) \cup Right(ctx)
                     \cup ShiftLeft(ctx) \cup ShiftRight(ctx) \cup Home(ctx) \cup End(ctx)
                     \cup Tab(ctx) \cup Up(ctx)
    BY <1>1, <2>3, MovingFollows
  <2> QED BY <2>1, <2>2, <2>3 DEF Calls
<1>3. Plain(ctx, d)
  BY <1>1, TextPlain, MovingPlain DEF Calls
<1>4. d \in Context /\ Kept(ctx, d)
  BY <1>2, <1>3 DEF Follows, Yields, ContextOK, Plain, Kept, ListInv
<1> QED BY <1>4, ProcessPicks

\* A handler that asks libchewing for one of its other calls, or leaves the
\* context alone.
Plainly ==
  \/ \E d \in Calls(ctx) : Process(d)
  \/ ctx' = ctx /\ iTable'.size = iTable.size

LEMMA EditingForm ==
  ASSUME NEW m, NEW allowed, NEW contexts \in SUBSET Calls(ctx), Editing(m, allowed, contexts)
  PROVE  Plainly
  BY DEF Editing, Ignore, text, Plainly

LEMMA PageForm ==
  ASSUME NEW m, HandlePageUp(m) \/ HandlePageDown(m)
  PROVE  Plainly
<1>1. PICK contexts \in SUBSET Calls(ctx) : Editing(m, {}, contexts)
  <2>1. CASE HandlePageUp(m)
    <3> DEFINE D == PageUp(ctx) \cup (IF tableShow /\ Choosing(ctx) /\ ctx.page = 0
                                      THEN Down(ctx) ELSE {})
    <3>1. D \in SUBSET Calls(ctx)
      BY DEF Calls
    <3>2. Editing(m, {}, D)
      BY <2>1 DEF HandlePageUp
    <3> QED BY <3>1, <3>2
  <2>2. CASE HandlePageDown(m)
    <3> DEFINE D == IF tableShow /\ ctx.page = ctx.pages - 1 THEN Down(ctx) ELSE PageDown(ctx)
    <3>1. D \in SUBSET Calls(ctx)
      BY DEF Calls
    <3>2. Editing(m, {}, D)
      BY <2>2 DEF HandlePageDown
    <3> QED BY <3>1, <3>2
  <2> QED BY <2>1, <2>2
<1> QED BY <1>1, EditingForm

LEMMA CursorForm ==
  ASSUME Core, NEW vertical, CursorUp(vertical) \/ CursorDown(vertical), Absorb
  PROVE  Plainly
  BY DEF Core, TableInv, CursorUp, CursorDown, Absorb, text, Plainly

LEMMA ArrowsForm ==
  ASSUME Core, NEW m, HandleLeft(m) \/ HandleUp(m) \/ HandleRight(m) \/ HandleDown(m)
  PROVE  Plainly
<1> DEFINE D == Left(ctx) \cup ShiftLeft(ctx) \cup Up(ctx) \cup Right(ctx)
                  \cup ShiftRight(ctx) \cup Down(ctx)
<1>1. D \subseteq Calls(ctx)
  BY DEF Calls
<1>2. \/ \E vertical \in BOOLEAN : (CursorUp(vertical) \/ CursorDown(vertical)) /\ Absorb
      \/ HandlePageUp(m) \/ HandlePageDown(m)
      \/ \E contexts \in SUBSET D, allowed \in {{}, {"Shift"}} : Editing(m, allowed, contexts)
  <2>1. CASE HandleLeft(m)
    <3>1. PICK contexts \in SUBSET D :
            Backward(m, FALSE, Editing(m, {"Shift"}, contexts))
      BY <2>1 DEF HandleLeft
    <3> QED BY <3>1 DEF Backward
  <2>2. CASE HandleUp(m)
    <3>1. PICK contexts \in SUBSET D : Backward(m, TRUE, Editing(m, {}, contexts))
      BY <2>2 DEF HandleUp
    <3> QED BY <3>1 DEF Backward
  <2>3. CASE HandleRight(m)
    <3>1. PICK contexts \in SUBSET D :
            Forward(m, FALSE, Editing(m, {"Shift"}, contexts))
      BY <2>3 DEF HandleRight
    <3> QED BY <3>1 DEF Forward
  <2>4. CASE HandleDown(m)
    <3>1. PICK contexts \in SUBSET D : Forward(m, TRUE, Editing(m, {}, contexts))
      BY <2>4 DEF HandleDown
    <3> QED BY <3>1 DEF Forward
  <2> QED BY <2>1, <2>2, <2>3, <2>4
<1> HIDE DEF D
<1> QED BY <1>1, <1>2, CursorForm, PageForm, EditingForm

LEMMA EditKeysForm ==
  ASSUME NEW m,
         \/ HandleBackspace(m) \/ HandleDelete(m) \/ HandleEscape(m)
         \/ HandleTab(m) \/ HandleHome(m) \/ HandleEnd(m)
  PROVE  Plainly
<1>1. PICK contexts \in SUBSET Calls(ctx) : Editing(m, {}, contexts)
  BY DEF Calls, HandleBackspace, HandleDelete, HandleEscape, HandleTab, HandleHome, HandleEnd
<1> QED BY <1>1, EditingForm

LEMMA SpaceForm ==
  ASSUME NEW m, HandleSpace(m)
  PROVE  Plainly
  BY DEF HandleSpace, Plainly, Calls, Ignore, text

LEMMA PlainlyPicks ==
  ASSUME Core, ListInv(ctx), Plainly
  PROVE  PickStep
  BY CallPicks, SamePicks DEF Plainly

LEMMA IgnorePicks ==
  ASSUME ListInv(ctx), Ignore
  PROVE  PickStep /\ ctx' = ctx
  BY SamePicks DEF Ignore, text

\* The number keys and the printable ones.
LEMMA CharacterPicks ==
  ASSUME Core, ListInv(ctx), NEW k, NEW m,
         HandleDefault(k, m) \/ HandleNum(k, m) \/ HandleNumKeypad(k, m)
  PROVE  PickStep
<1>1. Kept(ctx, ctx) /\ ContextOK(ctx)
  BY CtxKeeps DEF Kept
<1> DEFINE c == ChiEngSet(ctx, FALSE)
<1>2. Kept(ctx, c) /\ ContextOK(c)
  BY CtxKeeps, ChiEngSetKeeps, ChiEngSetKept DEF KeepsList
<1>3. \/ \E d \in CtrlNum(ctx) : Process(d)
      \/ Ignore
      \/ KeySymDefault(ctx, k, m, FALSE)
      \/ KeySymDefault(c, KPNormal[k], m, UpdatesText(ctx, FALSE))
  BY DEF HandleDefault, HandleNum, HandleNumKeypad, Number
<1> HIDE DEF c
<1>4. (\E d \in CtrlNum(ctx) : Process(d)) => Plainly
  BY DEF Plainly, Calls
<1> QED BY <1>1, <1>2, <1>3, <1>4, PlainlyPicks, IgnorePicks, KeySymDefaultPicks

LEMMA CapsLockPicks ==
  ASSUME Core, ListInv(ctx), NEW m, HandleCapsLock(m)
  PROVE  PickStep
<1> DEFINE c == IF DropsBopomofo(ctx, FALSE) THEN BopomofoCleared(ctx) ELSE ctx
<1>1. Kept(ctx, c) /\ ContextOK(c)
  BY CtxKeeps, ClearedKept DEF Kept
<1>2. (\E d \in Capslock(c) : Process(d)) \/ Ignore
  BY DEF HandleCapsLock
<1> HIDE DEF c
<1>3. ASSUME NEW d \in Capslock(c), Process(d) PROVE PickStep
  <2>1. d = [Fresh(c) EXCEPT !.chi = ~c.chi]
    BY DEF Capslock
  <2>2. d \in Context
    BY <1>1, <2>1, FreshSound DEF ContextOK, Context
  <2>3. Plain(c, d)
    BY <1>1, TextPlain DEF ContextOK, Kept
  <2>4. Kept(ctx, d)
    BY <1>1, <2>3 DEF Plain, Kept, ListInv
  <2> QED BY <1>3, <2>2, <2>4, ProcessPicks
<1> QED BY <1>2, <1>3, IgnorePicks

LEMMA ShiftPicks ==
  ASSUME Core, ListInv(ctx), NEW m, NEW toggles, HandleShift(m, toggles)
  PROVE  PickStep
<1>1. CASE Ignore
  BY <1>1, IgnorePicks
<1>2. CASE /\ Leave(ChiEngSet(ctx, ~ctx.chi), UpdatesText(ctx, ~ctx.chi))
           /\ UNCHANGED <<iTable, tableShow>>
  <2>1. PICK chi \in BOOLEAN : chi = ~ctx.chi
    <3>1. ctx.chi \in BOOLEAN
      BY CtxKeeps DEF ContextOK, Context
    <3> QED BY <3>1, Zenon
  <2> DEFINE d == ChiEngSet(ctx, chi)
  <2>2. Kept(ctx, d) /\ d \in Context
    BY CtxKeeps, ChiEngSetKeeps, ChiEngSetKept DEF KeepsList, ContextOK
  <2>3. Leave(d, UpdatesText(ctx, chi)) /\ iTable' = iTable
    BY <1>2, <2>1
  <2> HIDE DEF d
  <2> QED BY <2>2, <2>3, LeavePicks
<1> QED BY <1>1, <1>2 DEF HandleShift

LEMMA ReturnPicks ==
  ASSUME Core, ListInv(ctx), NEW m, HandleReturn(m)
  PROVE  /\ PickStep
         /\ \/ ctx'.picked = 0
            \/ ctx' = ctx
            \/ /\ Choosing(ctx)
               /\ ctx'.picked \in SelIndices(ctx, KeySymFix(ctx, ctx.selKeys[CursorInPage + 1], m))
<1>1. Kept(ctx, ctx) /\ ContextOK(ctx) /\ ctx \in Context
  BY CtxKeeps DEF Kept, ContextOK
<1>2. CASE KeySymDefault(ctx, ctx.selKeys[CursorInPage + 1], m, FALSE)
  BY <1>1, <1>2, KeySymDefaultPicks, KeySymDefaultChooses
<1>3. CASE \E c \in Enter(ctx) : Process(c)
  <2>1. PICK c \in Enter(ctx) : Process(c)
    BY <1>3
  <2>2. Plain(ctx, c) /\ c \in Context
    BY <1>1, TextPlain, EnterFollows DEF Follows, Yields, ContextOK
  <2>3. Kept(ctx, c) /\ c.picked = 0
    BY <2>2 DEF Plain, Kept, ListInv
  <2> QED BY <2>1, <2>2, <2>3, ProcessPicks
<1>4. CASE Ignore
  BY <1>4, IgnorePicks
<1> QED BY <1>2, <1>3, <1>4 DEF HandleReturn

-----------------------------------------------------------------------------
(* Return. *)

LEMMA DispatchPicks ==
  ASSUME Core, ListInv(ctx), NEW k, NEW m, Dispatch(k, m)
  PROVE  PickStep
<1>1. CASE HandleDefault(k, m) \/ HandleNum(k, m) \/ HandleNumKeypad(k, m)
  BY <1>1, CharacterPicks
<1>2. CASE HandleCapsLock(m)
  BY <1>2, CapsLockPicks
<1>3. CASE HandleShiftLeft(m) \/ HandleShiftRight(m)
  BY <1>3, ShiftPicks DEF HandleShiftLeft, HandleShiftRight
<1>4. CASE HandleReturn(m)
  BY <1>4, ReturnPicks
<1>5. CASE HandleSpace(m) \/ HandlePageUp(m) \/ HandlePageDown(m)
  BY <1>5, SpaceForm, PageForm, PlainlyPicks
<1>6. CASE \/ HandleBackspace(m) \/ HandleDelete(m) \/ HandleEscape(m)
           \/ HandleTab(m) \/ HandleHome(m) \/ HandleEnd(m)
  BY <1>6, EditKeysForm, PlainlyPicks
<1>7. CASE HandleLeft(m) \/ HandleUp(m) \/ HandleRight(m) \/ HandleDown(m)
  BY <1>7, ArrowsForm, PlainlyPicks
<1>8. CASE HandleSpecial
  BY <1>8, IgnorePicks DEF HandleSpecial
<1> QED BY <1>1, <1>2, <1>3, <1>4, <1>5, <1>6, <1>7, <1>8 DEF Dispatch

LEMMA ResizePicks ==
  ASSUME Core, PickInv, NEW keys \in SelKeySets, Resize(keys)
  PROVE  PickInv'
<1>1. ctx' = [ctx EXCEPT !.selKeys = keys] /\ iTable' = [iTable EXCEPT !.size = Len(keys)]
  BY DEF Resize, SetSelKeys
<1>2. ctx'.selKeys = keys /\ ListInv(ctx')
  BY <1>1, CtxKeeps DEF PickInv, ListInv, Choosing, ContextOK, Context
<1>3. iTable'.size = Len(keys)
  BY <1>1 DEF Core, TableInv
<1> QED BY <1>2, <1>3 DEF PickInv

LEMMA PickInvNext ==
  ASSUME IInv, PickInv, [Next]_vars
  PROVE  PickInv'
<1>0. Core /\ ListInv(ctx) /\ ContextOK(ctx) /\ ctx \in Context
  BY CtxKeeps DEF IInv, PickInv, ContextOK
<1>1. PickStep => PickInv'
  BY DEF PickStep, PickInv, Kept
<1>2. ctx' = ctx /\ iTable' = iTable => PickInv'
  BY <1>0, <1>1, SamePicks
<1>3. ASSUME NEW e \in KeyEvents, ProcessKey(e[1], e[2]) PROVE PickInv'
  <2>1. Ignore \/ Dispatch(e[1], e[2])
    BY <1>3 DEF ProcessKey
  <2> QED BY <1>0, <1>1, <2>1, IgnorePicks, DispatchPicks
<1>4. CASE Clear \/ ForceCommit
  <2> DEFINE c == PreEditCleared(ctx)
  <2>1. Kept(ctx, c) /\ c \in Context
    BY <1>0, ClearedKept DEF ContextOK
  <2>2. ctx' = Ack(c) /\ iTable' = iTable
    BY <1>4 DEF Clear, ForceCommit
  <2> HIDE DEF c
  <2>3. Kept(ctx, ctx')
    BY <2>1, <2>2, AckKept
  <2> QED BY <1>1, <2>2, <2>3 DEF PickStep
<1>5. ASSUME NEW chi \in BOOLEAN, SetChiEngMode(chi) PROVE PickInv'
  <2> DEFINE d == ChiEngSet(ctx, chi)
  <2>1. Kept(ctx, d) /\ d \in Context
    BY <1>0, CtxKeeps, ChiEngSetKeeps, ChiEngSetKept DEF KeepsList, ContextOK
  <2>2. Leave(d, UpdatesText(ctx, chi)) /\ iTable' = iTable
    BY <1>5 DEF SetChiEngMode
  <2> HIDE DEF d
  <2> QED BY <1>1, <2>1, <2>2, LeavePicks
<1>6. ASSUME NEW full \in BOOLEAN, SetFullHalfMode(full) PROVE PickInv'
  <2> DEFINE drops == ctx.chi /\ ctx.bpmf > 0
             c == IF drops THEN BopomofoCleared(ctx) ELSE ctx
             d == [c EXCEPT !.full = full]
  <2>1. Kept(ctx, c) /\ c \in Context
    BY <1>0, ClearedKept DEF ContextOK, Kept
  <2>2. Leave(d, drops /\ ClosedList(ctx).bpmf > 0) /\ iTable' = iTable
    BY <1>6 DEF SetFullHalfMode
  <2> HIDE DEF c
  <2>3. Kept(ctx, d) /\ d \in Context
    BY <2>1 DEF Kept, ListInv, Choosing, Context
  <2> HIDE DEF d
  <2> QED BY <1>1, <2>2, <2>3, LeavePicks
<1>7. ASSUME NEW keys \in SelKeySets, Resize(keys) PROVE PickInv'
  BY <1>0, <1>7, ResizePicks
<1>8. CASE ClearOutgoing \/ Tick \/ UNCHANGED vars
  BY <1>2, <1>8 DEF ClearOutgoing, Tick, vars, text
<1> QED BY <1>3, <1>4, <1>5, <1>6, <1>7, <1>8 DEF Next

LEMMA PickInvHolds == Spec => [](IInv /\ PickInv)
<1>1. Init => PickInv
  BY DEF Init, NewContext, PickInv, ListInv, Choosing
<1>2. IInv /\ PickInv /\ [Next]_vars => PickInv'
  BY PickInvNext
<1> QED BY <1>1, <1>2, InvariantHolds, PTL DEF Spec

\* No selection key is the upper or the lower case of another, which holds of
\* the strings the setup window offers.
SelKeysDistinct ==
  \A s \in SelKeySets : \A i, j \in 1..Len(s) :
    s[j] \in {s[i], ToUpper(s[i]), ToLower(s[i])} => i = j

LEMMA SelectsOnly ==
  ASSUME SelKeysDistinct, NEW c \in Context, NEW n \in 1..Len(c.selKeys), NEW m,
         NEW i \in SelIndices(c, KeySymFix(c, c.selKeys[n], m))
  PROVE  i = n
<1> DEFINE s == c.selKeys
<1>1. s \in SelKeySets /\ i \in 1..Len(s) /\ s[i] = KeySymFix(c, s[n], m)
  BY DEF SelIndices, Context
<1>2. KeySymFix(c, s[n], m) \in {s[n], ToUpper(s[n]), ToLower(s[n])}
  BY DEF KeySymFix
<1> QED BY <1>1, <1>2 DEF SelKeysDistinct

LEMMA ReturnHighlights ==
  ASSUME SelKeysDistinct, Core, PickInv
  PROVE  \/ ctx'.picked \in {0, CursorInPage + 1}
         \/ ctx.width # Len(ctx.selKeys)
         \/ ~\E e \in KeyEvents : e[1] = "Return" /\ ProcessKey(e[1], e[2])
<1> SUFFICES ASSUME ctx.width = Len(ctx.selKeys),
                    NEW e \in KeyEvents, e[1] = "Return", ProcessKey(e[1], e[2])
             PROVE  ctx'.picked \in {0, CursorInPage + 1}
  OBVIOUS
<1>1. /\ ListInv(ctx) /\ ctx \in Context
      /\ iTable.size = Len(ctx.selKeys) /\ iTable.cur \in Nat
      /\ Len(ctx.selKeys) \in Nat \ {0}
  BY CtxKeeps, KeysAreFinite DEF PickInv, ContextOK, Core, TableInv
<1>2. CASE ctx' = ctx
  BY <1>1, <1>2 DEF ListInv
<1>3. CASE Choosing(ctx) /\ ctx'.picked \in
             SelIndices(ctx, KeySymFix(ctx, ctx.selKeys[CursorInPage + 1], e[2]))
  <2>1. iTable.cur % iTable.size \in 0..(iTable.size - 1)
    BY <1>1
  <2>2. CursorInPage + 1 \in 1..Len(ctx.selKeys)
    BY <1>1, <2>1 DEF CursorInPage
  <2> QED BY <1>1, <1>3, <2>2, SelectsOnly
<1>4. Ignore \/ Dispatch("Return", e[2])
  BY DEF ProcessKey
<1>5. Dispatch("Return", e[2]) => HandleReturn(e[2])
  BY RuleOfKey
<1> QED BY <1>1, <1>2, <1>3, <1>4, <1>5, ReturnPicks, IgnorePicks

\* Return chooses the highlighted candidate or none (preedit.c 481-501): the
\* cursor of the table, taken modulo a page size that may have changed since the
\* list was opened, still names the selection key of that place.
THEOREM ReturnChoosesHighlighted ==
  ASSUME SelKeysDistinct
  PROVE  Spec => ReturnPicksHighlighted
<1>1. IInv /\ PickInv =>
        \/ ctx'.picked \in {0, CursorInPage + 1}
        \/ ctx.width # Len(ctx.selKeys)
        \/ ~\E e \in KeyEvents : e[1] = "Return" /\ ProcessKey(e[1], e[2])
  BY ReturnHighlights DEF IInv
<1> QED BY <1>1, PickInvHolds, PTL DEF ReturnPicksHighlighted

-----------------------------------------------------------------------------
(* English mode. *)

InEnglish == ~ctx.chi /\ ~ctx.full /\ Idle

\* What EnglishStaysOut asks of a step.
StaysOut == ~ctx'.chi /\ ~ctx'.full => preEdit' = <<>> /\ outgoing' <= outgoing

LEMMA UntouchedStaysOut ==
  ASSUME Core, InEnglish, preEdit' = preEdit, outgoing' = outgoing
  PROVE  StaysOut
<1>1. outgoing \in Nat
  BY DEF Core, TextInv
<1> QED BY <1>1 DEF InEnglish, Idle, StaysOut

LEMMA IgnoreStaysOut ==
  ASSUME Core, InEnglish, Ignore
  PROVE  StaysOut
  BY UntouchedStaysOut DEF Ignore, text

\* Shift+space makes the shape full or does nothing.
LEMMA SpaceStaysOut ==
  ASSUME Core, InEnglish, HandleSpace({"Shift"})
  PROVE  StaysOut
<1>1. Masked({"Shift"}) = {"Shift"}
  BY DEF Masked
<1>2. PICK c \in ShiftSpace(ctx) : Process(c)
  BY <1>1 DEF HandleSpace
<1>3. ContextOK(ctx) /\ preEdit = Render(ctx) /\ outgoing \in Nat
  BY DEF Core, TextInv, PreEditMirrorsContext
<1> DEFINE f == Fresh(ctx)
<1>4. /\ ContextOK(f) /\ SameText(ctx, f) /\ f.cur = ctx.cur /\ f.commit = 0
  BY <1>3, FreshSound
<1>5. c = [f EXCEPT !.full = ~ctx.full] \/ c = f
  BY <1>2 DEF ShiftSpace
<1> HIDE DEF f
<1>6. CASE c = f
  <2>1. Render(c) = Render(ctx)
    BY <1>4, <1>6, RenderSame DEF SameText
  <2>2. preEdit' = preEdit /\ outgoing' = outgoing + 0
    BY <1>2, <1>3, <1>4, <1>6, <2>1 DEF Process, Update
  <2>3. outgoing' = outgoing
    BY <1>3, <2>2
  <2> QED BY <2>2, <2>3, UntouchedStaysOut
<1>7. CASE c = [f EXCEPT !.full = ~ctx.full]
  <2>1. ctx' = [c EXCEPT !.commit = 0]
    BY <1>2 DEF Process, Update, Ack
  <2>2. ctx'.full = ~ctx.full
    BY <1>4, <1>7, <2>1 DEF ContextOK, Context
  <2>3. ctx'.full
    BY <2>2, Zenon DEF InEnglish
  <2> QED BY <2>3 DEF StaysOut
<1> QED BY <1>5, <1>6, <1>7

\* Caps Lock returns to Chinese or does nothing.
LEMMA CapsLockStaysOut ==
  ASSUME Core, InEnglish, NEW m, HandleCapsLock(m)
  PROVE  StaysOut
<1>1. CASE Ignore
  BY <1>1, IgnoreStaysOut
<1>2. CASE \E d \in Capslock(ctx) : Process(d)
  <2>1. PICK d \in Capslock(ctx) : Process(d)
    BY <1>2
  <2>2. Yields(ctx, d) /\ d.chi = ~ctx.chi
    BY CtxKeeps, CapslockYields DEF InEnglish
  <2>3. ctx'.chi = d.chi
    BY <2>1, <2>2, ProcessCore
  <2>4. ctx'.chi
    BY <2>2, <2>3, Zenon DEF InEnglish
  <2> QED BY <2>4 DEF StaysOut
<1>3. ~DropsBopomofo(ctx, FALSE)
  BY DEF DropsBopomofo, InEnglish
<1> QED BY <1>1, <1>2, <1>3 DEF HandleCapsLock

\* A Shift returns to Chinese or does nothing.
LEMMA ShiftStaysOut ==
  ASSUME Core, InEnglish, NEW m, NEW toggles, HandleShift(m, toggles)
  PROVE  StaysOut
<1>1. CASE Ignore
  BY <1>1, IgnoreStaysOut
<1>2. CASE /\ Leave(ChiEngSet(ctx, ~ctx.chi), UpdatesText(ctx, ~ctx.chi))
           /\ UNCHANGED <<iTable, tableShow>>
  <2>1. Leave(ChiEngSet(ctx, TRUE), UpdatesText(ctx, TRUE))
    <3>1. ~ctx.chi = TRUE
      BY Zenon DEF InEnglish
    <3> QED BY <1>2, <3>1
  <2> DEFINE d == ChiEngSet(ctx, TRUE)
             u == UpdatesText(ctx, TRUE)
  <2>2. KeepsList(d) /\ d.commit = 0 /\ (u \/ d.bpmf = ctx.bpmf) /\ u \in BOOLEAN /\ d.chi = TRUE
    BY CtxKeeps, ChiEngSetKeeps
  <2>3. Leave(d, u)
    BY <2>1
  <2> HIDE DEF d, u
  <2>4. ctx'.chi = d.chi
    BY <1>2, <2>2, <2>3, LeaveCore
  <2>5. ctx'.chi
    BY <2>2, <2>4, Zenon
  <2> QED BY <2>5 DEF StaysOut
<1> QED BY <1>1, <1>2 DEF HandleShift

\* The keys that are not bypassed in English mode are these.
LEMMA KeyStaysOut ==
  ASSUME Core, InEnglish, NEW k, NEW m, ProcessKey(k, m)
  PROVE  StaysOut
<1>1. CASE Ignore
  BY <1>1, IgnoreStaysOut
<1>2. CASE ~Bypassed(k, m) /\ Dispatch(k, m)
  <2>1. \/ k = "space" /\ m = {"Shift"}
        \/ k = "Caps_Lock"
        \/ k \in ShiftKeys
    BY <1>2 DEF Bypassed, ShiftToggle, InEnglish
  <2>2. CASE k = "space" /\ m = {"Shift"}
    BY <1>2, <2>2, RuleOfKey, SpaceStaysOut
  <2>3. CASE k = "Caps_Lock"
    BY <1>2, <2>3, RuleOfKey, CapsLockStaysOut
  <2>4. CASE k \in ShiftKeys
    BY <1>2, <2>4, RuleOfKey, ShiftStaysOut DEF HandleShiftLeft, HandleShiftRight
  <2> QED BY <2>1, <2>2, <2>3, <2>4
<1> QED BY <1>1, <1>2 DEF ProcessKey

\* In half-shape English with nothing pending no key but a change of the mode
\* starts a text or commits one (preedit.c 776-784), and no other call does.
THEOREM EnglishIsLeftAlone == Spec => EnglishStaysOut
<1>1. IInv /\ [Next]_vars =>
        [~ctx.chi /\ ~ctx.full /\ Idle /\ ~ctx'.chi /\ ~ctx'.full
           => preEdit' = <<>> /\ outgoing' <= outgoing]_vars
  <2> SUFFICES ASSUME IInv, Next, InEnglish, ~ctx'.chi
               PROVE  StaysOut
    BY DEF vars, InEnglish, StaysOut
  <2>0. Core /\ outgoing \in Nat /\ preEdit = <<>>
    BY DEF IInv, Core, TextInv, InEnglish, Idle
  <2>1. ASSUME NEW e \in KeyEvents, ProcessKey(e[1], e[2]) PROVE StaysOut
    BY <2>0, <2>1, KeyStaysOut
  <2>2. CASE Clear
    <3>1. preEdit' = <<>> /\ outgoing' = 0
      BY <2>0, <2>2, ClearStep
    <3> QED BY <2>0, <3>1 DEF StaysOut
  <2>3. CASE ForceCommit
    <3>1. Core' /\ Nothing(ctx')
      BY <2>0, <2>3, ForceCommitStep
    <3>2. preEdit' = <<>>
      BY <3>1, RenderOfNothing DEF Core, TextInv, PreEditMirrorsContext
    <3>3. Len(preEdit) = 0
      BY <2>0
    <3>4. outgoing' = outgoing + 0 + 0
      BY <2>0, <2>3, <3>3, CtxClears DEF ForceCommit
    <3> QED BY <2>0, <3>2, <3>4 DEF StaysOut
  <2>4. ASSUME NEW chi \in BOOLEAN, SetChiEngMode(chi) PROVE StaysOut
    <3>1. chi = FALSE
      BY <2>0, <2>4, SetChiEngModeStep
    <3>2. UpdatesText(ctx, chi) = FALSE
      BY DEF UpdatesText, DropsBopomofo, InEnglish
    <3>3. preEdit' = preEdit /\ outgoing' = outgoing
      BY <2>4, <3>2 DEF SetChiEngMode, Leave
    <3> QED BY <2>0, <3>3, UntouchedStaysOut
  <2>5. ASSUME NEW full \in BOOLEAN, SetFullHalfMode(full) PROVE StaysOut
    <3>1. preEdit' = preEdit /\ outgoing' = outgoing
      BY <2>5 DEF SetFullHalfMode, Leave, InEnglish
    <3> QED BY <2>0, <3>1, UntouchedStaysOut
  <2>6. CASE (\E keys \in SelKeySets : Resize(keys)) \/ Tick
    <3>1. preEdit' = preEdit /\ outgoing' = outgoing
      BY <2>6 DEF Resize, Tick, text
    <3> QED BY <2>0, <3>1, UntouchedStaysOut
  <2>7. CASE ClearOutgoing
    BY <2>0, <2>7 DEF ClearOutgoing, StaysOut
  <2> QED BY <2>1, <2>2, <2>3, <2>4, <2>5, <2>6, <2>7 DEF Next
<1> QED BY <1>1, InvariantHolds, PTL DEF Spec, EnglishStaysOut

-----------------------------------------------------------------------------
(* The settings under which two claims the runs refute are true. *)

LEMMA ShiftNotifies ==
  ASSUME Core, KeyInv, NEW m, NEW toggles, HandleShift(m, toggles)
  PROVE  ctx'.chi = ctx.chi \/ pending'.chi
<1>1. CASE Ignore
  BY <1>1 DEF Ignore, text
<1>2. CASE pending' = [pending EXCEPT !.chi = TRUE]
  BY <1>2 DEF KeyInv
<1> QED BY <1>1, <1>2 DEF HandleShift

\* Every change of the language by a key is notified unless the toggle key is
\* Caps Lock: handle_caps_lock sends no notification (preedit.c 337-356), the two
\* Shift handlers do (388, 422).
THEOREM ShiftChangeIsNotified ==
  ASSUME \A f \in Confs : f.toggle # "c"
  PROVE  Spec => ChiNotifiedByKeys
<1>1. IInv =>
        (ctx'.chi # ctx.chi /\ (\E e \in KeyEvents : ProcessKey(e[1], e[2])) => pending'.chi)
  <2> SUFFICES ASSUME IInv, ctx'.chi # ctx.chi, NEW e \in KeyEvents, ProcessKey(e[1], e[2])
               PROVE  pending'.chi
    OBVIOUS
  <2>1. Core /\ KeyInv /\ conf.toggle # "c"
    BY DEF IInv, KeyInv
  <2>2. e[1] \in ShiftKeys
    BY <2>1, ProcessKeyStep DEF TogglesBy
  <2>3. Ignore \/ Dispatch(e[1], e[2])
    BY DEF ProcessKey
  <2>4. CASE Ignore
    BY <2>4 DEF Ignore, text
  <2>5. CASE Dispatch(e[1], e[2])
    BY <2>1, <2>2, <2>5, RuleOfKey, ShiftNotifies DEF HandleShiftLeft, HandleShiftRight
  <2> QED BY <2>3, <2>4, <2>5
<1> QED BY <1>1, InvariantHolds, PTL DEF ChiNotifiedByKeys

\* No selection key is an upper case letter, nor a lower case one where Caps
\* Lock toggles to an English mode of capitals.
SelKeysUnshifted ==
  \A s \in SelKeySets : \A i \in DOMAIN s :
    /\ ToLower(s[i]) = s[i]
    /\ \A f \in Confs : f.toggle = "c" /\ f.case = "u" => ToUpper(s[i]) = s[i]

\* Then the key that reaches libchewing is the selection key pressed: the case
\* of key_sym_fix (preedit.c 199-238) is the only thing that comes between.
THEOREM UnshiftedKeysSelect ==
  ASSUME SelKeysUnshifted
  PROVE  Spec => []SelectionKeyReachesList
<1>1. IInv => SelectionKeyReachesList
  <2> SUFFICES ASSUME IInv, NEW i \in DOMAIN ctx.selKeys
               PROVE  KeySymFix(ctx, ctx.selKeys[i], {}) = ctx.selKeys[i]
    BY DEF SelectionKeyReachesList
  <2>1. ctx.selKeys \in SelKeySets /\ conf \in Confs
    BY CtxKeeps DEF IInv, KeyInv, ContextOK, Context
  <2>2. /\ ToLower(ctx.selKeys[i]) = ctx.selKeys[i]
        /\ conf.toggle = "c" /\ conf.case = "u" => ToUpper(ctx.selKeys[i]) = ctx.selKeys[i]
    BY <2>1 DEF SelKeysUnshifted
  <2> QED BY <2>2 DEF KeySymFix
<1> QED BY <1>1, InvariantHolds, PTL
=============================================================================
