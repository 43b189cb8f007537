---------------------------- MODULE EngineProofs ----------------------------
(***************************************************************************)
(* Proofs about the engine around the pre-edit component, for every        *)
(* keyboard, every setting and every order of IBus' calls: its safety      *)
(* invariants, and that it implements InputMethod.                         *)
(***************************************************************************)
EXTENDS Engine, PreEditProofs, FiniteSetTheorems

Focused == "FOCUS_IN" \in statusFlags

\* A key is processed only for a client in focus and in no password field.
StageInv ==
  /\ stage = "idle" => outgoing = 0
  /\ stage # "idle" => Focused /\ ~IsPassword

\* What the client shows, once the handler is over.
ShownInv ==
  /\ ~Focused => display = Blank
  /\ Focused /\ stage = "idle" => Characters(display.preEdit) = ctx.buf

\* The inductive invariant.  Enabling the engine may catch a bopomofo in
\* English mode, so of PreEdit's it keeps Core and KeyInv alone.
EngineInv == Core /\ KeyInv /\ EngineTypeOK /\ StageInv /\ ShownInv

-----------------------------------------------------------------------------
(* The text a client is shown. *)

LEMMA IntervalSize ==
  ASSUME NEW a \in Nat, NEW b \in Nat, a <= b + 1
  PROVE  IsFiniteSet(a..b) /\ Cardinality(a..b) = b - a + 1
<1>1. IsFiniteSet(a..b) /\ Cardinality(a..b) = IF a > b THEN 0 ELSE b - a + 1
  BY FS_Interval
<1> QED BY <1>1

LEMMA Repeated ==
  ASSUME NEW n \in Nat, NEW v \in {"zi", "bpmf"}
  PROVE  LET r == [i \in 1..n |-> v] IN
         /\ r \in Seq({"zi", "bpmf"}) /\ Len(r) = n
         /\ \A i \in 1..n : r[i] = v
<1> DEFINE r == [i \in 1..n |-> v]
<1>1. r \in Seq({"zi", "bpmf"})
  BY RepeatTyped, SeqMonotonic
<1>2. DOMAIN r = 1..n
  OBVIOUS
<1>3. Len(r) = n
  BY <1>1, <1>2
<1> QED BY <1>1, <1>3

LEMMA CountTyped ==
  ASSUME NEW t \in Seq({"zi", "bpmf"})
  PROVE  Characters(t) \in Nat
<1> DEFINE S == {i \in DOMAIN t : t[i] = "zi"}
<1>1. DOMAIN t = 1..Len(t) /\ Len(t) \in Nat
  OBVIOUS
<1>2. IsFiniteSet(1..Len(t))
  BY <1>1, FS_Interval
<1>3. S \in SUBSET (1..Len(t))
  BY <1>1
<1>4. IsFiniteSet(S)
  BY <1>2, <1>3, FS_Subset
<1> QED BY <1>4, FS_CardinalityType DEF Characters

LEMMA TwoParts ==
  ASSUME NEW x \in Seq({"zi", "bpmf"}), \A i \in 1..Len(x) : x[i] = "zi",
         NEW y \in Seq({"zi", "bpmf"}), \A i \in 1..Len(y) : y[i] = "bpmf"
  PROVE  /\ x \o y \in Seq({"zi", "bpmf"}) /\ Len(x) <= Len(x \o y)
         /\ \A i \in 1..Len(x \o y) : (x \o y)[i] = "zi" <=> i <= Len(x)
<1> DEFINE t == x \o y
<1>1. /\ t \in Seq({"zi", "bpmf"}) /\ Len(t) = Len(x) + Len(y)
      /\ \A i \in 1..(Len(x) + Len(y)) : t[i] = IF i <= Len(x) THEN x[i] ELSE y[i - Len(x)]
  BY ConcatProperties
<1> HIDE DEF t
<1>2. ASSUME NEW i \in 1..Len(t) PROVE t[i] = "zi" <=> i <= Len(x)
  <2>1. CASE i <= Len(x)
    BY <1>1, <2>1
  <2>2. CASE ~(i <= Len(x))
    <3>1. i - Len(x) \in 1..Len(y) /\ t[i] = y[i - Len(x)]
      BY <1>1, <2>2
    <3>2. t[i] = "bpmf"
      BY <3>1
    <3> QED BY <2>2, <3>2
  <2> QED BY <2>1, <2>2
<1> QED BY <1>1, <1>2 DEF t

LEMMA CharactersOfTwo ==
  ASSUME NEW p \in Nat, NEW t \in Seq({"zi", "bpmf"}), p <= Len(t),
         \A i \in 1..Len(t) : t[i] = "zi" <=> i <= p
  PROVE  Characters(t) = p
<1> DEFINE S == {i \in DOMAIN t : t[i] = "zi"}
<1>1. DOMAIN t = 1..Len(t) /\ Len(t) \in Nat
  OBVIOUS
<1>2. S = 1..p
  BY <1>1
<1>3. Cardinality(1..p) = p
  BY IntervalSize
<1> QED BY <1>2, <1>3 DEF Characters

LEMMA TwoSpans ==
  ASSUME NEW p \in Nat, NEW n \in Nat, NEW m \in Nat, p < m
  PROVE  Cardinality((1..p) \cup (m..(m + n - 1))) = p + n
<1>1. IsFiniteSet(1..p) /\ Cardinality(1..p) = p
  BY IntervalSize
<1>2. m + n - 1 \in Nat /\ m <= (m + n - 1) + 1
  OBVIOUS
<1>3. /\ IsFiniteSet(m..(m + n - 1))
      /\ Cardinality(m..(m + n - 1)) = (m + n - 1) - m + 1
  BY <1>2, IntervalSize
<1>4. (m + n - 1) - m + 1 = n
  OBVIOUS
<1>5. (1..p) \cap (m..(m + n - 1)) = {}
  OBVIOUS
<1> DEFINE A == 1..p
           B == m..(m + n - 1)
<1>6. /\ IsFiniteSet(A) /\ Cardinality(A) = p
      /\ IsFiniteSet(B) /\ Cardinality(B) = n /\ A \cap B = {}
  BY <1>1, <1>3, <1>4, <1>5
<1> HIDE DEF A, B
<1>7. Cardinality(A \cup B) = Cardinality(A) + Cardinality(B) - Cardinality(A \cap B)
  BY <1>6, FS_Union
<1>8. Cardinality(A \cap B) = 0
  BY <1>6, FS_EmptySet
<1>9. Cardinality(A \cup B) = p + n
  BY <1>6, <1>7, <1>8
<1> QED BY <1>9 DEF A, B

LEMMA CharactersOfThree ==
  ASSUME NEW p \in Nat, NEW w \in Seq({"zi", "bpmf"}), p <= Len(w),
         \A i \in 1..Len(w) : w[i] = "zi" <=> i <= p,
         NEW y \in Seq({"zi", "bpmf"}), \A i \in 1..Len(y) : y[i] = "zi"
  PROVE  Characters(w \o y) = p + Len(y)
<1> DEFINE t == w \o y
<1>1. /\ t \in Seq({"zi", "bpmf"}) /\ Len(t) = Len(w) + Len(y)
      /\ \A i \in 1..(Len(w) + Len(y)) : t[i] = IF i <= Len(w) THEN w[i] ELSE y[i - Len(w)]
  BY ConcatProperties
<1> HIDE DEF t
<1>2. PICK l \in Nat, n \in Nat : l = Len(w) /\ n = Len(y)
  OBVIOUS
<1> DEFINE S == {i \in DOMAIN t : t[i] = "zi"}
<1>3. DOMAIN t = 1..(l + n)
  BY <1>1, <1>2
<1>4. ASSUME NEW i \in 1..(l + n) PROVE t[i] = "zi" <=> i <= p \/ i > l
  <2>1. CASE i <= l
    <3>1. i \in 1..Len(w) /\ t[i] = w[i]
      BY <1>1, <1>2, <2>1
    <3> QED BY <1>2, <2>1, <3>1
  <2>2. CASE ~(i <= l)
    <3>1. i - l \in 1..Len(y) /\ t[i] = y[i - l]
      BY <1>1, <1>2, <2>2
    <3> QED BY <2>2, <3>1
  <2> QED BY <2>1, <2>2
<1>5. S = (1..p) \cup ((l + 1)..(l + 1 + n - 1))
  BY <1>2, <1>3, <1>4
<1>6. l + 1 \in Nat /\ p < l + 1
  BY <1>2
<1>7. Cardinality((1..p) \cup ((l + 1)..(l + 1 + n - 1))) = p + n
  BY <1>6, TwoSpans
<1> QED BY <1>2, <1>5, <1>7 DEF Characters, t

\* The characters of a text are those of the buffer.
LEMMA CharactersOfText ==
  ASSUME NEW c, ContextOK(c)
  PROVE  Characters(Render(c)) = c.buf
<1> DEFINE zi(n) == [i \in 1..n |-> "zi"]
           b == [i \in 1..c.bpmf |-> "bpmf"]
<1>1. c.buf \in Nat /\ c.cur \in Nat /\ c.bpmf \in Nat /\ c.cur <= c.buf
  BY Sizes DEF ContextOK, Context
<1>2. b \in Seq({"zi", "bpmf"}) /\ (\A i \in 1..Len(b) : b[i] = "bpmf")
  BY <1>1, Repeated
<1>3. ASSUME NEW n \in Nat
      PROVE  /\ zi(n) \in Seq({"zi", "bpmf"}) /\ Len(zi(n)) = n
             /\ \A i \in 1..Len(zi(n)) : zi(n)[i] = "zi"
  BY Repeated
<1>4. Render(c) = IF c.cur < c.buf THEN (zi(c.cur) \o b) \o zi(c.buf - c.cur)
                                   ELSE zi(c.buf) \o b
  BY DEF Render
<1> HIDE DEF zi, b
<1>5. CASE c.cur < c.buf
  <2>1. PICK n \in Nat : n = c.buf - c.cur
    BY <1>1
  <2>2. PICK x \in Seq({"zi", "bpmf"}) :
          x = zi(c.cur) /\ Len(x) = c.cur /\ \A i \in 1..Len(x) : x[i] = "zi"
    BY <1>1, <1>3
  <2>3. PICK y \in Seq({"zi", "bpmf"}) :
          y = zi(n) /\ Len(y) = n /\ \A i \in 1..Len(y) : y[i] = "zi"
    BY <1>3
  <2>4. PICK w \in Seq({"zi", "bpmf"}) :
          w = x \o b /\ c.cur <= Len(w) /\ \A i \in 1..Len(w) : w[i] = "zi" <=> i <= c.cur
    <3>1. /\ x \o b \in Seq({"zi", "bpmf"}) /\ Len(x) <= Len(x \o b)
          /\ \A i \in 1..Len(x \o b) : (x \o b)[i] = "zi" <=> i <= Len(x)
      BY ONLY <1>2, <2>2, TwoParts
    <3> QED BY <2>2, <3>1
  <2>5. Render(c) = w \o y
    BY <1>4, <1>5, <2>1, <2>2, <2>3, <2>4
  <2>6. Characters(w \o y) = c.cur + Len(y)
    BY <1>1, <2>4, <2>3, CharactersOfThree
  <2> QED BY <1>1, <2>1, <2>3, <2>5, <2>6
<1>6. CASE ~(c.cur < c.buf)
  <2>1. PICK x \in Seq({"zi", "bpmf"}) :
          x = zi(c.buf) /\ Len(x) = c.buf /\ \A i \in 1..Len(x) : x[i] = "zi"
    BY <1>1, <1>3
  <2>2. PICK t \in Seq({"zi", "bpmf"}) :
          t = x \o b /\ c.buf <= Len(t) /\ \A i \in 1..Len(t) : t[i] = "zi" <=> i <= c.buf
    <3>1. /\ x \o b \in Seq({"zi", "bpmf"}) /\ Len(x) <= Len(x \o b)
          /\ \A i \in 1..Len(x \o b) : (x \o b)[i] = "zi" <=> i <= Len(x)
      BY ONLY <1>2, <2>1, TwoParts
    <3> QED BY <2>1, <3>1
  <2>3. Render(c) = t
    BY <1>4, <1>6, <2>1, <2>2
  <2> QED BY <1>1, <2>2, <2>3, CharactersOfTwo
<1> QED BY <1>5, <1>6

LEMMA BlankIsEmpty ==
  /\ Characters(Blank.preEdit) = 0
  /\ Blank \in [preEdit : Seq({"zi", "bpmf"}), cursor : Nat, table : BOOLEAN,
                aux : {"", "message", "Chinese", "English", "Fullwidth",
                       "Halfwidth", "page"}]
<1>1. {i \in DOMAIN <<>> : <<>>[i] = "zi"} = {}
  OBVIOUS
<1>2. Characters(<<>>) = 0
  BY <1>1, FS_EmptySet DEF Characters
<1>3. <<>> \in Seq({"zi", "bpmf"}) /\ FALSE \in BOOLEAN
  OBVIOUS
<1> QED BY <1>2, <1>3 DEF Blank

LEMMA NothingHasNoText ==
  ASSUME NEW c, ContextOK(c), Nothing(c)
  PROVE  c.buf = 0 /\ c.pages = 0 /\ ~Caught(c)
  BY Sizes DEF ContextOK, Context, Nothing, Choosing, Caught

-----------------------------------------------------------------------------
(* Pieces of the handlers. *)

\* What a handler leaves typed: the parts of EngineTypeOK it may change.
LEMMA AuxTextTyped ==
  ASSUME NEW c, NEW p
  PROVE  AuxText(c, p) \in {"", "message", "Chinese", "English", "Fullwidth",
                            "Halfwidth", "page"}
  BY DEF AuxText

LEMMA PendingLeftTyped ==
  ASSUME NEW c, NEW p \in [chi : BOOLEAN, full : BOOLEAN]
  PROVE  PendingLeft(c, p) \in [chi : BOOLEAN, full : BOOLEAN]
  BY DEF PendingLeft

LEMMA RestoreModeKeeps ==
  ASSUME Core, capsOn \in BOOLEAN
  PROVE  LET c == RestoreMode(ctx) IN
         /\ KeepsList(c) /\ c.commit = 0 /\ c.bpmf = ctx.bpmf
         /\ ContextOK(c) /\ (Choosing(c) => tableShow)
<1>1. KeepsList(ctx) /\ ctx.commit = 0 /\ ContextOK(ctx) /\ (Choosing(ctx) => tableShow)
  BY CtxKeeps, CtxClears
<1>2. PICK chi \in BOOLEAN : chi = ~capsOn
  BY Zenon
<1> DEFINE d == [ctx EXCEPT !.chi = chi]
<1>3. /\ KeepsList(d) /\ d.commit = 0 /\ d.bpmf = ctx.bpmf
      /\ ContextOK(d) /\ (Choosing(d) => tableShow)
  BY <1>1, ModeSound DEF KeepsList
<1>4. RestoreMode(ctx) = d \/ RestoreMode(ctx) = ctx
  BY <1>2 DEF RestoreMode
<1> HIDE DEF d
<1> QED BY <1>1, <1>3, <1>4

\* A clear within a handler of the engine.
LEMMA ClearFromStep ==
  ASSUME Core, NEW c, ContextOK(c), Choosing(c) => tableShow, ClearFrom(c),
         UNCHANGED <<iTable, tableShow>>
  PROVE  /\ Core' /\ Nothing(ctx') /\ preEdit' = <<>> /\ outgoing' = 0
         /\ ctx'.chi = c.chi /\ ctx'.buf = 0 /\ ctx'.pages = 0 /\ ~Caught(ctx')
<1>1. tableShow \in BOOLEAN
  BY DEF Core, TableInv
<1>2. outgoing' = 0
  BY <1>1, PreEditClearedSound DEF ClearFrom
<1>3. outgoing' \in Nat
  BY <1>2
<1>4. Core' /\ Nothing(ctx') /\ preEdit' = <<>> /\ ctx'.chi = c.chi
  BY <1>3, ClearedCore DEF ClearFrom
<1>5. ctx'.buf = 0 /\ ctx'.pages = 0 /\ ~Caught(ctx')
  BY <1>4, NothingHasNoText DEF Core, TextInv
<1> QED BY <1>2, <1>4, <1>5

LEMMA PanelRefreshed ==
  ASSUME NEW c, c.chi \in BOOLEAN, c.full \in BOOLEAN,
         panel \in [chi : BOOLEAN, full : BOOLEAN],
         NEW flags, RefreshPropertyList(c, flags)
  PROVE  panel' \in [chi : BOOLEAN, full : BOOLEAN] /\ panel'.chi = c.chi
<1>1. panel.full \in BOOLEAN
  OBVIOUS
<1>2. CASE "REGISTERED" \in flags
  <2>1. panel' = [chi |-> c.chi, full |-> c.full]
    BY <1>2 DEF RefreshPropertyList
  <2> QED BY <2>1
<1>3. CASE "REGISTERED" \notin flags
  <2>1. panel' = [chi |-> c.chi, full |-> panel.full]
    BY <1>3 DEF RefreshPropertyList
  <2> QED BY <1>1, <2>1
<1> QED BY <1>2, <1>3

LEMMA KeyRecordKept ==
  ASSUME KeyInv, UNCHANGED <<keyLast, held, consumed, conf>>,
         pending' \in [chi : BOOLEAN, full : BOOLEAN]
  PROVE  KeyInv'
  BY DEF KeyInv

-----------------------------------------------------------------------------
(* The handlers that process a key. *)

\* A key that was handed to the pre-edit component, or kept from it.
KeyTaken ==
  /\ HasFocus /\ sent' = 0 /\ capsOn' \in BOOLEAN
  /\ UNCHANGED <<statusFlags, prefs, panel, display>>
  /\ \/ /\ stage' = "idle" /\ consumed' \in BOOLEAN
        /\ UNCHANGED <<text, iTable, tableShow, keyLast, held, pending, conf>>
     \/ /\ ~IsPassword
        /\ stage' \in {"update", "update and refresh"}
        /\ Stepped /\ KeyInv'
        /\ ctx'.chi = ctx.chi \/ stage' = "update and refresh"

LEMMA KeyIsTaken ==
  ASSUME EngineInv, NEW k, NEW m, ~IsPassword, HasFocus, sent' = 0,
         UNCHANGED <<statusFlags, prefs, panel, display>>, capsOn' \in BOOLEAN,
         ProcessKey(k, m), stage' \in {"update", "update and refresh"},
         k \in RefreshingKeys => stage' = "update and refresh"
  PROVE  KeyTaken
<1>1. Stepped /\ KeyInv' /\ (ctx'.chi = ctx.chi \/ TogglesBy(k, m))
  BY ProcessKeyStep DEF EngineInv
<1>2. TogglesBy(k, m) => k \in RefreshingKeys
  BY DEF TogglesBy, RefreshingKeys
<1> QED BY <1>1, <1>2 DEF KeyTaken

LEMMA KeyEventIsTaken ==
  ASSUME EngineInv, NEW k, NEW m, ProcessKeyEvent(k, m)
  PROVE  KeyTaken
<1>1. HasFocus /\ sent' = 0 /\ UNCHANGED <<statusFlags, prefs, panel, display>>
  BY DEF ProcessKeyEvent
<1>2. capsOn' \in BOOLEAN
  <2>1. capsOn' = capsOn \/ capsOn' = ~capsOn
    BY DEF ProcessKeyEvent, Keyboard
  <2>2. capsOn \in BOOLEAN
    BY DEF EngineInv, EngineTypeOK
  <2>3. (~capsOn) \in BOOLEAN
    BY Zenon
  <2> QED BY <2>1, <2>2, <2>3
<1>3. \/ /\ stage' = "idle" /\ consumed' = FALSE
         /\ UNCHANGED <<text, iTable, tableShow, keyLast, held, pending, conf>>
      \/ /\ ~IsPassword /\ ProcessKey(k, m)
         /\ stage' = IF k \in RefreshingKeys THEN "update and refresh" ELSE "update"
  BY DEF ProcessKeyEvent
<1>4. CASE /\ stage' = "idle" /\ consumed' = FALSE
           /\ UNCHANGED <<text, iTable, tableShow, keyLast, held, pending, conf>>
  <2>1. consumed' \in BOOLEAN
    BY <1>4, Zenon
  <2> QED BY <1>1, <1>2, <1>4, <2>1 DEF KeyTaken
<1>5. CASE /\ ~IsPassword /\ ProcessKey(k, m)
           /\ stage' = IF k \in RefreshingKeys THEN "update and refresh" ELSE "update"
  BY <1>1, <1>2, <1>5, KeyIsTaken
<1> QED BY <1>3, <1>4, <1>5

\* A key that a button or a click stands for.
LEMMA ClickedKeyIsTaken ==
  ASSUME EngineInv, HasFocus, sent' = 0,
         UNCHANGED <<statusFlags, prefs, capsOn, panel, display>>,
         NEW k, k \notin RefreshingKeys,
         \/ UNCHANGED <<vars, stage>>
         \/ ~IsPassword /\ stage' = "update" /\ ProcessKey(k, {})
  PROVE  KeyTaken
<1>1. capsOn' \in BOOLEAN /\ consumed \in BOOLEAN /\ stage = "idle"
  BY DEF EngineInv, EngineTypeOK, KeyInv, HasFocus
<1>2. CASE UNCHANGED <<vars, stage>>
  BY <1>1, <1>2 DEF vars, text, KeyTaken
<1>3. CASE ~IsPassword /\ stage' = "update" /\ ProcessKey(k, {})
  BY <1>1, <1>3, KeyIsTaken
<1> QED BY <1>2, <1>3

LEMMA ButtonsAreTaken ==
  ASSUME EngineInv,
         PageUpButton \/ PageDownButton \/ CursorUpButton \/ CursorDownButton
  PROVE  KeyTaken
<1>1. PICK k \in {"Page_Up", "Page_Down", "Up", "Down"} : Button(k)
  BY DEF PageUpButton, PageDownButton, CursorUpButton, CursorDownButton
<1>2. k \notin RefreshingKeys
  BY DEF RefreshingKeys, ShiftKeys
<1> QED BY <1>1, <1>2, ClickedKeyIsTaken DEF Button

\* A click is a selection key, which is no key that changes the language.
LEMMA ClicksAreTaken ==
  ASSUME EngineInv, NEW i \in Nat, CandidateClicked(i)
  PROVE  KeyTaken
<1>1. /\ HasFocus /\ sent' = 0
      /\ UNCHANGED <<statusFlags, prefs, capsOn, panel, display>>
  BY DEF CandidateClicked
<1>2. CASE UNCHANGED <<vars, stage>>
  <2>1. "Up" \notin RefreshingKeys
    BY DEF RefreshingKeys, ShiftKeys
  <2> QED BY <1>1, <1>2, <2>1, ClickedKeyIsTaken
<1>3. CASE /\ Clickable(i) /\ stage' = "update" /\ ProcessKey(ctx.selKeys[i + 1], {})
  <2>1. i + 1 \in 1..Len(ctx.selKeys) /\ ctx.selKeys \in SelKeySets
    BY <1>3, ChewingAssumption
       DEF Clickable, EngineInv, Core, TextInv, ContextOK, Context, ChewingAssumption
  <2>2. ctx.selKeys[i + 1] \in DigitKeys \cup PrintableKeys
    BY <2>1, EngineAssumption DEF EngineAssumption
  <2>3. ctx.selKeys[i + 1] \notin RefreshingKeys
    BY <2>2, PreEditAssumption DEF RefreshingKeys, NamedKeys
  <2> QED BY <1>1, <1>3, <2>3, ClickedKeyIsTaken DEF Clickable
<1> QED BY <1>2, <1>3 DEF CandidateClicked

LEMMA KeyTakenStep ==
  ASSUME EngineInv, KeyTaken
  PROVE  EngineInv' /\ (Caught(ctx') => Caught(ctx))
<1>1. /\ Focused /\ stage = "idle" /\ outgoing = 0
      /\ Focused' /\ display' = display
  BY DEF KeyTaken, HasFocus, Focused, EngineInv, StageInv
<1>2. CASE /\ stage' = "idle" /\ consumed' \in BOOLEAN
           /\ UNCHANGED <<text, iTable, tableShow, keyLast, held, pending, conf>>
  <2>1. Core' /\ ctx' = ctx /\ outgoing' = 0
    BY <1>1, <1>2, UnchangedCore DEF EngineInv, text
  <2>2. KeyInv'
    BY <1>2 DEF EngineInv, KeyInv
  <2>3. EngineTypeOK'
    BY <1>2 DEF EngineInv, EngineTypeOK, KeyTaken
  <2>4. StageInv' /\ ShownInv'
    BY <1>1, <1>2, <2>1 DEF EngineInv, StageInv, ShownInv
  <2> QED BY <2>1, <2>2, <2>3, <2>4 DEF EngineInv
<1>3. CASE /\ ~IsPassword /\ stage' \in {"update", "update and refresh"}
           /\ Stepped /\ KeyInv'
  <2>1. Core' /\ (Caught(ctx') => Caught(ctx))
    BY <1>3 DEF Stepped
  <2>2. EngineTypeOK'
    BY <1>3 DEF EngineInv, EngineTypeOK, KeyTaken
  <2>3. ~IsPassword'
    BY <1>3 DEF KeyTaken, IsPassword
  <2>4. StageInv' /\ ShownInv'
    BY <1>1, <1>3, <2>3 DEF StageInv, ShownInv
  <2> QED BY <1>3, <2>1, <2>2, <2>4 DEF EngineInv
<1> QED BY <1>2, <1>3 DEF KeyTaken

LEMMA UpdateStep ==
  ASSUME EngineInv, EngineUpdate
  PROVE  EngineInv' /\ ctx' = ctx /\ sent' = outgoing /\ outgoing' = 0
<1>1. /\ Focused /\ ~IsPassword /\ Core /\ KeyInv /\ outgoing \in Nat
      /\ ContextOK(ctx) /\ preEdit = Render(ctx) /\ bpmfLen = ctx.bpmf
  BY DEF EngineUpdate, EngineInv, StageInv, Core, TextInv, PreEditMirrorsContext
<1>2. /\ UNCHANGED <<ctx, preEdit, bpmfLen, iTable, tableShow, keyLast, held,
                     consumed, conf, statusFlags, prefs, capsOn>>
      /\ stage' = "idle" /\ pending' = PendingLeft(ctx, pending)
  BY DEF EngineUpdate
<1>3. sent' = outgoing /\ outgoing' = 0
  <2>1. /\ sent' = (IF outgoing > 0 \/ ~Focused THEN outgoing ELSE 0)
        /\ outgoing' = 0
    BY DEF EngineUpdate, CommitText, Focused
  <2> QED BY <1>1, <2>1
<1>4. Core'
  BY <1>1, <1>2, <1>3, UnchangedCore
<1>5. KeyInv'
  <2>1. pending \in [chi : BOOLEAN, full : BOOLEAN]
    BY <1>1 DEF KeyInv
  <2> QED BY <1>1, <1>2, <2>1, PendingLeftTyped, KeyRecordKept
<1>6. /\ display' = [preEdit |-> preEdit, cursor |-> ctx.cur + bpmfLen,
                     aux |-> AuxText(ctx, pending), table |-> tableShow]
      /\ RefreshPropertyList(ctx, statusFlags) \/ panel' = panel
  BY DEF EngineUpdate, ShowText
<1>7. /\ preEdit \in Seq({"zi", "bpmf"}) /\ ctx.cur + bpmfLen \in Nat
      /\ tableShow \in BOOLEAN /\ ctx.chi \in BOOLEAN /\ ctx.full \in BOOLEAN
  <2>1. preEdit \in Seq({"zi", "bpmf"})
    BY <1>1, RenderTyped
  <2>2. /\ ctx.cur + bpmfLen \in Nat
        /\ ctx.chi \in BOOLEAN /\ ctx.full \in BOOLEAN
    BY <1>1, Sizes DEF ContextOK, Context
  <2>3. tableShow \in BOOLEAN
    BY <1>1 DEF Core, TableInv
  <2> QED BY <2>1, <2>2, <2>3
<1>8. EngineTypeOK'
  <2>1. panel' \in [chi : BOOLEAN, full : BOOLEAN]
    <3>1. panel \in [chi : BOOLEAN, full : BOOLEAN]
      BY DEF EngineInv, EngineTypeOK
    <3> QED BY <1>6, <1>7, <3>1, PanelRefreshed
  <2>2. display' \in [preEdit : Seq({"zi", "bpmf"}), cursor : Nat, table : BOOLEAN,
                      aux : {"", "message", "Chinese", "English", "Fullwidth",
                             "Halfwidth", "page"}]
    BY <1>6, <1>7, AuxTextTyped
  <2> QED BY <1>1, <1>2, <1>3, <2>1, <2>2 DEF EngineInv, EngineTypeOK
<1>9. Characters(display'.preEdit) = ctx'.buf
  BY <1>1, <1>2, <1>6, CharactersOfText
<1>10. StageInv' /\ ShownInv'
  BY <1>1, <1>2, <1>3, <1>9 DEF StageInv, ShownInv, Focused
<1> QED BY <1>2, <1>3, <1>4, <1>5, <1>8, <1>10 DEF EngineInv

-----------------------------------------------------------------------------
(* The handlers that process none. *)

\* The variables of the engine alone that a handler changed, or none.
LEMMA EngineTyped ==
  ASSUME EngineInv, stage' = "idle", sent' \in Nat,
         statusFlags' \subseteq {"FOCUS_IN", "REGISTERED", "IS_PASSWORD"},
         prefs' \in PrefSets, capsOn' \in BOOLEAN,
         panel' \in [chi : BOOLEAN, full : BOOLEAN],
         display' = display \/ display' = Blank
  PROVE  EngineTypeOK'
  BY BlankIsEmpty DEF EngineInv, EngineTypeOK

\* A handler that leaves focus, text and what is shown as they were.
LEMMA SettledKeeps ==
  ASSUME EngineInv, stage = "idle", stage' = "idle", EngineTypeOK', KeyInv',
         Core', outgoing' = outgoing, ctx'.buf = ctx.buf,
         Focused' <=> Focused, display' = display
  PROVE  EngineInv'
<1>1. StageInv' /\ ShownInv'
  BY DEF EngineInv, StageInv, ShownInv
<1> QED BY <1>1 DEF EngineInv

LEMMA ResetStep ==
  ASSUME EngineInv, Reset
  PROVE  /\ EngineInv' /\ ctx'.chi = ctx.chi /\ ~Caught(ctx')
         /\ ctx'.buf = 0 /\ ctx'.pages = 0
         /\ outgoing' = 0 /\ outgoing = 0
<1>1. /\ Clear /\ display' = Blank /\ sent' = 0 /\ stage = "idle" /\ stage' = "idle"
      /\ UNCHANGED <<statusFlags, prefs, capsOn, panel>>
  BY DEF Reset, Quiet
<1>2. Core' /\ Nothing(ctx') /\ outgoing' = 0 /\ ctx'.chi = ctx.chi
  BY <1>1, ClearStep DEF EngineInv
<1>3. ctx'.buf = 0 /\ ctx'.pages = 0 /\ ~Caught(ctx')
  BY <1>2, NothingHasNoText DEF Core, TextInv
<1>4. KeyInv'
  BY <1>1 DEF Clear, EngineInv, KeyInv
<1>5. EngineTypeOK'
  BY <1>1, BlankIsEmpty DEF EngineInv, EngineTypeOK
<1>6. StageInv' /\ ShownInv'
  BY <1>1, <1>2, <1>3, BlankIsEmpty DEF StageInv, ShownInv
<1> QED BY <1>1, <1>2, <1>3, <1>4, <1>5, <1>6 DEF EngineInv, StageInv

LEMMA StartStep ==
  ASSUME EngineInv, NEW flags \in SUBSET {"FOCUS_IN"}, Start(flags)
  PROVE  /\ statusFlags' = statusFlags \cup {"REGISTERED"} \cup flags
         /\ statusFlags' \subseteq {"FOCUS_IN", "REGISTERED", "IS_PASSWORD"}
         /\ panel' \in [chi : BOOLEAN, full : BOOLEAN]
         /\ panel'.chi = RestoreMode(ctx).chi
<1> DEFINE c == RestoreMode(ctx)
<1>1. capsOn \in BOOLEAN /\ panel \in [chi : BOOLEAN, full : BOOLEAN]
  BY DEF EngineInv, EngineTypeOK
<1>2. ContextOK(c)
  BY <1>1, RestoreModeKeeps DEF EngineInv
<1>3. RefreshPropertyList(c, {"REGISTERED"})
      /\ statusFlags' = statusFlags \cup {"REGISTERED"} \cup flags
  BY DEF Start
<1> HIDE DEF c
<1>4. c.chi \in BOOLEAN /\ c.full \in BOOLEAN
  BY <1>2 DEF ContextOK, Context
<1>5. panel' \in [chi : BOOLEAN, full : BOOLEAN] /\ panel'.chi = c.chi
  BY <1>1, <1>3, <1>4, PanelRefreshed
<1> QED BY <1>3, <1>5 DEF c, EngineInv, EngineTypeOK

LEMMA EnableStep ==
  ASSUME EngineInv, Enable
  PROVE  /\ EngineInv' /\ ctx'.buf = ctx.buf /\ ctx'.pages = ctx.pages
         /\ outgoing' = outgoing /\ outgoing = 0
         /\ ~prefs.useEnglish => ctx'.chi = panel'.chi
<1> DEFINE c == RestoreMode(ctx)
           d == ChiEngSet(c, FALSE)
           u == UpdatesText(c, FALSE)
<1>1. /\ sent' = 0 /\ stage = "idle" /\ stage' = "idle" /\ Start({})
      /\ UNCHANGED <<iTable, tableShow, keyLast, held, consumed, pending, conf,
                     prefs, capsOn, display>>
  BY DEF Enable, Quiet
<1>2. capsOn \in BOOLEAN /\ Core /\ KeyInv
  BY DEF EngineInv, EngineTypeOK
<1>3. KeepsList(c) /\ c.commit = 0 /\ c.bpmf = ctx.bpmf
  BY <1>2, RestoreModeKeeps
<1>4. /\ statusFlags' = statusFlags \cup {"REGISTERED"} \cup {}
      /\ statusFlags' \subseteq {"FOCUS_IN", "REGISTERED", "IS_PASSWORD"}
      /\ panel' \in [chi : BOOLEAN, full : BOOLEAN] /\ panel'.chi = c.chi
  BY <1>1, StartStep
<1>5. /\ KeepsList(d) /\ d.commit = 0 /\ u \in BOOLEAN
      /\ u \/ d.bpmf = ctx.bpmf
  BY <1>2, <1>3, ChiEngSetKeeps
<1>6. IF prefs.useEnglish THEN Leave(d, u) ELSE Leave(c, FALSE)
  BY DEF Enable
<1> HIDE DEF c, d, u
<1>7. /\ Core' /\ ctx'.buf = ctx.buf /\ ctx'.pages = ctx.pages /\ outgoing' = outgoing
      /\ prefs.useEnglish \/ ctx'.chi = c.chi
  <2>1. CASE prefs.useEnglish
    BY <1>1, <1>2, <1>5, <1>6, <2>1, LeaveCore
  <2>2. CASE ~prefs.useEnglish
    BY <1>1, <1>2, <1>3, <1>6, <2>2, LeaveCore
  <2> QED BY <2>1, <2>2
<1>8. KeyInv'
  BY <1>1, <1>2, KeyRecordKept DEF KeyInv
<1>9. EngineTypeOK'
  BY <1>1, <1>4, EngineTyped DEF EngineInv, EngineTypeOK
<1>10. Focused' <=> Focused
  BY <1>4 DEF Focused
<1>11. EngineInv'
  BY <1>1, <1>7, <1>8, <1>9, <1>10, SettledKeeps
<1> QED BY <1>1, <1>4, <1>7, <1>11 DEF EngineInv, StageInv

LEMMA FocusInStep ==
  ASSUME EngineInv, FocusIn
  PROVE  /\ EngineInv' /\ Core' /\ Nothing(ctx') /\ preEdit' = <<>> /\ outgoing' = 0
         /\ ctx'.buf = 0 /\ ctx'.pages = 0 /\ ~Caught(ctx')
         /\ ctx'.chi = panel'.chi
         /\ ~Focused /\ Focused' /\ (IsPassword' <=> IsPassword) /\ outgoing = 0
<1> DEFINE c == RestoreMode(ctx)
<1>1. /\ sent' = 0 /\ stage = "idle" /\ stage' = "idle" /\ Start({"FOCUS_IN"})
      /\ ~Focused /\ ClearFrom(c) /\ pending' = PendingLeft(PreEditCleared(c), pending)
      /\ UNCHANGED <<iTable, tableShow, keyLast, held, consumed, conf, prefs,
                     capsOn, display>>
  BY DEF FocusIn, Quiet, Focused
<1>2. capsOn \in BOOLEAN /\ Core /\ KeyInv
  BY DEF EngineInv, EngineTypeOK
<1>3. ContextOK(c) /\ (Choosing(c) => tableShow)
  BY <1>2, RestoreModeKeeps
<1>4. /\ statusFlags' = statusFlags \cup {"REGISTERED"} \cup {"FOCUS_IN"}
      /\ statusFlags' \subseteq {"FOCUS_IN", "REGISTERED", "IS_PASSWORD"}
      /\ panel' \in [chi : BOOLEAN, full : BOOLEAN] /\ panel'.chi = c.chi
  BY <1>1, StartStep
<1> HIDE DEF c
<1>5. /\ Core' /\ Nothing(ctx') /\ preEdit' = <<>> /\ outgoing' = 0
      /\ ctx'.chi = c.chi /\ ctx'.buf = 0 /\ ctx'.pages = 0 /\ ~Caught(ctx')
  BY <1>1, <1>2, <1>3, ClearFromStep
<1>6. KeyInv'
  <2>1. pending' \in [chi : BOOLEAN, full : BOOLEAN]
    BY <1>1, <1>2, PendingLeftTyped DEF KeyInv
  <2> QED BY <1>1, <1>2, <2>1, KeyRecordKept
<1>7. EngineTypeOK'
  BY <1>1, <1>4, EngineTyped DEF EngineInv, EngineTypeOK
<1>8. Focused' /\ (IsPassword' <=> IsPassword)
  BY <1>4 DEF Focused, IsPassword
<1>9. display' = Blank /\ outgoing = 0
  BY <1>1 DEF EngineInv, ShownInv, StageInv
<1>10. StageInv' /\ ShownInv'
  BY <1>1, <1>5, <1>8, <1>9, BlankIsEmpty DEF StageInv, ShownInv
<1> QED BY <1>1, <1>4, <1>5, <1>6, <1>7, <1>8, <1>9, <1>10 DEF EngineInv

LEMMA FocusOutStep ==
  ASSUME EngineInv, FocusOut
  PROVE  /\ EngineInv' /\ ctx'.chi = ctx.chi /\ (Caught(ctx') => Caught(ctx))
         /\ sent' = ctx.buf /\ Focused /\ ~Focused' /\ (IsPassword' <=> IsPassword)
         /\ ctx'.buf <= ctx.buf /\ ctx'.pages <= ctx.pages
         /\ outgoing' = 0 /\ outgoing = 0
<1>1. /\ stage = "idle" /\ stage' = "idle" /\ Focused /\ display' = Blank
      /\ sent' = Characters(display.preEdit)
      /\ statusFlags' = statusFlags \ {"FOCUS_IN", "REGISTERED"}
      /\ UNCHANGED <<iTable, tableShow, keyLast, held, consumed, conf, prefs,
                     capsOn, panel>>
  BY DEF FocusOut, Focused
<1>2. /\ Core /\ KeyInv /\ outgoing = 0 /\ sent' = ctx.buf
      /\ ContextOK(ctx) /\ (Choosing(ctx) => tableShow)
  BY <1>1, CtxClears DEF EngineInv, StageInv, ShownInv
<1>3. ctx.buf \in Nat /\ ctx.pages \in Nat
  BY <1>2, Sizes DEF ContextOK, Context
<1>4. /\ Core' /\ outgoing' = 0 /\ ctx'.chi = ctx.chi /\ (Caught(ctx') => Caught(ctx))
      /\ ctx'.buf <= ctx.buf /\ ctx'.pages <= ctx.pages
      /\ pending' \in [chi : BOOLEAN, full : BOOLEAN]
  <2>1. CASE /\ ClearFrom(ctx) /\ pending' = PendingLeft(PreEditCleared(ctx), pending)
    <3>1. /\ Core' /\ outgoing' = 0 /\ ctx'.chi = ctx.chi /\ ctx'.buf = 0
          /\ ctx'.pages = 0 /\ ~Caught(ctx')
      BY <1>1, <1>2, <2>1, ClearFromStep
    <3>2. pending' \in [chi : BOOLEAN, full : BOOLEAN]
      BY <1>2, <2>1, PendingLeftTyped DEF KeyInv
    <3> QED BY <1>3, <3>1, <3>2
  <2>2. CASE UNCHANGED <<text, pending>>
    <3>1. ctx' = ctx /\ outgoing' = 0 /\ pending' = pending
          /\ UNCHANGED <<preEdit, bpmfLen>>
      BY <1>2, <2>2 DEF text
    <3>2. Core'
      BY <1>1, <1>2, <3>1, UnchangedCore
    <3> QED BY <1>2, <1>3, <3>1, <3>2 DEF KeyInv
  <2> QED BY <2>1, <2>2 DEF FocusOut
<1>5. KeyInv'
  BY <1>1, <1>2, <1>4, KeyRecordKept
<1>6. ~Focused' /\ (IsPassword' <=> IsPassword)
  BY <1>1 DEF Focused, IsPassword
<1>7. EngineTypeOK'
  <2>1. statusFlags' \subseteq {"FOCUS_IN", "REGISTERED", "IS_PASSWORD"}
    BY <1>1 DEF EngineInv, EngineTypeOK
  <2> QED BY <1>1, <1>2, <1>3, <2>1, EngineTyped DEF EngineInv, EngineTypeOK
<1>8. StageInv' /\ ShownInv'
  BY <1>1, <1>4, <1>6 DEF StageInv, ShownInv
<1> QED BY <1>1, <1>2, <1>4, <1>5, <1>6, <1>7, <1>8 DEF EngineInv

LEMMA SealStep ==
  ASSUME EngineInv, NEW password \in BOOLEAN, SetContentType(password)
  PROVE  EngineInv' /\ UNCHANGED <<vars, panel, display>> /\ outgoing = 0
         /\ (Focused' <=> Focused) /\ sent' = 0
<1>1. /\ sent' = 0 /\ stage = "idle" /\ stage' = "idle"
      /\ statusFlags' \in {statusFlags \cup {"IS_PASSWORD"}, statusFlags \ {"IS_PASSWORD"}}
      /\ UNCHANGED <<vars, prefs, capsOn, panel, display>>
  BY DEF SetContentType, Quiet
<1>2. /\ outgoing = 0 /\ outgoing' = 0 /\ ctx' = ctx
      /\ UNCHANGED <<preEdit, bpmfLen, iTable, tableShow, keyLast, held, consumed,
                     pending, conf>>
  BY <1>1 DEF vars, EngineInv, StageInv
<1>3. Core'
  BY <1>2, UnchangedCore DEF EngineInv
<1>4. KeyInv'
  BY <1>2 DEF EngineInv, KeyInv
<1>5. Focused' <=> Focused
  BY <1>1 DEF Focused
<1>6. EngineTypeOK'
  BY <1>1, EngineTyped DEF EngineInv, EngineTypeOK
<1>7. EngineInv'
  BY <1>1, <1>2, <1>3, <1>4, <1>5, <1>6, SettledKeeps
<1> QED BY <1>1, <1>2, <1>5, <1>7

\* A handler that changes at most the modes and the settings.
Settled ==
  /\ EngineInv' /\ sent' = 0 /\ stage = "idle" /\ stage' = "idle"
  /\ UNCHANGED <<statusFlags, display>>
  /\ ctx'.buf = ctx.buf /\ ctx'.pages = ctx.pages /\ outgoing = 0 /\ outgoing' = 0
  /\ Caught(ctx') => Caught(ctx)
  /\ panel.chi = ctx.chi => panel'.chi = ctx'.chi

LEMMA ComponentSettles ==
  ASSUME EngineInv, Quiet, UNCHANGED <<statusFlags, display>>,
         prefs' \in PrefSets, capsOn' \in BOOLEAN,
         panel' \in [chi : BOOLEAN, full : BOOLEAN],
         Core', KeyInv', outgoing' = outgoing,
         ctx'.buf = ctx.buf, ctx'.pages = ctx.pages, Caught(ctx') => Caught(ctx),
         panel.chi = ctx.chi => panel'.chi = ctx'.chi
  PROVE  Settled
<1>1. sent' = 0 /\ stage = "idle" /\ stage' = "idle" /\ (Focused' <=> Focused)
  BY DEF Quiet, Focused
<1>2. EngineTypeOK'
  BY <1>1, EngineTyped DEF EngineInv, EngineTypeOK
<1>3. EngineInv' /\ outgoing = 0
  BY <1>1, <1>2, SettledKeeps DEF EngineInv, StageInv
<1> QED BY <1>1, <1>3 DEF Settled

LEMMA ModesAreTyped ==
  ASSUME EngineInv
  PROVE  /\ Core /\ KeyInv /\ prefs \in PrefSets /\ capsOn \in BOOLEAN
         /\ panel \in [chi : BOOLEAN, full : BOOLEAN]
         /\ ctx.chi \in BOOLEAN /\ ctx.full \in BOOLEAN
  BY DEF EngineInv, EngineTypeOK, Core, TextInv, ContextOK, Context

LEMMA InputModeSettles ==
  ASSUME EngineInv, ActivateInputMode
  PROVE  Settled
<1>1. /\ Quiet /\ SetChiEngMode(~ctx.chi) /\ panel' = [panel EXCEPT !.chi = ~ctx.chi]
      /\ UNCHANGED <<statusFlags, prefs, capsOn, display>>
  BY DEF ActivateInputMode
<1>2. PICK chi \in BOOLEAN : chi = ~ctx.chi
  BY Zenon
<1>3. SetChiEngMode(chi) /\ panel' = [panel EXCEPT !.chi = chi]
  BY <1>1, <1>2
<1>4. panel' \in [chi : BOOLEAN, full : BOOLEAN] /\ panel'.chi = chi
  BY <1>3, ModesAreTyped
<1>5. /\ Core' /\ ctx'.chi = chi /\ ctx'.buf = ctx.buf /\ ctx'.pages = ctx.pages
      /\ outgoing' = outgoing /\ (Caught(ctx') => Caught(ctx))
  BY <1>3, ModesAreTyped, SetChiEngModeStep
<1>6. KeyInv'
  BY <1>3, ModesAreTyped DEF SetChiEngMode, KeyInv
<1> QED BY <1>1, <1>4, <1>5, <1>6, ModesAreTyped, ComponentSettles

LEMMA AlnumSizeSettles ==
  ASSUME EngineInv, ActivateAlnumSize
  PROVE  Settled
<1>1. /\ Quiet /\ SetFullHalfMode(~ctx.full)
      /\ panel' = [panel EXCEPT !.full = ~ctx.full] \/ panel' = panel
      /\ UNCHANGED <<statusFlags, prefs, capsOn, display>>
  BY DEF ActivateAlnumSize
<1>2. PICK full \in BOOLEAN : full = ~ctx.full
  BY Zenon
<1>3. SetFullHalfMode(full) /\ (panel' = [panel EXCEPT !.full = full] \/ panel' = panel)
  BY <1>1, <1>2
<1>4. panel' \in [chi : BOOLEAN, full : BOOLEAN] /\ panel'.chi = panel.chi
  BY <1>3, ModesAreTyped
<1>5. /\ Core' /\ ctx'.chi = ctx.chi /\ ctx'.buf = ctx.buf /\ ctx'.pages = ctx.pages
      /\ outgoing' = outgoing /\ (Caught(ctx') => Caught(ctx))
  BY <1>3, ModesAreTyped, SetFullHalfModeStep
<1>6. KeyInv'
  BY <1>3, ModesAreTyped DEF SetFullHalfMode, KeyInv
<1> QED BY <1>1, <1>4, <1>5, <1>6, ModesAreTyped, ComponentSettles

LEMMA PropertySettles ==
  ASSUME EngineInv, SetProperty
  PROVE  Settled
<1>1. Quiet /\ UNCHANGED <<statusFlags, capsOn, panel, display>>
  BY DEF SetProperty
<1>2. ASSUME NEW keys \in SelKeySets, Resize(keys), UNCHANGED prefs
      PROVE  Settled
  <2>1. /\ Core' /\ ctx'.chi = ctx.chi /\ ctx'.buf = ctx.buf /\ ctx'.bpmf = ctx.bpmf
        /\ ctx'.pages = ctx.pages /\ outgoing' = outgoing
    BY <1>2, ModesAreTyped, ResizeStep
  <2>2. KeyInv'
    BY <1>2, ModesAreTyped DEF Resize, KeyInv
  <2> QED BY <1>1, <1>2, <2>1, <2>2, ModesAreTyped, ComponentSettles DEF Caught
<1>3. CASE /\ conf' \in Confs
           /\ UNCHANGED <<text, iTable, tableShow, keyLast, held, consumed, pending, prefs>>
  <2>1. Core' /\ ctx' = ctx /\ outgoing' = outgoing
    BY <1>3, ModesAreTyped, UnchangedCore DEF text, Core, TextInv
  <2>2. KeyInv'
    BY <1>3, ModesAreTyped DEF KeyInv
  <2> QED BY <1>1, <1>3, <2>1, <2>2, ModesAreTyped, ComponentSettles
<1>4. CASE prefs' \in PrefSets /\ UNCHANGED vars
  <2>1. Core' /\ ctx' = ctx /\ outgoing' = outgoing
    BY <1>4, ModesAreTyped, UnchangedCore DEF vars, Core, TextInv
  <2>2. KeyInv'
    BY <1>4, ModesAreTyped DEF KeyInv, vars
  <2> QED BY <1>1, <1>4, <2>1, <2>2, ModesAreTyped, ComponentSettles
<1>5. ASSUME NEW escAll \in BOOLEAN, NEW fwKey \in BOOLEAN,
             ctx' = [ctx EXCEPT !.escAll = escAll, !.fwKey = fwKey],
             UNCHANGED <<preEdit, bpmfLen, outgoing, iTable, tableShow, keyLast,
                         held, consumed, pending, conf, prefs>>
      PROVE  Settled
  <2> DEFINE d == [ctx EXCEPT !.escAll = escAll, !.fwKey = fwKey]
  <2>1. /\ ContextOK(d) /\ d.commit = ctx.commit /\ d.buf = ctx.buf /\ d.cur = ctx.cur
        /\ d.bpmf = ctx.bpmf /\ d.chi = ctx.chi /\ d.pages = ctx.pages
        /\ (Choosing(d) <=> Choosing(ctx)) /\ OnPage(d) = OnPage(ctx)
    BY ModesAreTyped, CtxKeeps DEF ContextOK, Context, Choosing, OnPage
  <2>2. ctx' = d
    BY <1>5
  <2> HIDE DEF d
  <2>3. Render(d) = Render(ctx)
    BY <2>1, RenderSame
  <2>4. TextInv'
    BY <1>5, <2>1, <2>2, <2>3, ModesAreTyped
       DEF Core, TextInv, CommitCollected, PreEditMirrorsContext
  <2>5. TableInv'
    BY <1>5, <2>1, <2>2, ModesAreTyped
       DEF Core, TableInv, FlagCoversList, TableMirrorsList
  <2>6. KeyInv'
    BY <1>5, ModesAreTyped DEF KeyInv
  <2>7. Core' /\ (Caught(ctx') => Caught(ctx))
    BY <2>1, <2>2, <2>4, <2>5 DEF Core, Caught
  <2> QED BY <1>1, <1>5, <2>1, <2>2, <2>6, <2>7, ModesAreTyped, ComponentSettles
<1> QED BY <1>2, <1>3, <1>4, <1>5 DEF SetProperty

LEMMA SurroundingsSettle ==
  ASSUME EngineInv, LedMoved \/ TimePasses
  PROVE  Settled
<1>1. /\ Quiet /\ UNCHANGED <<statusFlags, prefs, panel, display>>
      /\ UNCHANGED <<text, iTable, tableShow, keyLast, consumed, pending, conf>>
      /\ \/ held' = held
         \/ held' = held + 1 /\ held < 3
  BY DEF LedMoved, TimePasses, Tick, vars, text
<1>2. capsOn' \in BOOLEAN
  <2>1. capsOn' = capsOn \/ capsOn' = ~capsOn
    BY DEF LedMoved, TimePasses
  <2>2. (~capsOn) \in BOOLEAN
    BY Zenon
  <2> QED BY <2>1, <2>2, ModesAreTyped
<1>3. Core' /\ ctx' = ctx /\ outgoing' = outgoing
  BY <1>1, ModesAreTyped, UnchangedCore DEF text, Core, TextInv
<1>4. KeyInv'
  BY <1>1, ModesAreTyped DEF KeyInv
<1> QED BY <1>1, <1>2, <1>3, <1>4, ModesAreTyped, ComponentSettles

LEMMA StutterKeeps ==
  ASSUME EngineInv, UNCHANGED allVars
  PROVE  EngineInv'
<1>1. Core'
  BY UnchangedCore DEF EngineInv, allVars, vars, Core, TextInv
<1>2. KeyInv'
  <2>1. KeyInv /\ UNCHANGED <<keyLast, held, consumed, pending, conf>>
    BY DEF EngineInv, allVars, vars
  <2> QED BY ONLY <2>1 DEF KeyInv
<1>3. EngineTypeOK'
  <2>1. EngineTypeOK /\ UNCHANGED <<statusFlags, stage, prefs, capsOn, panel, display, sent>>
    BY DEF EngineInv, allVars, engineVars
  <2> QED BY ONLY <2>1 DEF EngineTypeOK
<1>4. StageInv' /\ ShownInv'
  BY DEF EngineInv, StageInv, ShownInv, Focused, IsPassword, allVars, vars, engineVars
<1> QED BY <1>1, <1>2, <1>3, <1>4 DEF EngineInv

\* The kinds of steps an engine takes.
LEMMA StepKinds ==
  ASSUME EngineInv, EngineNext
  PROVE  \/ KeyTaken
         \/ EngineUpdate
         \/ Reset
         \/ Enable
         \/ FocusIn
         \/ FocusOut
         \/ \E password \in BOOLEAN : SetContentType(password)
         \/ Settled
<1>1. ASSUME NEW i \in 0..MaxIndex, CandidateClicked(i) PROVE KeyTaken
  <2>1. MaxIndex \in Nat
    BY EngineAssumption DEF EngineAssumption
  <2>2. i \in Nat
    BY <2>1
  <2> QED BY <1>1, <2>2, ClicksAreTaken
<1>2. (\E e \in KeyEvents : ProcessKeyEvent(e[1], e[2])) => KeyTaken
  BY KeyEventIsTaken
<1>3. PageUpButton \/ PageDownButton \/ CursorUpButton \/ CursorDownButton => KeyTaken
  BY ButtonsAreTaken
<1>4. ActivateInputMode \/ ActivateAlnumSize \/ SetProperty \/ LedMoved \/ TimePasses
        => Settled
  BY InputModeSettles, AlnumSizeSettles, PropertySettles, SurroundingsSettle
<1> QED BY <1>1, <1>2, <1>3, <1>4 DEF EngineNext

LEMMA EngineNextKeeps ==
  ASSUME EngineInv, [EngineNext]_allVars
  PROVE  EngineInv'
<1>1. CASE EngineNext
  BY <1>1, StepKinds, KeyTakenStep, UpdateStep, ResetStep, EnableStep, FocusInStep,
     FocusOutStep, SealStep DEF Settled
<1>2. CASE UNCHANGED allVars
  BY <1>2, StutterKeeps
<1> QED BY <1>1, <1>2

LEMMA EngineInitEstablishes == EngineInit => EngineInv
<1> SUFFICES ASSUME EngineInit PROVE EngineInv
  OBVIOUS
<1>1. Core /\ KeyInv /\ outgoing = 0
  BY InitEstablishes DEF EngineInit, IInv, Init
<1>2. panel \in [chi : BOOLEAN, full : BOOLEAN]
  <2>1. panel = [chi |-> TRUE, full |-> FALSE]
    BY DEF EngineInit
  <2> QED BY ONLY <2>1
<1>3. capsOn \in BOOLEAN
  BY Zenon DEF EngineInit
<1>4. EngineTypeOK
  BY <1>2, <1>3, BlankIsEmpty DEF EngineInit, EngineTypeOK
<1>5. StageInv /\ ShownInv
  BY <1>1 DEF EngineInit, StageInv, ShownInv, Focused
<1> QED BY <1>1, <1>4, <1>5 DEF EngineInv

-----------------------------------------------------------------------------
(* The engine's steps as those of an input method. *)

LEMMA Abstracted ==
  ASSUME EngineInv, EngineInv'
  PROVE  /\ ctx.commit = 0 /\ ctx'.commit = 0
         /\ outgoing \in Nat /\ outgoing' \in Nat
         /\ ctx.buf \in Nat /\ ctx'.buf \in Nat
         /\ stage = "idle" => outgoing = 0
  BY Sizes DEF EngineInv, StageInv, Core, TextInv, CommitCollected, ContextOK, Context

LEMMA KeyTakenAbstracted ==
  ASSUME EngineInv, EngineInv', KeyTaken
  PROVE  IM!IMNext
<1>1. /\ Focused /\ Focused' /\ stage = "idle" /\ sent' = 0
      /\ statusFlags' = statusFlags
  BY DEF KeyTaken, HasFocus, Focused
<1>2. /\ outgoing = 0 /\ ctx.commit = 0 /\ ctx'.commit = 0
      /\ outgoing' \in Nat /\ ctx.buf \in Nat /\ ctx'.buf \in Nat
  BY <1>1, Abstracted
<1>3. CASE UNCHANGED text
  <2>1. ctx' = ctx /\ outgoing' = outgoing
    BY <1>3 DEF text
  <2>2. IM!Other
    BY <1>1, <1>2, <2>1 DEF IM!Other, IM!Ready, IsPassword, Focused
  <2> QED BY <2>2 DEF IM!IMNext
<1>4. CASE ~IsPassword /\ Stepped
  <2>1. IM!Typing
    BY <1>1, <1>2, <1>4 DEF IM!Typing, IM!Ready, IsPassword, Focused
  <2>2. CASE ctx'.buf + outgoing' \in {ctx.buf + outgoing, ctx.buf + outgoing + 1}
    <3> DEFINE composing == IF "FOCUS_IN" \in statusFlags THEN ctx.buf ELSE 0
               committed == outgoing + ctx.commit
    <3>1. composing = ctx.buf /\ composing' = ctx'.buf
      BY <1>1 DEF Focused
    <3>2. committed' = outgoing'
      <4>1. ctx'.commit = 0
        BY Abstracted
      <4>2. outgoing' \in Nat
        BY Abstracted
      <4>3. PICK n \in Nat : outgoing' = n
        BY <4>2
      <4>4. committed' = n
        BY <4>1, <4>3
      <4> QED BY <4>3, <4>4
    <3>3. ctx'.buf + outgoing' \in {ctx.buf, ctx.buf + 1}
      BY <1>2, <2>2
    <3>4. /\ composing' \in Nat /\ committed' \in Nat
          /\ composing' + committed' \in {composing, composing + 1}
      BY <1>2, <3>1, <3>2, <3>3, Zenon
    <3>5. IM!Type
      BY <2>1, <3>4 DEF IM!Type
    <3> QED BY <3>5 DEF IM!IMNext
  <2>3. CASE ctx'.buf < ctx.buf /\ outgoing' = outgoing
    <3>1. IM!Erase
      BY <1>1, <1>2, <2>1, <2>3 DEF IM!Erase, Focused
    <3> QED BY <3>1 DEF IM!IMNext
  <2> QED BY <1>4, <2>2, <2>3 DEF Stepped, Typed
<1> QED BY <1>3, <1>4 DEF KeyTaken

LEMMA UpdateAbstracted ==
  ASSUME EngineInv, EngineInv', EngineUpdate
  PROVE  IM!IMNext
<1>1. /\ ctx' = ctx /\ sent' = outgoing /\ outgoing' = 0
      /\ Focused /\ statusFlags' = statusFlags
  BY UpdateStep DEF EngineUpdate, EngineInv, StageInv
<1>2. ctx.commit = 0 /\ outgoing \in Nat
  BY Abstracted
<1>3. CASE outgoing > 0
  <2>1. IM!Publish
    BY <1>1, <1>2, <1>3 DEF IM!Publish, IsPassword, Focused
  <2> QED BY <2>1 DEF IM!IMNext
<1>4. CASE ~(outgoing > 0)
  <2>1. IM!Other
    BY <1>1, <1>2, <1>4 DEF IM!Other, IM!Ready, IsPassword, Focused
  <2> QED BY <2>1 DEF IM!IMNext
<1> QED BY <1>3, <1>4

\* A step that moves neither focus nor characters.
LEMMA OtherAbstracted ==
  ASSUME EngineInv, EngineInv', sent' = 0, outgoing = 0, outgoing' = 0,
         ctx'.buf = ctx.buf, Focused' <=> Focused, IsPassword' <=> IsPassword
  PROVE  IM!IMNext
<1>1. ctx.commit = 0 /\ ctx'.commit = 0
  BY Abstracted
<1>2. IM!Other
  BY <1>1 DEF IM!Other, IM!Ready, IsPassword, Focused
<1> QED BY <1>2 DEF IM!IMNext

LEMMA ResetAbstracted ==
  ASSUME EngineInv, EngineInv', Reset
  PROVE  IM!IMNext
<1>1. /\ sent' = 0 /\ outgoing = 0 /\ outgoing' = 0 /\ ctx'.buf = 0
      /\ statusFlags' = statusFlags
  BY ResetStep DEF Reset, Quiet
<1>2. ctx.commit = 0 /\ ctx'.commit = 0
  BY Abstracted
<1>3. IM!Discard
  BY <1>1, <1>2 DEF IM!Discard, IM!Ready, IsPassword
<1> QED BY <1>3 DEF IM!IMNext

LEMMA FocusInAbstracted ==
  ASSUME EngineInv, EngineInv', FocusIn
  PROVE  IM!IMNext
<1>1. /\ sent' = 0 /\ outgoing = 0 /\ outgoing' = 0 /\ ctx'.buf = 0
      /\ ~Focused /\ Focused' /\ (IsPassword' <=> IsPassword)
  BY FocusInStep DEF FocusIn, Quiet
<1>2. ctx.commit = 0 /\ ctx'.commit = 0
  BY Abstracted
<1>3. IM!GainFocus
  BY <1>1, <1>2 DEF IM!GainFocus, IM!Ready, Focused, IsPassword
<1> QED BY <1>3 DEF IM!IMNext

LEMMA FocusOutAbstracted ==
  ASSUME EngineInv, EngineInv', FocusOut
  PROVE  IM!IMNext
<1>1. /\ sent' = ctx.buf /\ outgoing = 0 /\ outgoing' = 0
      /\ Focused /\ ~Focused' /\ (IsPassword' <=> IsPassword)
  BY FocusOutStep
<1>2. ctx.commit = 0 /\ ctx'.commit = 0
  BY Abstracted
<1>3. IM!LoseFocus
  BY <1>1, <1>2 DEF IM!LoseFocus, Focused, IsPassword
<1> QED BY <1>3 DEF IM!IMNext

LEMMA SealAbstracted ==
  ASSUME EngineInv, EngineInv', NEW password \in BOOLEAN, SetContentType(password)
  PROVE  IM!IMNext
<1>1. /\ sent' = 0 /\ outgoing = 0 /\ outgoing' = 0 /\ ctx' = ctx
      /\ Focused' <=> Focused
  BY SealStep DEF vars
<1>2. ctx.commit = 0
  BY Abstracted
<1>3. IsPassword' \in BOOLEAN
  BY DEF IsPassword
<1>4. IM!Seal
  BY <1>1, <1>2, <1>3 DEF IM!Seal, IM!Ready, Focused
<1> QED BY <1>4 DEF IM!IMNext

LEMMA StepsAreAbstracted ==
  ASSUME EngineInv, EngineInv', [EngineNext]_allVars
  PROVE  [IM!IMNext]_IM!imVars
<1>1. CASE UNCHANGED allVars
  <2>1. UNCHANGED <<ctx, outgoing, sent, statusFlags>>
    BY <1>1 DEF allVars, vars, engineVars
  <2>2. UNCHANGED IM!imVars
    BY <2>1 DEF IM!imVars, IsPassword
  <2> QED BY <2>2
<1>2. CASE EngineNext
  <2>1. CASE Enable
    <3>1. /\ sent' = 0 /\ outgoing = 0 /\ outgoing' = 0 /\ ctx'.buf = ctx.buf
          /\ statusFlags' = statusFlags \cup {"REGISTERED"} \cup {}
      BY <2>1, EnableStep DEF Enable, Quiet, Start
    <3>2. (Focused' <=> Focused) /\ (IsPassword' <=> IsPassword)
      BY <3>1 DEF Focused, IsPassword
    <3> QED BY <3>1, <3>2, OtherAbstracted
  <2>2. CASE Settled
    <3>1. /\ sent' = 0 /\ outgoing = 0 /\ outgoing' = 0 /\ ctx'.buf = ctx.buf
          /\ statusFlags' = statusFlags
      BY <2>2 DEF Settled
    <3>2. (Focused' <=> Focused) /\ (IsPassword' <=> IsPassword)
      BY <3>1 DEF Focused, IsPassword
    <3> QED BY <3>1, <3>2, OtherAbstracted
  <2> QED BY <1>2, <2>1, <2>2, StepKinds, KeyTakenAbstracted, UpdateAbstracted,
             ResetAbstracted, FocusInAbstracted, FocusOutAbstracted, SealAbstracted
<1> QED BY <1>1, <1>2

-----------------------------------------------------------------------------
(* The theorems. *)

\* The inductive invariant: whatever IBus calls next, the handlers start with
\* nothing left over and with what is shown in agreement with the buffer.
THEOREM EngineInvariantHolds == EngineSpec => []EngineInv
  BY EngineInitEstablishes, EngineNextKeeps, PTL DEF EngineSpec

\* The engine's variables stay in range.
THEOREM EngineTypesHold == EngineSpec => []EngineTypeOK
<1>1. EngineInv => EngineTypeOK
  BY DEF EngineInv
<1> QED BY <1>1, EngineInvariantHolds, PTL

\* Between two handlers nothing waits to be committed, which the clear of the
\* next focus_in would throw away (engine.c 916-926).
THEOREM NothingIsLeftOver == EngineSpec => []NothingWaits
<1>1. EngineInv => NothingWaits
  BY DEF EngineInv, StageInv, Core, TextInv, CommitCollected, NothingWaits
<1> QED BY <1>1, EngineInvariantHolds, PTL

\* What the client in focus shows of the buffer is the buffer.
THEOREM ShownIsTheBuffer == EngineSpec => []ShownTextIsBuffer
<1>1. EngineInv => ShownTextIsBuffer
  BY DEF EngineInv, ShownInv, ShownTextIsBuffer, HasFocus, Focused
<1> QED BY <1>1, EngineInvariantHolds, PTL

\* Only enabling the engine can catch a bopomofo in English mode.
THEOREM OnlyEnableCatches == EngineSpec => BopomofoStaysChinese
<1>1. EngineInv /\ [EngineNext]_allVars =>
        [CaughtBopomofo' => CaughtBopomofo \/ Enable]_allVars
  <2> SUFFICES ASSUME EngineInv, EngineNext, CaughtBopomofo', ~Enable
               PROVE  CaughtBopomofo
    OBVIOUS
  <2>1. Caught(ctx')
    BY DEF Caught, CaughtBopomofo
  <2>2. (\E password \in BOOLEAN : SetContentType(password)) => ctx' = ctx
    BY DEF SetContentType, vars
  <2>3. Caught(ctx)
    BY <2>1, <2>2, StepKinds, KeyTakenStep, UpdateStep, ResetStep, FocusInStep,
       FocusOutStep DEF Settled
  <2> QED BY <2>3 DEF Caught, CaughtBopomofo
<1> QED BY <1>1, EngineInvariantHolds, PTL DEF EngineSpec, BopomofoStaysChinese

\* In a password field nothing is committed, shown or changed, whatever was
\* going on when the field became one (engine.c 582-583 and the handlers).
THEOREM PasswordsAreSealed == EngineSpec => PasswordIsSealed
<1>1. EngineInv /\ [EngineNext]_allVars =>
        [IsPassword =>
           /\ sent' = 0 \/ (FocusOut /\ sent' <= ctx.buf)
           /\ display' \in {display, Blank}
           /\ ctx'.buf <= ctx.buf /\ ctx'.pages <= ctx.pages]_allVars
  <2> SUFFICES ASSUME EngineInv, EngineNext, IsPassword
               PROVE  /\ sent' = 0 \/ (FocusOut /\ sent' <= ctx.buf)
                      /\ display' \in {display, Blank}
                      /\ ctx'.buf <= ctx.buf /\ ctx'.pages <= ctx.pages
    OBVIOUS
  <2>1. ctx.buf \in Nat /\ ctx.pages \in Nat
    BY Sizes DEF EngineInv, Core, TextInv, ContextOK, Context
  <2>2. CASE KeyTaken
    <3>1. sent' = 0 /\ display' = display /\ ctx' = ctx
      BY <2>2 DEF KeyTaken, text
    <3> QED BY <2>1, <3>1
  <2>3. ~EngineUpdate
    BY DEF EngineUpdate, EngineInv, StageInv
  <2>4. CASE Reset \/ FocusIn \/ Enable
    <3>1. sent' = 0 /\ display' \in {display, Blank}
      BY <2>4 DEF Reset, FocusIn, Enable, Quiet
    <3>2. (ctx'.buf = 0 /\ ctx'.pages = 0) \/ (ctx'.buf = ctx.buf /\ ctx'.pages = ctx.pages)
      BY <2>4, ResetStep, FocusInStep, EnableStep
    <3> QED BY <2>1, <3>1, <3>2
  <2>5. CASE FocusOut
    <3>1. sent' = ctx.buf /\ ctx'.buf <= ctx.buf /\ ctx'.pages <= ctx.pages
      BY <2>5, FocusOutStep
    <3>2. display' = Blank
      BY <2>5 DEF FocusOut
    <3> QED BY <2>1, <2>5, <3>1, <3>2
  <2>6. CASE \E password \in BOOLEAN : SetContentType(password)
    <3>1. sent' = 0 /\ display' = display /\ ctx' = ctx
      BY <2>6 DEF SetContentType, Quiet, vars
    <3> QED BY <2>1, <3>1
  <2>7. CASE Settled
    <3>1. /\ sent' = 0 /\ display' = display
          /\ ctx'.buf = ctx.buf /\ ctx'.pages = ctx.pages
      BY <2>7 DEF Settled
    <3> QED BY <2>1, <3>1
  <2> QED BY <2>2, <2>3, <2>4, <2>5, <2>6, <2>7, StepKinds
<1> QED BY <1>1, EngineInvariantHolds, PTL DEF EngineSpec, PasswordIsSealed

\* A client that gets the focus gets none of the text of another.
THEOREM FocusStartsClean == EngineSpec => FocusInStartsClean
<1>1. EngineInv /\ [EngineNext]_allVars =>
        [FocusIn => Nothing(ctx') /\ preEdit' = <<>> /\ outgoing' = 0]_allVars
  BY FocusInStep
<1> QED BY <1>1, EngineInvariantHolds, PTL DEF EngineSpec, FocusInStartsClean

\* The engine is an input method: every character typed goes to the client it
\* was typed for once, or is erased there.  (That a commit is always published
\* in the end is model-checked: it needs the fairness of EngineFairSpec.)
THEOREM EngineIsInputMethod == EngineSpec => IM!IMSpec
<1>1. EngineInit => IM!IMInit
  <2> SUFFICES ASSUME EngineInit PROVE IM!IMInit
    OBVIOUS
  <2>1. outgoing = 0 /\ ctx.commit = 0 /\ sent = 0 /\ statusFlags = {}
    BY InitEstablishes DEF EngineInit, IInv, Core, TextInv, CommitCollected, Init
  <2> QED BY <2>1 DEF IM!IMInit, IsPassword
<1>2. EngineInv /\ EngineInv' /\ [EngineNext]_allVars => [IM!IMNext]_IM!imVars
  BY StepsAreAbstracted
<1> QED BY <1>1, <1>2, EngineInvariantHolds, PTL DEF EngineSpec, IM!IMSpec

\* Where no one asks for English mode on enabling, the language bar shows the
\* input mode in use, whichever way it changed.  The setting is excluded for
\* the code breaks the promise with it (engine.c 513-532).
THEOREM PanelIsRight ==
  ASSUME \A p \in PrefSets : ~p.useEnglish
  PROVE  EngineSpec => []PanelShowsInputMode
<1> DEFINE PanelInv == stage # "update and refresh" => panel.chi = ctx.chi
<1>1. EngineInit => PanelInv
  BY DEF EngineInit, Init, NewContext
<1>2. EngineInv /\ PanelInv /\ [EngineNext]_allVars => PanelInv'
  <2> SUFFICES ASSUME EngineInv, PanelInv, [EngineNext]_allVars
               PROVE  PanelInv'
    OBVIOUS
  <2>1. CASE UNCHANGED allVars
    BY <2>1 DEF allVars, vars, engineVars
  <2>2. CASE KeyTaken
    <3>1. stage = "idle" /\ panel' = panel
      BY <2>2 DEF KeyTaken, HasFocus
    <3>2. ctx'.chi = ctx.chi \/ stage' = "update and refresh"
      BY <2>2 DEF KeyTaken, text
    <3> QED BY <3>1, <3>2
  <2>3. CASE EngineUpdate
    <3>1. ctx' = ctx
      BY <2>3, UpdateStep
    <3>2. CASE stage = "update and refresh"
      <4>1. RefreshPropertyList(ctx, statusFlags)
        BY <2>3, <3>2 DEF EngineUpdate
      <4>2. PICK full : panel' = [chi |-> ctx.chi, full |-> full]
        BY <4>1 DEF RefreshPropertyList
      <4>3. panel'.chi = ctx.chi
        BY <4>2
      <4> QED BY <3>1, <4>3
    <3>3. CASE stage # "update and refresh"
      <4>1. panel' = panel
        BY <2>3, <3>3 DEF EngineUpdate
      <4> QED BY <3>1, <3>3, <4>1
    <3> QED BY <3>2, <3>3
  <2>4. CASE Reset \/ FocusOut
    <3>1. panel' = panel /\ stage = "idle" /\ ctx'.chi = ctx.chi
      BY <2>4, ResetStep, FocusOutStep DEF Reset, FocusOut, Quiet
    <3> QED BY <3>1
  <2>5. CASE Enable
    <3>1. ~prefs.useEnglish
      BY DEF EngineInv, EngineTypeOK
    <3> QED BY <2>5, <3>1, EnableStep
  <2>6. CASE FocusIn
    BY <2>6, FocusInStep
  <2>7. CASE \E password \in BOOLEAN : SetContentType(password)
    BY <2>7 DEF SetContentType, Quiet, vars
  <2>8. CASE Settled
    BY <2>8 DEF Settled
  <2> QED BY <2>1, <2>2, <2>3, <2>4, <2>5, <2>6, <2>7, <2>8, StepKinds
<1>3. PanelInv => PanelShowsInputMode
  BY DEF PanelShowsInputMode
<1> QED BY <1>1, <1>2, <1>3, EngineInvariantHolds, PTL DEF EngineSpec

=============================================================================
