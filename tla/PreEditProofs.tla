--------------------------- MODULE PreEditProofs ---------------------------
(***************************************************************************)
(* Proofs about PreEdit: its safety invariants for every keyboard, every   *)
(* setting and every size of libchewing's buffers.                         *)
(***************************************************************************)
EXTENDS PreEdit, ChewingProofs, SequenceTheorems

\* The text of the component is the text of a sound context.
TextInv ==
  /\ ContextOK(ctx) /\ CommitCollected
  /\ PreEditMirrorsContext
  /\ outgoing \in Nat

\* The table is that of the context's list, and its flag tells of the list.
TableInv ==
  /\ iTable \in [n : Nat, cur : Nat, size : Nat \ {0}]
  /\ tableShow \in BOOLEAN
  /\ FlagCoversList
  /\ TableMirrorsList

Core == TextInv /\ TableInv

KeyInv ==
  /\ keyLast \in {"Shift", "other"}
  /\ held \in 0..3
  /\ consumed \in BOOLEAN
  /\ pending \in [chi : BOOLEAN, full : BOOLEAN]
  /\ conf \in Confs

\* The inductive invariant.  The engine adds a way to catch a bopomofo in
\* English mode, which Core and KeyInv survive.
IInv == Core /\ KeyInv /\ ~Caught(ctx)

-----------------------------------------------------------------------------
(* The text of a context. *)

LEMMA RepeatTyped ==
  ASSUME NEW n \in Nat, NEW t
  PROVE  [i \in 1..n |-> t] \in Seq({t})
  BY SeqDef

LEMMA RenderTyped ==
  ASSUME NEW c, ContextOK(c)
  PROVE  Render(c) \in Seq({"zi", "bpmf"})
<1> DEFINE T == {"zi", "bpmf"}
           zi(n) == [i \in 1..n |-> "zi"]
           b == [i \in 1..c.bpmf |-> "bpmf"]
<1>1. /\ c.buf \in Nat /\ c.cur \in Nat /\ c.bpmf \in Nat
      /\ c.cur < c.buf => c.buf - c.cur \in Nat
  BY Sizes DEF ContextOK, Context
<1>2. \A n \in Nat : zi(n) \in Seq(T)
  BY RepeatTyped, SeqMonotonic
<1>3. b \in Seq(T)
  BY <1>1, RepeatTyped, SeqMonotonic
<1>4. Render(c) = IF c.cur < c.buf THEN zi(c.cur) \o b \o zi(c.buf - c.cur)
                                   ELSE zi(c.buf) \o b
  BY DEF Render
<1> HIDE DEF zi, b, T
<1>5. \A s1, s2 \in Seq(T) : s1 \o s2 \in Seq(T)
  BY ConcatProperties
<1>6. CASE c.cur < c.buf
  <2>1. zi(c.cur) \in Seq(T) /\ zi(c.buf - c.cur) \in Seq(T)
    BY <1>1, <1>2, <1>6
  <2>2. zi(c.cur) \o b \in Seq(T)
    BY <1>3, <1>5, <2>1
  <2>3. zi(c.cur) \o b \o zi(c.buf - c.cur) \in Seq(T)
    BY <1>5, <2>1, <2>2
  <2> QED BY <1>4, <1>6, <2>3 DEF T
<1>7. CASE ~(c.cur < c.buf)
  <2>1. zi(c.buf) \o b \in Seq(T)
    BY <1>1, <1>2, <1>3, <1>5
  <2> QED BY <1>4, <1>7, <2>1 DEF T
<1> QED BY <1>6, <1>7

LEMMA RenderOfNothing ==
  ASSUME NEW c, ContextOK(c), Nothing(c)
  PROVE  Render(c) = <<>>
<1>1. c.buf = 0 /\ c.bpmf = 0 /\ ~(c.cur < c.buf)
  BY Sizes DEF ContextOK, Context, Nothing
<1>2. Render(c) = [i \in 1..0 |-> "zi"] \o [i \in 1..0 |-> "bpmf"]
  BY <1>1 DEF Render
<1>3. [i \in 1..0 |-> "zi"] = <<>> /\ [i \in 1..0 |-> "bpmf"] = <<>>
  OBVIOUS
<1> QED BY <1>2, <1>3, ConcatEmptySeq, EmptySeq

LEMMA RenderSame ==
  ASSUME NEW c, NEW d, d.buf = c.buf, d.cur = c.cur, d.bpmf = c.bpmf
  PROVE  Render(d) = Render(c)
  BY DEF Render

-----------------------------------------------------------------------------
(* Pieces of the component's functions. *)

LEMMA OnPagePositive ==
  ASSUME NEW c, ContextOK(c)
  PROVE  OnPage(c) \in Nat /\ (Choosing(c) <=> OnPage(c) > 0)
  BY Sizes DEF ContextOK, Context, Choosing, OnPage

LEMMA AckSound ==
  ASSUME NEW c, ContextOK(c)
  PROVE  /\ ContextOK(Ack(c)) /\ Ack(c).commit = 0
         /\ Choosing(Ack(c)) <=> Choosing(c)
         /\ OnPage(Ack(c)) = OnPage(c) /\ Render(Ack(c)) = Render(c)
         /\ Ack(c).bpmf = c.bpmf /\ Ack(c).buf = c.buf /\ Ack(c).chi = c.chi
         /\ Ack(c).pages = c.pages
<1> DEFINE d == Ack(c)
<1>1. /\ d \in Context /\ d.commit = 0
      /\ d.chi = c.chi /\ d.buf = c.buf /\ d.cur = c.cur /\ d.bpmf = c.bpmf
      /\ d.pages = c.pages /\ d.page = c.page /\ d.width = c.width /\ d.last = c.last
  BY DEF ContextOK, Context, Ack
<1> HIDE DEF d
<1>2. ContextOK(d) /\ (Choosing(d) <=> Choosing(c)) /\ OnPage(d) = OnPage(c)
  BY <1>1 DEF ContextOK, Choosing, OnPage
<1>3. Render(d) = Render(c)
  BY <1>1, RenderSame
<1> QED BY <1>1, <1>2, <1>3 DEF d

LEMMA ModeSound ==
  ASSUME NEW c, ContextOK(c), NEW b \in BOOLEAN
  PROVE  LET d == [c EXCEPT !.chi = b] IN
         /\ ContextOK(d) /\ d.chi = b /\ d.commit = c.commit
         /\ d.buf = c.buf /\ d.cur = c.cur /\ d.bpmf = c.bpmf /\ d.pages = c.pages
         /\ Choosing(d) <=> Choosing(c)
         /\ OnPage(d) = OnPage(c)
<1> DEFINE d == [c EXCEPT !.chi = b]
<1>1. /\ d \in Context /\ d.chi = b /\ d.commit = c.commit
      /\ d.buf = c.buf /\ d.cur = c.cur /\ d.bpmf = c.bpmf
      /\ d.pages = c.pages /\ d.page = c.page /\ d.width = c.width /\ d.last = c.last
  BY DEF ContextOK, Context
<1> HIDE DEF d
<1>2. ContextOK(d) /\ (Choosing(d) <=> Choosing(c)) /\ OnPage(d) = OnPage(c)
  BY <1>1 DEF ContextOK, Choosing, OnPage
<1> QED BY <1>1, <1>2 DEF d

\* ibus_chewing_pre_edit_update leaves the text of a sound context.
LEMMA UpdateText ==
  ASSUME NEW c, ContextOK(c), outgoing \in Nat, Update(c)
  PROVE  /\ TextInv' /\ OnPage(ctx') = OnPage(c) /\ (Choosing(ctx') <=> Choosing(c))
         /\ ctx'.bpmf = c.bpmf /\ ctx'.buf = c.buf /\ ctx'.chi = c.chi
         /\ ctx'.pages = c.pages /\ outgoing' = outgoing + c.commit
<1>1. /\ ctx' = Ack(c) /\ preEdit' = Render(c) /\ bpmfLen' = c.bpmf
      /\ outgoing' = outgoing + c.commit
  BY DEF Update
<1>2. c.commit \in Nat
  BY DEF ContextOK, Context
<1> QED BY <1>1, <1>2, AckSound DEF TextInv, CommitCollected, PreEditMirrorsContext

\* What a key adds to the text and to what is to be committed.
Typed ==
  \/ ctx'.buf + outgoing' \in {ctx.buf + outgoing, ctx.buf + outgoing + 1}
  \/ ctx'.buf < ctx.buf /\ outgoing' = outgoing

\* A key passed on leaves text and list as they were.
PassedIdle ==
  \/ consumed'
  \/ outgoing' = outgoing /\ ctx'.buf = ctx.buf /\ ctx'.pages = ctx.pages

\* What holds after the handler of a key.
Stepped ==
  /\ Core' /\ consumed' \in BOOLEAN
  /\ Typed /\ PassedIdle
  /\ Caught(ctx') => Caught(ctx)

Handled == Stepped /\ pending' \in [chi : BOOLEAN, full : BOOLEAN]

LEMMA ProcessCore ==
  ASSUME Core, NEW c, Yields(ctx, c), Process(c)
  PROVE  Stepped /\ ctx'.chi = c.chi
<1>0. ContextOK(c) /\ ContextOK(ctx)
  BY DEF Yields, Core, TextInv
<1>1. Update(c) /\ iTable' = [iTable EXCEPT !.n = OnPage(c), !.cur = 0]
      /\ tableShow' = (OnPage(c) > 0) /\ consumed' = TRUE
  BY DEF Process, UpdateTable
<1>2. /\ TextInv' /\ OnPage(ctx') = OnPage(c) /\ (Choosing(ctx') <=> Choosing(c))
      /\ ctx'.bpmf = c.bpmf /\ ctx'.buf = c.buf /\ ctx'.chi = c.chi
      /\ outgoing' = outgoing + c.commit
  BY <1>0, <1>1, UpdateText DEF Core, TextInv
<1>3. OnPage(c) \in Nat /\ (Choosing(c) <=> OnPage(c) > 0)
  BY <1>0, OnPagePositive
<1>4. /\ iTable' \in [n : Nat, cur : Nat, size : Nat \ {0}]
      /\ iTable'.n = OnPage(c) /\ iTable'.cur = 0
  BY <1>1, <1>3 DEF Core, TableInv
<1>5. \/ tableShow' = TRUE /\ Choosing(ctx')
      \/ tableShow' = FALSE /\ ~Choosing(ctx')
  <2>1. tableShow' = (OnPage(c) > 0)
    BY <1>1
  <2>2. CASE OnPage(c) > 0
    <3>1. tableShow' = TRUE
      BY ONLY <2>1, <2>2, Zenon
    <3> QED BY <1>2, <1>3, <2>2, <3>1
  <2>3. CASE ~(OnPage(c) > 0)
    <3>1. (OnPage(c) > 0) \in BOOLEAN
      BY <1>3
    <3>2. tableShow' = FALSE
      BY ONLY <2>1, <2>3, <3>1, Zenon
    <3> QED BY <1>2, <1>3, <2>3, <3>2
  <2> QED BY <2>2, <2>3
<1>6. TableInv'
  BY <1>2, <1>3, <1>4, <1>5 DEF TableInv, FlagCoversList, TableMirrorsList
<1>7. Typed
  <2>1. /\ ctx.buf \in Nat /\ c.buf \in Nat /\ c.commit \in Nat /\ outgoing \in Nat
        /\ Counts(ctx, c)
    BY <1>0, Sizes DEF ContextOK, Context, Core, TextInv, Yields
  <2> QED BY <1>2, <2>1 DEF Counts, Typed
<1>8. Caught(ctx') => Caught(ctx)
  BY <1>2 DEF Caught, Yields
<1> QED BY <1>1, <1>2, <1>6, <1>7, <1>8 DEF Core, Stepped, PassedIdle

\* A key that changes neither text nor list.
LEMMA IdleStepped ==
  ASSUME Core, Core', consumed' \in BOOLEAN, outgoing' = outgoing,
         ctx'.buf = ctx.buf, ctx'.pages = ctx.pages, Caught(ctx') => Caught(ctx)
  PROVE  Stepped
<1>1. ctx.buf + outgoing \in Int
  BY Sizes DEF Core, TextInv, ContextOK, Context
<1> QED BY <1>1 DEF Stepped, Typed, PassedIdle

LEMMA IgnoreCore ==
  ASSUME Core, Ignore
  PROVE  Stepped /\ ctx'.chi = ctx.chi
<1>1. Core' /\ consumed' \in BOOLEAN
  BY DEF Ignore, text, Core, TextInv, TableInv, CommitCollected,
         PreEditMirrorsContext, FlagCoversList, TableMirrorsList
<1>2. ctx' = ctx /\ outgoing' = outgoing
  BY DEF Ignore, text
<1> QED BY <1>1, <1>2, IdleStepped

\* A context that keeps the list of ctx, and its text but for the bopomofo.
KeepsList(d) ==
  /\ ContextOK(d) /\ d.buf = ctx.buf /\ d.cur = ctx.cur
  /\ d.bpmf = ctx.bpmf \/ d.bpmf = 0
  /\ d.pages = ctx.pages
  /\ Choosing(d) <=> Choosing(ctx)
  /\ OnPage(d) = OnPage(ctx)

LEMMA LeaveCore ==
  ASSUME Core, NEW d, KeepsList(d), d.commit = 0, NEW updated \in BOOLEAN,
         updated \/ d.bpmf = ctx.bpmf,
         Leave(d, updated), UNCHANGED <<iTable, tableShow>>
  PROVE  /\ Core' /\ ctx'.buf = ctx.buf /\ ctx'.pages = ctx.pages
         /\ ctx'.chi = d.chi /\ ctx'.bpmf = d.bpmf /\ outgoing' = outgoing
<1>1. /\ ctx'.bpmf = d.bpmf /\ ctx'.buf = d.buf /\ (Choosing(ctx') <=> Choosing(d))
      /\ ctx'.chi = d.chi /\ ctx'.pages = d.pages
      /\ OnPage(ctx') = OnPage(d) /\ TextInv' /\ outgoing' = outgoing
  <2>1. CASE updated
    <3>1. Update(d)
      BY <2>1 DEF Leave
    <3>2. outgoing \in Nat
      BY DEF Core, TextInv
    <3> QED BY <3>1, <3>2, UpdateText DEF KeepsList
  <2>2. CASE ~updated
    <3>1. ctx' = d /\ UNCHANGED <<preEdit, bpmfLen, outgoing>> /\ d.bpmf = ctx.bpmf
      BY <2>2 DEF Leave
    <3>2. Render(d) = Render(ctx)
      BY <3>1, RenderSame DEF KeepsList
    <3> QED BY <3>1, <3>2 DEF Core, TextInv, KeepsList, CommitCollected,
                              PreEditMirrorsContext
  <2> QED BY <2>1, <2>2
<1>2. TableInv'
  BY <1>1 DEF Core, KeepsList, TableInv, FlagCoversList, TableMirrorsList
<1> QED BY <1>1, <1>2 DEF Core, KeepsList

\* While a bopomofo is there no list is open, and the flag knows: so the Esc
\* of clear_bopomofo for the list is not called, and the other finds it.
LEMMA BopomofoIsCleared ==
  ASSUME Core, NEW c, KeepsList(c), c.bpmf > 0
  PROVE  /\ ClosedList(c) = c
         /\ KeepsList(BopomofoCleared(c))
         /\ BopomofoCleared(c).bpmf = 0 /\ BopomofoCleared(c).commit = 0
         /\ BopomofoCleared(c).chi = c.chi
<1>1. /\ ContextOK(c) /\ ~Choosing(c) /\ ~Choosing(ctx)
      /\ c.bpmf # 0 /\ ctx.bpmf # 0
  BY Sizes DEF KeepsList, ContextOK, Context
<1>2. ~tableShow
  BY <1>1 DEF Core, TableInv, FlagCoversList
<1>3. ClosedList(c) = c
  BY <1>2 DEF ClosedList
<1>4. BopomofoCleared(c) = Escaped(c, c.escAll)
  BY <1>3 DEF BopomofoCleared
<1> DEFINE e == Escaped(c, c.escAll)
<1>5. /\ ContextOK(e) /\ e.chi = c.chi /\ e.commit = 0 /\ ~Choosing(e)
      /\ e.bpmf = 0 /\ e.buf = c.buf /\ e.cur = c.cur
  BY <1>1, EscapedLevels
<1> HIDE DEF e
<1>6. e.pages = 0 /\ ctx.pages = 0
  BY <1>1, <1>5, Sizes DEF Choosing, ContextOK, Context, Core, TextInv
<1>7. KeepsList(e)
  BY <1>1, <1>5, <1>6 DEF KeepsList, OnPage
<1> QED BY <1>3, <1>4, <1>5, <1>7 DEF e

LEMMA ChiEngSetKeeps ==
  ASSUME Core, NEW c, KeepsList(c), c.commit = 0, NEW chi \in BOOLEAN
  PROVE  LET d == ChiEngSet(c, chi) IN
         /\ KeepsList(d) /\ d.chi = chi /\ d.commit = 0
         /\ UpdatesText(c, chi) \/ d.bpmf = c.bpmf
         /\ UpdatesText(c, chi) \in BOOLEAN
         /\ Caught(d) => Caught(c)
<1>1. ContextOK(c) /\ c.bpmf \in Nat
  BY Sizes DEF KeepsList, ContextOK, Context
<1>2. CASE DropsBopomofo(c, chi)
  <2> DEFINE e == BopomofoCleared(c)
  <2>1. c.bpmf > 0
    BY <1>2 DEF DropsBopomofo
  <2>2. ClosedList(c) = c /\ KeepsList(e) /\ e.bpmf = 0 /\ e.commit = 0
    BY <2>1, BopomofoIsCleared
  <2>3. ChiEngSet(c, chi) = [e EXCEPT !.chi = chi]
    BY <1>2 DEF ChiEngSet
  <2>4. UpdatesText(c, chi) = TRUE
    BY <1>2, <2>1, <2>2 DEF UpdatesText
  <2> HIDE DEF e
  <2>5. LET d == [e EXCEPT !.chi = chi] IN
        KeepsList(d) /\ d.chi = chi /\ d.commit = 0 /\ d.bpmf = 0
    BY <2>2, ModeSound DEF KeepsList
  <2> QED BY <2>3, <2>4, <2>5 DEF Caught
<1>3. CASE ~DropsBopomofo(c, chi)
  <2>1. ChiEngSet(c, chi) = [c EXCEPT !.chi = chi]
    BY <1>3 DEF ChiEngSet
  <2>2. chi \/ ~c.chi \/ ~(c.bpmf > 0)
    BY <1>3 DEF DropsBopomofo
  <2>3. UpdatesText(c, chi) = FALSE
    BY <1>3 DEF UpdatesText
  <2> DEFINE d == [c EXCEPT !.chi = chi]
  <2>4. KeepsList(d) /\ d.chi = chi /\ d.commit = 0 /\ d.bpmf = c.bpmf
    BY <1>1, ModeSound DEF KeepsList
  <2> HIDE DEF d
  <2>5. Caught(d) => Caught(c)
    BY <2>2, <2>4 DEF Caught
  <2> QED BY <2>1, <2>3, <2>4, <2>5 DEF d
<1> QED BY <1>2, <1>3

-----------------------------------------------------------------------------
(* The handlers. *)

LEMMA FreshKeeps ==
  ASSUME NEW c, KeepsList(c)
  PROVE  KeepsList(Fresh(c)) /\ Fresh(c).bpmf = c.bpmf /\ Fresh(c).chi = c.chi
         /\ Fresh(c).commit = 0
<1>1. OnPage(Fresh(c)) = OnPage(c) /\ Fresh(c).pages = c.pages
  BY DEF KeepsList, ContextOK, Context, OnPage, Choosing, Fresh
<1> QED BY <1>1, FreshSound DEF KeepsList, SameText

\* A key handed to libchewing in the mode of ctx or in English mode, with the
\* mode of ctx restored after it.
LEMMA KeySymDefaultCore ==
  ASSUME Core, NEW c, KeepsList(c), c.chi = FALSE \/ c.chi = ctx.chi,
         NEW updated \in BOOLEAN, updated \/ c.bpmf = ctx.bpmf,
         NEW k, NEW m, KeySymDefault(c, k, m, updated)
  PROVE  Stepped /\ ctx'.chi = ctx.chi
<1>1. /\ ctx.chi \in BOOLEAN /\ ContextOK(c) /\ c.bpmf \in Nat
      /\ c.bpmf = ctx.bpmf \/ c.bpmf = 0
      /\ c.buf = ctx.buf
  BY Sizes DEF Core, TextInv, ContextOK, Context, KeepsList
<1>2. CASE \E d \in Default(c, KeySymFix(c, k, m)) : Process([d EXCEPT !.chi = ctx.chi])
  <2>1. PICK d \in Default(c, KeySymFix(c, k, m)) : Process([d EXCEPT !.chi = ctx.chi])
    BY <1>2
  <2>2. ContextOK(d) /\ d.chi = c.chi /\ Counts(c, d) /\ (Caught(d) => Caught(c))
    BY <1>1, DefaultFollows DEF Follows, Yields
  <2> DEFINE e == [d EXCEPT !.chi = ctx.chi]
  <2>3. /\ ContextOK(e) /\ e.chi = ctx.chi /\ e.commit = d.commit /\ e.buf = d.buf
        /\ e.bpmf = d.bpmf
    BY <1>1, <2>2, ModeSound
  <2>4. Process(e)
    BY <2>1
  <2> HIDE DEF e
  <2>5. Caught(e) => Caught(ctx)
    <3> SUFFICES ASSUME Caught(e) PROVE Caught(ctx)
      OBVIOUS
    <3>1. ~ctx.chi /\ d.bpmf > 0
      BY <2>3 DEF Caught
    <3>2. ~c.chi
      BY <3>1, Zenon
    <3>3. c.bpmf > 0
      BY <2>2, <3>1, <3>2 DEF Caught
    <3>4. ctx.bpmf > 0
      BY <1>1, <3>3
    <3> QED BY <3>1, <3>4 DEF Caught
  <2>6. Counts(ctx, e)
    BY <1>1, <2>2, <2>3 DEF Counts
  <2> QED BY <2>3, <2>4, <2>5, <2>6, ProcessCore DEF Yields
<1>3. CASE /\ Leave([Fresh(c) EXCEPT !.chi = ctx.chi], updated)
           /\ consumed' \in BOOLEAN
           /\ UNCHANGED <<iTable, tableShow>>
  <2> DEFINE f == Fresh(c)
             d == [f EXCEPT !.chi = ctx.chi]
  <2>1. KeepsList(f) /\ f.bpmf = c.bpmf /\ f.chi = c.chi /\ f.commit = 0
    BY FreshKeeps
  <2> HIDE DEF f
  <2>2. KeepsList(d) /\ d.commit = 0 /\ d.bpmf = c.bpmf /\ d.chi = ctx.chi
    BY <1>1, <2>1, ModeSound DEF KeepsList
  <2>3. Leave(d, updated)
    BY <1>3 DEF f
  <2> HIDE DEF d
  <2>4. /\ Core' /\ ctx'.buf = ctx.buf /\ ctx'.pages = ctx.pages
        /\ ctx'.chi = ctx.chi /\ ctx'.bpmf = c.bpmf /\ outgoing' = outgoing
    BY <1>3, <2>2, <2>3, LeaveCore
  <2>5. Caught(ctx') => Caught(ctx)
    BY <1>1, <2>4 DEF Caught
  <2> QED BY <1>3, <2>4, <2>5, IdleStepped
<1> QED BY <1>2, <1>3 DEF KeySymDefault

LEMMA CtxKeeps ==
  ASSUME Core
  PROVE  ContextOK(ctx) /\ KeepsList(ctx) /\ ctx.commit = 0
  BY DEF Core, TextInv, CommitCollected, KeepsList

\* A call of libchewing that ends in Process.
LEMMA FollowCore ==
  ASSUME Core, NEW contexts, \A d \in contexts : Follows(ctx, d),
         \E d \in contexts : Process(d)
  PROVE  Stepped /\ ctx'.chi = ctx.chi
  BY ProcessCore DEF Follows

LEMMA EditingCore ==
  ASSUME Core, NEW m, NEW allowed, NEW contexts, \A d \in contexts : Follows(ctx, d),
         Editing(m, allowed, contexts)
  PROVE  Stepped /\ ctx'.chi = ctx.chi /\ pending' = pending
<1>1. Ignore \/ \E d \in contexts : Process(d)
  BY DEF Editing
<1>2. pending' = pending
  BY DEF Editing
<1> QED BY <1>1, <1>2, FollowCore, IgnoreCore

LEMMA NumberCore ==
  ASSUME Core, NEW k, NEW m,
         NEW c, KeepsList(c), c.chi = FALSE \/ c.chi = ctx.chi, NEW bare,
         NEW updated \in BOOLEAN, updated \/ c.bpmf = ctx.bpmf, NEW j,
         Number(k, m, bare, KeySymDefault(c, j, m, updated))
  PROVE  Stepped /\ ctx'.chi = ctx.chi /\ pending' = pending
<1>1. \/ \E d \in CtrlNum(ctx) : Process(d)
      \/ KeySymDefault(c, j, m, updated)
      \/ Ignore
  BY DEF Number
<1>2. pending' = pending
  BY DEF Number
<1>3. \A d \in CtrlNum(ctx) : Follows(ctx, d)
  BY CtxKeeps, CtrlNumFollows
<1>4. CASE \E d \in CtrlNum(ctx) : Process(d)
  BY <1>2, <1>3, <1>4, FollowCore
<1>5. CASE KeySymDefault(c, j, m, updated)
  BY <1>2, <1>5, KeySymDefaultCore
<1>6. CASE Ignore
  BY <1>2, <1>6, IgnoreCore
<1> QED BY <1>1, <1>4, <1>5, <1>6

LEMMA CharacterCore ==
  ASSUME Core, NEW k, NEW m,
         HandleDefault(k, m) \/ HandleNum(k, m) \/ HandleNumKeypad(k, m)
  PROVE  Stepped /\ ctx'.chi = ctx.chi /\ pending' = pending
<1>1. KeepsList(ctx)
  BY CtxKeeps
<1>2. CASE HandleDefault(k, m)
  <2>1. KeySymDefault(ctx, k, m, FALSE) \/ Ignore
    BY <1>2 DEF HandleDefault
  <2>2. pending' = pending
    BY <1>2 DEF HandleDefault
  <2> QED BY <1>1, <2>1, <2>2, KeySymDefaultCore, IgnoreCore
<1>3. CASE HandleNum(k, m)
  <2>1. Number(k, m, Bare(m) /\ ~ctx.chi, KeySymDefault(ctx, k, m, FALSE))
    BY <1>3 DEF HandleNum
  <2> QED BY <1>1, <2>1, NumberCore
<1>4. CASE HandleNumKeypad(k, m)
  <2> DEFINE c == ChiEngSet(ctx, FALSE)
             u == UpdatesText(ctx, FALSE)
  <2>1. /\ KeepsList(c) /\ c.chi = FALSE /\ (u \/ c.bpmf = ctx.bpmf)
        /\ u \in BOOLEAN
    BY CtxKeeps, ChiEngSetKeeps
  <2>2. Number(k, m, Bare(m), KeySymDefault(c, KPNormal[k], m, u))
    BY <1>4 DEF HandleNumKeypad
  <2> HIDE DEF c, u
  <2> QED BY <2>1, <2>2, NumberCore
<1> QED BY <1>2, <1>3, <1>4

LEMMA CapsLockCore ==
  ASSUME Core, NEW m, HandleCapsLock(m)
  PROVE  Stepped /\ (ctx'.chi = ctx.chi \/ conf.toggle = "c") /\ pending' = pending
<1> DEFINE c == IF DropsBopomofo(ctx, FALSE) THEN BopomofoCleared(ctx) ELSE ctx
<1>1. /\ ContextOK(c)
      /\ c.bpmf = 0 \/ ~c.chi
      /\ c.buf = ctx.buf /\ c.chi = ctx.chi
      /\ c.bpmf = 0 \/ c.bpmf = ctx.bpmf
  <2>1. CASE DropsBopomofo(ctx, FALSE)
    <3>1. ctx.bpmf > 0
      BY <2>1 DEF DropsBopomofo
    <3> QED BY <2>1, <3>1, CtxKeeps, BopomofoIsCleared DEF KeepsList
  <2>2. CASE ~DropsBopomofo(ctx, FALSE)
    BY <2>2, CtxKeeps, Sizes DEF DropsBopomofo, ContextOK, Context
  <2> QED BY <2>1, <2>2
<1>2. (conf.toggle = "c" /\ \E d \in Capslock(c) : Process(d)) \/ Ignore
  BY DEF HandleCapsLock
<1>3. pending' = pending
  BY DEF HandleCapsLock
<1> HIDE DEF c
<1>4. \A d \in Capslock(c) : Yields(ctx, d)
  <2> SUFFICES ASSUME NEW d \in Capslock(c) PROVE Yields(ctx, d)
    OBVIOUS
  <2>1. Yields(c, d)
    BY <1>1, CapslockYields
  <2>2. Counts(ctx, d)
    BY <1>1, <2>1 DEF Yields, Counts
  <2>3. Caught(c) => Caught(ctx)
    BY <1>1 DEF Caught
  <2> QED BY <2>1, <2>2, <2>3 DEF Yields
<1> QED BY <1>2, <1>3, <1>4, ProcessCore, IgnoreCore

LEMMA ShiftCore ==
  ASSUME Core, pending \in [chi : BOOLEAN, full : BOOLEAN], NEW m, NEW toggles,
         HandleShift(m, toggles)
  PROVE  Handled /\ (ctx'.chi = ctx.chi \/ QuickShift(m, toggles))
<1>1. CASE Ignore /\ UNCHANGED pending
  BY <1>1, IgnoreCore DEF Handled
<1>2. CASE /\ QuickShift(m, toggles)
           /\ Leave(ChiEngSet(ctx, ~ctx.chi), UpdatesText(ctx, ~ctx.chi))
           /\ pending' = [pending EXCEPT !.chi = TRUE]
           /\ consumed' = FALSE
           /\ UNCHANGED <<iTable, tableShow>>
  <2>1. ctx.chi \in BOOLEAN /\ KeepsList(ctx) /\ ctx.commit = 0
    BY CtxKeeps DEF ContextOK, Context
  <2>2. PICK chi \in BOOLEAN : chi = ~ctx.chi
    BY <2>1, Zenon
  <2> DEFINE d == ChiEngSet(ctx, chi)
             u == UpdatesText(ctx, chi)
  <2>3. /\ KeepsList(d) /\ d.commit = 0 /\ (u \/ d.bpmf = ctx.bpmf) /\ u \in BOOLEAN
        /\ Caught(d) => Caught(ctx)
    BY <2>1, ChiEngSetKeeps
  <2>4. Leave(d, u)
    BY <1>2, <2>2
  <2> HIDE DEF d, u
  <2>5. /\ Core' /\ ctx'.buf = ctx.buf /\ ctx'.pages = ctx.pages
        /\ ctx'.chi = d.chi /\ ctx'.bpmf = d.bpmf /\ outgoing' = outgoing
    BY <1>2, <2>3, <2>4, LeaveCore
  <2>6. Caught(ctx') => Caught(ctx)
    BY <2>3, <2>5 DEF Caught
  <2>7. pending' \in [chi : BOOLEAN, full : BOOLEAN]
    BY <1>2
  <2>8. consumed' \in BOOLEAN
    BY <1>2, Zenon
  <2>9. Stepped
    BY <2>5, <2>6, <2>8, IdleStepped
  <2> QED BY <1>2, <2>7, <2>9 DEF Handled
<1> QED BY <1>1, <1>2 DEF HandleShift

LEMMA PageUpCore ==
  ASSUME Core, NEW m, HandlePageUp(m)
  PROVE  Stepped /\ ctx'.chi = ctx.chi /\ pending' = pending
<1> DEFINE D == PageUp(ctx) \cup (IF tableShow /\ Choosing(ctx) /\ ctx.page = 0
                                  THEN Down(ctx) ELSE {})
<1>1. \A d \in D : Follows(ctx, d)
  BY CtxKeeps, MovingFollows, DownFollows
<1>2. Editing(m, {}, D)
  BY DEF HandlePageUp
<1> QED BY <1>1, <1>2, EditingCore

LEMMA PageDownCore ==
  ASSUME Core, NEW m, HandlePageDown(m)
  PROVE  Stepped /\ ctx'.chi = ctx.chi /\ pending' = pending
<1> DEFINE D == IF tableShow /\ ctx.page = ctx.pages - 1 THEN Down(ctx) ELSE PageDown(ctx)
<1>1. \A d \in D : Follows(ctx, d)
  BY CtxKeeps, MovingFollows, DownFollows
<1>2. Editing(m, {}, D)
  BY DEF HandlePageDown
<1> QED BY <1>1, <1>2, EditingCore

LEMMA SpaceCore ==
  ASSUME Core, pending \in [chi : BOOLEAN, full : BOOLEAN], NEW m, HandleSpace(m)
  PROVE  Handled /\ ctx'.chi = ctx.chi
<1>1. CASE /\ \E c \in ShiftSpace(ctx) : Process(c)
           /\ pending' = [pending EXCEPT !.full = TRUE]
  <2>1. \A c \in ShiftSpace(ctx) : Follows(ctx, c)
    BY CtxKeeps, ShiftSpaceFollows
  <2>2. pending' \in [chi : BOOLEAN, full : BOOLEAN]
    BY <1>1
  <2> QED BY <1>1, <2>1, <2>2, FollowCore DEF Handled
<1>2. CASE (\E c \in Space(ctx) : Process(c)) /\ UNCHANGED pending
  <2>1. \A c \in Space(ctx) : Follows(ctx, c)
    BY CtxKeeps, SpaceFollows
  <2> QED BY <1>2, <2>1, FollowCore DEF Handled
<1>3. CASE Ignore /\ UNCHANGED pending
  BY <1>3, IgnoreCore DEF Handled
<1> QED BY <1>1, <1>2, <1>3 DEF HandleSpace

LEMMA ReturnCore ==
  ASSUME Core, NEW m, HandleReturn(m)
  PROVE  Stepped /\ ctx'.chi = ctx.chi /\ pending' = pending
<1>1. \/ KeySymDefault(ctx, ctx.selKeys[CursorInPage + 1], m, FALSE)
      \/ \E c \in Enter(ctx) : Process(c)
      \/ Ignore
  BY DEF HandleReturn
<1>2. pending' = pending
  BY DEF HandleReturn
<1>3. \A c \in Enter(ctx) : Follows(ctx, c)
  BY CtxKeeps, EnterFollows
<1>4. CASE KeySymDefault(ctx, ctx.selKeys[CursorInPage + 1], m, FALSE)
  BY <1>2, <1>4, CtxKeeps, KeySymDefaultCore
<1>5. CASE \E c \in Enter(ctx) : Process(c)
  BY <1>2, <1>3, <1>5, FollowCore
<1>6. CASE Ignore
  BY <1>2, <1>6, IgnoreCore
<1> QED BY <1>1, <1>4, <1>5, <1>6

\* The keys that ask libchewing to edit its text.
LEMMA EditKeysCore ==
  ASSUME Core, NEW m,
         \/ HandleBackspace(m) \/ HandleDelete(m) \/ HandleEscape(m)
         \/ HandleTab(m) \/ HandleHome(m) \/ HandleEnd(m)
  PROVE  Stepped /\ ctx'.chi = ctx.chi /\ pending' = pending
<1> DEFINE D == Backspace(ctx) \cup Del(ctx) \cup Esc(ctx) \cup Tab(ctx)
                  \cup Home(ctx) \cup End(ctx)
<1>1. \A d \in D : Follows(ctx, d)
  <2>1. \A d \in Backspace(ctx) \cup Del(ctx) : Follows(ctx, d)
    BY CtxKeeps, DeletingFollows
  <2>2. \A d \in Esc(ctx) : Follows(ctx, d)
    BY CtxKeeps, EscFollows
  <2>3. \A d \in Tab(ctx) \cup Home(ctx) \cup End(ctx) : Follows(ctx, d)
    BY CtxKeeps, MovingFollows
  <2> QED BY <2>1, <2>2, <2>3
<1>2. PICK contexts \in SUBSET D : Editing(m, {}, contexts)
  BY DEF HandleBackspace, HandleDelete, HandleEscape, HandleTab, HandleHome, HandleEnd
<1> HIDE DEF D
<1>3. \A d \in contexts : Follows(ctx, d)
  BY <1>1
<1> QED BY <1>2, <1>3, EditingCore

\* The cursor of the table stays inside the page it holds.
LEMMA CursorCore ==
  ASSUME Core, NEW vertical, CursorUp(vertical) \/ CursorDown(vertical), Absorb
  PROVE  Stepped /\ ctx'.chi = ctx.chi
<1>1. /\ consumed' = TRUE
      /\ UNCHANGED <<ctx, preEdit, bpmfLen, outgoing, tableShow>>
  BY DEF Absorb, text
<1>2. /\ iTable \in [n : Nat, cur : Nat, size : Nat \ {0}]
      /\ Choosing(ctx) => iTable.cur < iTable.n
  BY DEF Core, TableInv, TableMirrorsList
<1>3. /\ iTable' \in [n : Nat, cur : Nat, size : Nat \ {0}]
      /\ iTable'.n = iTable.n
      /\ iTable.cur < iTable.n => iTable'.cur < iTable'.n
  <2>1. CASE CursorUp(vertical)
    <3>1. iTable.cur % iTable.size > 0 /\ iTable' = [iTable EXCEPT !.cur = iTable.cur - 1]
      BY <2>1 DEF CursorUp, CursorInPage
    <3>2. iTable.cur > 0
      <4>1. iTable.cur = 0 => iTable.cur % iTable.size = 0
        BY <1>2
      <4> QED BY <1>2, <3>1, <4>1
    <3> QED BY <1>2, <3>1, <3>2
  <2>2. CASE CursorDown(vertical)
    <3> DEFINE i == IF iTable.cur = iTable.n - 1 THEN 0 ELSE iTable.cur + 1
    <3>1. iTable' = [iTable EXCEPT !.cur = i]
      BY <2>2 DEF CursorDown
    <3>2. i \in Nat /\ (iTable.cur < iTable.n => i < iTable.n)
      BY <1>2
    <3> HIDE DEF i
    <3> QED BY <1>2, <3>1, <3>2
  <2> QED BY <2>1, <2>2
<1>4. TextInv'
  BY <1>1 DEF Core, TextInv, CommitCollected, PreEditMirrorsContext
<1>5. TableInv'
  BY <1>1, <1>2, <1>3 DEF Core, TableInv, FlagCoversList, TableMirrorsList
<1>6. Core' /\ ctx' = ctx /\ outgoing' = outgoing /\ consumed' \in BOOLEAN
  BY <1>1, <1>4, <1>5 DEF Core
<1> QED BY <1>6, IdleStepped

LEMMA ArrowsCore ==
  ASSUME Core, NEW m, HandleLeft(m) \/ HandleUp(m) \/ HandleRight(m) \/ HandleDown(m)
  PROVE  Stepped /\ ctx'.chi = ctx.chi /\ pending' = pending
<1> DEFINE D == Left(ctx) \cup ShiftLeft(ctx) \cup Up(ctx) \cup Right(ctx)
                  \cup ShiftRight(ctx) \cup Down(ctx)
<1>1. \A d \in D : Follows(ctx, d)
  BY CtxKeeps, MovingFollows, DownFollows
<1>2. \/ \E vertical \in BOOLEAN : /\ CursorUp(vertical) \/ CursorDown(vertical)
                                   /\ Absorb /\ UNCHANGED pending
      \/ HandlePageUp(m) \/ HandlePageDown(m)
      \/ \E contexts \in SUBSET D, allowed \in {{}, {"Shift"}} :
           Editing(m, allowed, contexts)
  <2>1. CASE HandleLeft(m)
    <3>1. PICK contexts \in SUBSET D :
            Backward(m, FALSE, Editing(m, {"Shift"}, contexts))
      BY <2>1 DEF HandleLeft
    <3> QED BY <3>1 DEF Backward
  <2>2. CASE HandleUp(m)
    <3>1. PICK contexts \in SUBSET D : Backward(m, TRUE, Editing(m, {}, contexts))
      BY <2>2 DEF HandleUp
    <3> QED BY <3>1 DEF Backward
  <2>3. CASE HandleRight(m)
    <3>1. PICK contexts \in SUBSET D :
            Forward(m, FALSE, Editing(m, {"Shift"}, contexts))
      BY <2>3 DEF HandleRight
    <3> QED BY <3>1 DEF Forward
  <2>4. CASE HandleDown(m)
    <3>1. PICK contexts \in SUBSET D : Forward(m, TRUE, Editing(m, {}, contexts))
      BY <2>4 DEF HandleDown
    <3> QED BY <3>1 DEF Forward
  <2> QED BY <2>1, <2>2, <2>3, <2>4
<1> HIDE DEF D
<1>3. CASE \E vertical \in BOOLEAN : /\ CursorUp(vertical) \/ CursorDown(vertical)
                                     /\ Absorb /\ UNCHANGED pending
  BY <1>3, CursorCore
<1>4. CASE HandlePageUp(m) \/ HandlePageDown(m)
  BY <1>4, PageUpCore, PageDownCore
<1>5. CASE \E contexts \in SUBSET D, allowed \in {{}, {"Shift"}} :
             Editing(m, allowed, contexts)
  <2>1. PICK contexts \in SUBSET D, allowed \in {{}, {"Shift"}} :
          Editing(m, allowed, contexts)
    BY <1>5
  <2>2. \A d \in contexts : Follows(ctx, d)
    BY <1>1
  <2> QED BY <2>1, <2>2, EditingCore
<1> QED BY <1>2, <1>3, <1>4, <1>5

-----------------------------------------------------------------------------
(* The steps. *)

\* The keys that toggle the language.
TogglesBy(k, m) ==
  \/ k = "Caps_Lock" /\ conf.toggle = "c"
  \/ /\ k \in ShiftKeys /\ "Release" \in m
     /\ keyLast = "Shift" /\ conf.toggle \in {"s", "l", "r"}

LEMMA DispatchCore ==
  ASSUME Core, pending \in [chi : BOOLEAN, full : BOOLEAN],
         NEW k, NEW m, Dispatch(k, m)
  PROVE  Handled /\ (ctx'.chi = ctx.chi \/ TogglesBy(k, m))
<1>1. CASE HandleDefault(k, m) \/ HandleNum(k, m) \/ HandleNumKeypad(k, m)
  BY <1>1, CharacterCore DEF Handled
<1>2. CASE k = "Caps_Lock" /\ HandleCapsLock(m)
  BY <1>2, CapsLockCore DEF Handled, TogglesBy
<1>3. CASE k \in ShiftKeys /\ (HandleShiftLeft(m) \/ HandleShiftRight(m))
  <2>1. HandleShift(m, {"s", "l"}) \/ HandleShift(m, {"s", "r"})
    BY <1>3 DEF HandleShiftLeft, HandleShiftRight
  <2>2. QuickShift(m, {"s", "l"}) \/ QuickShift(m, {"s", "r"}) => TogglesBy(k, m)
    BY <1>3 DEF QuickShift, TogglesBy
  <2> QED BY <2>1, <2>2, ShiftCore
<1>4. CASE HandleSpace(m)
  BY <1>4, SpaceCore
<1>5. CASE HandleReturn(m)
  BY <1>5, ReturnCore DEF Handled
<1>6. CASE \/ HandleBackspace(m) \/ HandleDelete(m) \/ HandleEscape(m)
           \/ HandleTab(m) \/ HandleHome(m) \/ HandleEnd(m)
  BY <1>6, EditKeysCore DEF Handled
<1>7. CASE HandleLeft(m) \/ HandleUp(m) \/ HandleRight(m) \/ HandleDown(m)
  BY <1>7, ArrowsCore DEF Handled
<1>8. CASE HandlePageUp(m) \/ HandlePageDown(m)
  BY <1>8, PageUpCore, PageDownCore DEF Handled
<1>9. CASE HandleSpecial
  BY <1>9, IgnoreCore DEF HandleSpecial, Handled
<1> QED BY <1>1, <1>2, <1>3, <1>4, <1>5, <1>6, <1>7, <1>8, <1>9 DEF Dispatch, ShiftKeys

LEMMA ProcessKeyStep ==
  ASSUME Core, KeyInv, NEW k, NEW m, ProcessKey(k, m)
  PROVE  Stepped /\ KeyInv' /\ (ctx'.chi = ctx.chi \/ TogglesBy(k, m))
<1>1. pending \in [chi : BOOLEAN, full : BOOLEAN]
  BY DEF KeyInv
<1>2. conf' = conf
  BY DEF ProcessKey
<1>3. keyLast' \in {"Shift", "other"} /\ held' \in 0..3
  BY <1>1 DEF ProcessKey, RecordKey, KeyInv
<1>4. Handled /\ (ctx'.chi = ctx.chi \/ TogglesBy(k, m))
  <2>1. \/ Ignore /\ UNCHANGED pending
        \/ Dispatch(k, m)
    BY DEF ProcessKey
  <2>2. CASE Ignore /\ UNCHANGED pending
    BY <1>1, <2>2, IgnoreCore DEF Handled
  <2>3. CASE Dispatch(k, m)
    BY <1>1, <2>3, DispatchCore
  <2> QED BY <2>1, <2>2, <2>3
<1>5. KeyInv'
  BY <1>2, <1>3, <1>4 DEF KeyInv, Handled, Stepped
<1> QED BY <1>4, <1>5 DEF Handled

LEMMA KeyStep ==
  ASSUME IInv, NEW k, NEW m, ProcessKey(k, m)
  PROVE  IInv'
<1>1. Stepped /\ KeyInv'
  BY ProcessKeyStep DEF IInv
<1> QED BY <1>1 DEF IInv, Stepped

\* The two or three Esc calls of clear_pre_edit take as many levels off as
\* there are: the flag of the table tells whether a list is one of them, or
\* that nothing is left at all.
LEMMA PreEditClearedSound ==
  ASSUME NEW c, ContextOK(c), tableShow \in BOOLEAN, Choosing(c) => tableShow
  PROVE  /\ ContextOK(PreEditCleared(c)) /\ Nothing(PreEditCleared(c))
         /\ PreEditCleared(c).commit = 0 /\ PreEditCleared(c).chi = c.chi
<1> DEFINE d == ClosedList(c)
           e == BopomofoCleared(c)
           f == PreEditCleared(c)
<1>1. ContextOK(d) /\ ~Choosing(d) /\ d.chi = c.chi
  <2>1. CASE tableShow
    <3>1. d = Escaped(c, c.escAll)
      BY <2>1 DEF ClosedList
    <3> QED BY <3>1, EscapedLevels
  <2>2. CASE ~tableShow
    BY <2>2 DEF ClosedList
  <2> QED BY <2>1, <2>2
<1>2. e = IF d.bpmf > 0 THEN Escaped(d, d.escAll) ELSE d
  BY DEF BopomofoCleared
<1>3. f = Escaped(e, TRUE)
  BY DEF PreEditCleared
<1> HIDE DEF d, e, f
<1>4. ContextOK(e) /\ ~Choosing(e) /\ e.bpmf = 0 /\ e.chi = c.chi
  <2>1. d.bpmf \in Nat
    BY <1>1, Sizes DEF ContextOK, Context
  <2>2. CASE d.bpmf > 0
    <3> DEFINE x == Escaped(d, d.escAll)
    <3>1. e = x
      BY <1>2, <2>2
    <3>2. ContextOK(x) /\ ~Choosing(x) /\ x.bpmf = 0 /\ x.chi = d.chi
      BY <1>1, <2>2, EscapedLevels
    <3> HIDE DEF x
    <3> QED BY <1>1, <3>1, <3>2
  <2>3. CASE ~(d.bpmf > 0)
    BY <1>1, <1>2, <2>1, <2>3
  <2> QED BY <2>2, <2>3
<1>5. /\ ContextOK(f) /\ ~Choosing(f) /\ f.commit = 0 /\ f.bpmf = 0 /\ f.buf = 0
      /\ f.chi = e.chi
  BY <1>3, <1>4, EscapedLevels
<1> QED BY <1>4, <1>5 DEF f, Nothing

\* What a clear leaves, with what was committed put in outgoing or not.
LEMMA ClearedCore ==
  ASSUME Core, NEW c, ContextOK(c), Choosing(c) => tableShow,
         LET d == PreEditCleared(c) IN
           ctx' = Ack(d) /\ preEdit' = Render(d) /\ bpmfLen' = d.bpmf,
         outgoing' \in Nat, UNCHANGED <<iTable, tableShow>>
  PROVE  Core' /\ Nothing(ctx') /\ preEdit' = <<>> /\ ctx'.chi = c.chi
<1> DEFINE d == PreEditCleared(c)
<1>1. ContextOK(d) /\ Nothing(d) /\ d.chi = c.chi
  BY PreEditClearedSound DEF Core, TableInv
<1>2. ctx' = Ack(d) /\ preEdit' = Render(d) /\ bpmfLen' = d.bpmf
  OBVIOUS
<1> HIDE DEF d
<1>3. /\ ContextOK(ctx') /\ ctx'.commit = 0 /\ Nothing(ctx')
      /\ preEdit' = Render(ctx') /\ bpmfLen' = ctx'.bpmf
      /\ ctx'.chi = c.chi
  BY <1>1, <1>2, AckSound DEF Nothing
<1>4. preEdit' = <<>>
  BY <1>1, <1>2, RenderOfNothing
<1>5. TextInv'
  BY <1>3 DEF TextInv, CommitCollected, PreEditMirrorsContext
<1>6. TableInv'
  BY <1>3 DEF Core, TableInv, FlagCoversList, TableMirrorsList, Nothing
<1> QED BY <1>3, <1>4, <1>5, <1>6 DEF Core

LEMMA CtxClears ==
  ASSUME Core
  PROVE  /\ ContextOK(ctx) /\ tableShow \in BOOLEAN /\ (Choosing(ctx) => tableShow)
         /\ PreEditCleared(ctx).commit = 0
<1>1. ContextOK(ctx) /\ tableShow \in BOOLEAN /\ (Choosing(ctx) => tableShow)
  BY DEF Core, TextInv, TableInv, FlagCoversList
<1> QED BY <1>1, PreEditClearedSound

LEMMA NothingIsNotCaught ==
  ASSUME NEW c, Nothing(c)
  PROVE  ~Caught(c)
  BY DEF Nothing, Caught

LEMMA ClearStep ==
  ASSUME Core, Clear
  PROVE  /\ Core' /\ Nothing(ctx') /\ preEdit' = <<>> /\ outgoing' = 0
         /\ ctx'.chi = ctx.chi
<1>1. outgoing' = 0
  BY CtxClears DEF Clear
<1>2. outgoing' \in Nat
  BY <1>1
<1>3. Core' /\ Nothing(ctx') /\ preEdit' = <<>> /\ ctx'.chi = ctx.chi
  BY <1>2, CtxClears, ClearedCore DEF Clear
<1> QED BY <1>1, <1>3

LEMMA ForceCommitStep ==
  ASSUME Core, ForceCommit
  PROVE  Core' /\ Nothing(ctx') /\ ctx'.chi = ctx.chi
<1>1. outgoing \in Nat /\ preEdit \in Seq({"zi", "bpmf"})
  BY RenderTyped DEF Core, TextInv, PreEditMirrorsContext
<1>2. outgoing' = outgoing + Len(preEdit) + 0
  BY CtxClears DEF ForceCommit
<1>3. outgoing' \in Nat
  BY <1>1, <1>2
<1> QED BY <1>3, CtxClears, ClearedCore DEF ForceCommit

LEMMA SetChiEngModeStep ==
  ASSUME Core, NEW chi \in BOOLEAN, SetChiEngMode(chi)
  PROVE  /\ Core' /\ ctx'.chi = chi /\ ctx'.buf = ctx.buf /\ ctx'.pages = ctx.pages
         /\ outgoing' = outgoing
         /\ Caught(ctx') => Caught(ctx)
<1> DEFINE d == ChiEngSet(ctx, chi)
           u == UpdatesText(ctx, chi)
<1>1. /\ KeepsList(d) /\ d.commit = 0 /\ (u \/ d.bpmf = ctx.bpmf) /\ u \in BOOLEAN
      /\ d.chi = chi /\ (Caught(d) => Caught(ctx))
  BY CtxKeeps, ChiEngSetKeeps
<1>2. Leave(d, u) /\ UNCHANGED <<iTable, tableShow>>
  BY DEF SetChiEngMode
<1> HIDE DEF d, u
<1>3. /\ Core' /\ ctx'.buf = ctx.buf /\ ctx'.pages = ctx.pages
      /\ ctx'.chi = d.chi /\ ctx'.bpmf = d.bpmf /\ outgoing' = outgoing
  BY <1>1, <1>2, LeaveCore
<1> QED BY <1>1, <1>3 DEF Caught

LEMMA SetFullHalfModeStep ==
  ASSUME Core, NEW full \in BOOLEAN, SetFullHalfMode(full)
  PROVE  /\ Core' /\ ctx'.chi = ctx.chi /\ ctx'.buf = ctx.buf /\ ctx'.pages = ctx.pages
         /\ outgoing' = outgoing
         /\ Caught(ctx') => Caught(ctx)
<1> DEFINE drops == ctx.chi /\ ctx.bpmf > 0
           c == IF drops THEN BopomofoCleared(ctx) ELSE ctx
           d == [c EXCEPT !.full = full]
           u == drops /\ ClosedList(ctx).bpmf > 0
<1>1. KeepsList(ctx) /\ ctx.commit = 0 /\ ctx.bpmf \in Nat
  BY CtxKeeps, Sizes DEF ContextOK, Context
<1>2. /\ KeepsList(c) /\ c.commit = 0 /\ (u \/ c.bpmf = ctx.bpmf)
      /\ c.chi = ctx.chi
  <2>1. CASE drops
    BY <1>1, <2>1, BopomofoIsCleared
  <2>2. CASE ~drops
    BY <1>1, <2>2
  <2> QED BY <2>1, <2>2
<1>3. PICK updated \in BOOLEAN : updated = u
  <2>1. (drops /\ ClosedList(ctx).bpmf > 0) \in BOOLEAN
    BY Zenon
  <2> QED BY <2>1
<1>4. Leave(d, updated) /\ UNCHANGED <<iTable, tableShow>>
  BY <1>3 DEF SetFullHalfMode
<1> HIDE DEF drops, c, u
<1>5. KeepsList(d) /\ d.commit = 0 /\ d.bpmf = c.bpmf /\ d.chi = c.chi
  BY <1>2 DEF KeepsList, ContextOK, Context, Choosing, OnPage
<1> HIDE DEF d
<1>6. /\ Core' /\ ctx'.buf = ctx.buf /\ ctx'.pages = ctx.pages
      /\ ctx'.chi = d.chi /\ ctx'.bpmf = d.bpmf /\ outgoing' = outgoing
  BY <1>2, <1>3, <1>4, <1>5, LeaveCore
<1>7. Caught(ctx') => Caught(ctx)
  BY <1>1, <1>2, <1>5, <1>6 DEF Caught, KeepsList
<1> QED BY <1>2, <1>5, <1>6, <1>7

LEMMA ResizeStep ==
  ASSUME Core, NEW keys \in SelKeySets, Resize(keys)
  PROVE  /\ Core' /\ ctx'.chi = ctx.chi /\ ctx'.buf = ctx.buf
         /\ ctx'.bpmf = ctx.bpmf /\ ctx'.pages = ctx.pages /\ outgoing' = outgoing
<1> DEFINE d == SetSelKeys(ctx, keys)
<1>1. ContextOK(ctx)
  BY CtxKeeps
<1>2. /\ ContextOK(d) /\ d.commit = ctx.commit /\ d.buf = ctx.buf /\ d.cur = ctx.cur
      /\ d.bpmf = ctx.bpmf /\ (Choosing(d) <=> Choosing(ctx)) /\ OnPage(d) = OnPage(ctx)
      /\ d.chi = ctx.chi /\ d.pages = ctx.pages
  BY <1>1 DEF ContextOK, Context, Choosing, OnPage, SetSelKeys
<1>3. ctx' = d /\ UNCHANGED <<preEdit, bpmfLen, outgoing, tableShow>>
  BY DEF Resize
<1> HIDE DEF d
<1>4. Render(d) = Render(ctx)
  BY <1>2, RenderSame
<1>5. TextInv'
  BY <1>2, <1>3, <1>4 DEF Core, TextInv, CommitCollected, PreEditMirrorsContext
<1>6. Len(keys) \in Nat \ {0}
  BY ChewingAssumption DEF ChewingAssumption
<1>7. /\ iTable' \in [n : Nat, cur : Nat, size : Nat \ {0}]
      /\ iTable'.n = iTable.n /\ iTable'.cur = iTable.cur
  BY <1>6 DEF Core, TableInv, Resize
<1>8. TableInv'
  BY <1>2, <1>3, <1>7 DEF Core, TableInv, FlagCoversList, TableMirrorsList
<1> QED BY <1>2, <1>3, <1>5, <1>8 DEF Core

LEMMA UnchangedCore ==
  ASSUME Core, UNCHANGED <<ctx, preEdit, bpmfLen, iTable, tableShow>>,
         outgoing' \in Nat
  PROVE  Core'
  BY DEF Core, TextInv, TableInv, CommitCollected,
         PreEditMirrorsContext, FlagCoversList, TableMirrorsList

LEMMA UnchangedStep ==
  ASSUME IInv, UNCHANGED <<ctx, preEdit, bpmfLen, iTable, tableShow, keyLast,
                           consumed, pending, conf>>,
         outgoing' \in Nat, held' \in 0..3
  PROVE  IInv'
<1>1. Core'
  BY UnchangedCore DEF IInv
<1> QED BY <1>1 DEF IInv, KeyInv

LEMMA NextStep ==
  ASSUME IInv, [Next]_vars
  PROVE  IInv'
<1>1. ASSUME NEW e \in KeyEvents, ProcessKey(e[1], e[2]) PROVE IInv'
  BY <1>1, KeyStep
<1>2. CASE Clear
  <2>1. Core' /\ ~Caught(ctx')
    BY <1>2, ClearStep, NothingIsNotCaught DEF IInv
  <2> QED BY <1>2, <2>1 DEF Clear, IInv, KeyInv
<1>3. CASE ClearOutgoing
  <2>1. held' \in 0..3 /\ outgoing' \in Nat
    BY <1>3 DEF ClearOutgoing, IInv, KeyInv
  <2> QED BY <1>3, <2>1, UnchangedStep DEF ClearOutgoing
<1>4. CASE ForceCommit
  <2>1. Core' /\ ~Caught(ctx')
    BY <1>4, ForceCommitStep, NothingIsNotCaught DEF IInv
  <2> QED BY <1>4, <2>1 DEF ForceCommit, IInv, KeyInv
<1>5. ASSUME NEW chi \in BOOLEAN, SetChiEngMode(chi) PROVE IInv'
  <2>1. Core' /\ ~Caught(ctx')
    BY <1>5, SetChiEngModeStep DEF IInv
  <2> QED BY <1>5, <2>1 DEF SetChiEngMode, IInv, KeyInv
<1>6. ASSUME NEW full \in BOOLEAN, SetFullHalfMode(full) PROVE IInv'
  <2>1. Core' /\ ~Caught(ctx')
    BY <1>6, SetFullHalfModeStep DEF IInv
  <2> QED BY <1>6, <2>1 DEF SetFullHalfMode, IInv, KeyInv
<1>7. ASSUME NEW keys \in SelKeySets, Resize(keys) PROVE IInv'
  <2>1. Core' /\ (Caught(ctx') => Caught(ctx))
    BY <1>7, ResizeStep DEF IInv, Caught
  <2> QED BY <1>7, <2>1 DEF Resize, IInv, KeyInv
<1>8. CASE Tick
  <2>1. held' \in 0..3 /\ outgoing' \in Nat
    BY <1>8 DEF Tick, text, IInv, KeyInv, Core, TextInv
  <2> QED BY <1>8, <2>1, UnchangedStep DEF Tick, text
<1>9. CASE UNCHANGED vars
  <2>1. held' \in 0..3 /\ outgoing' \in Nat
    BY <1>9 DEF vars, IInv, KeyInv, Core, TextInv
  <2> QED BY <1>9, <2>1, UnchangedStep DEF vars
<1> QED BY <1>1, <1>2, <1>3, <1>4, <1>5, <1>6, <1>7, <1>8, <1>9 DEF Next

LEMMA InitEstablishes == Init => IInv
<1> SUFFICES ASSUME Init PROVE IInv
  OBVIOUS
<1>1. PICK keys \in SelKeySets, escAll \in BOOLEAN, fwKey \in BOOLEAN :
        /\ ctx = NewContext(keys, escAll, fwKey)
        /\ iTable = [n |-> 0, cur |-> 0, size |-> Len(keys)]
  BY DEF Init
<1>2. ContextOK(ctx) /\ Nothing(ctx) /\ ctx.commit = 0 /\ ctx.bpmf = 0
  BY <1>1, Sizes DEF NewContext, ContextOK, Context, Choosing, Nothing
<1>3. Len(keys) \in Nat \ {0}
  BY ChewingAssumption DEF ChewingAssumption
<1>4. preEdit = Render(ctx) /\ bpmfLen = 0 /\ outgoing = 0
  BY <1>2, RenderOfNothing DEF Init
<1>5. TextInv
  BY <1>2, <1>4 DEF TextInv, CommitCollected, PreEditMirrorsContext
<1>6. TableInv
  BY <1>1, <1>2, <1>3 DEF Init, TableInv, FlagCoversList, TableMirrorsList, Nothing
<1>7. KeyInv
  <2>1. /\ keyLast = "other" /\ held = 0 /\ consumed = FALSE
        /\ pending = [chi |-> FALSE, full |-> FALSE] /\ conf \in Confs
    BY DEF Init
  <2>2. pending \in [chi : BOOLEAN, full : BOOLEAN]
    BY <2>1, Zenon
  <2>3. consumed \in BOOLEAN
    BY <2>1, Zenon
  <2>4. held \in 0..3
    BY <2>1
  <2> QED BY <2>1, <2>2, <2>3, <2>4, Zenon DEF KeyInv
<1>8. ~Caught(ctx)
  BY <1>2, NothingIsNotCaught
<1> QED BY <1>5, <1>6, <1>7, <1>8 DEF IInv, Core

-----------------------------------------------------------------------------
(* The theorems. *)

\* The inductive invariant: text, table, flag and context agree between any
\* two calls of the component's functions.
THEOREM InvariantHolds == Spec => []IInv
  BY InitEstablishes, NextStep, PTL DEF Spec

\* Every variable stays in its range: no buffer of libchewing overflows, the
\* cursor stays in the text and an open list at one of its pages.
THEOREM TypesHold == Spec => []TypeOK
<1>1. IInv => TypeOK
  <2> SUFFICES ASSUME IInv PROVE TypeOK
    OBVIOUS
  <2>1. /\ ContextOK(ctx) /\ preEdit = Render(ctx) /\ bpmfLen = ctx.bpmf
        /\ outgoing \in Nat
    BY DEF IInv, Core, TextInv, PreEditMirrorsContext
  <2>2. preEdit \in Seq({"zi", "bpmf"}) /\ bpmfLen \in Nat
    BY <2>1, RenderTyped, Sizes DEF ContextOK, Context
  <2> QED BY <2>1, <2>2 DEF TypeOK, ContextOK, IInv, Core, TableInv, KeyInv
<1> QED BY <1>1, InvariantHolds, PTL

\* FLAG_TABLE_SHOW is on while libchewing has a list open, and on without one
\* only when nothing is left: what clear_pre_edit's Esc calls count on.
THEOREM FlagIsRight == Spec => []FlagCoversList
<1>1. IInv => FlagCoversList
  BY DEF IInv, Core, TableInv
<1> QED BY <1>1, InvariantHolds, PTL

\* The text the engine shows is the buffer and bopomofo of libchewing, also
\* after the calls that skip ibus_chewing_pre_edit_update.
THEOREM TextIsRight == Spec => []PreEditMirrorsContext
<1>1. IInv => PreEditMirrorsContext
  BY DEF IInv, Core, TextInv
<1> QED BY <1>1, InvariantHolds, PTL

\* No commit string waits in libchewing for the next key to overwrite it.
THEOREM CommitIsCollected == Spec => []CommitCollected
<1>1. IInv => CommitCollected
  BY DEF IInv, Core, TextInv
<1> QED BY <1>1, InvariantHolds, PTL

\* The lookup table holds the page libchewing would choose from and its cursor
\* is on one of its candidates, after any number of arrows and pages.
THEOREM TableIsRight == Spec => []TableMirrorsList
<1>1. IInv => TableMirrorsList
  BY DEF IInv, Core, TableInv
<1> QED BY <1>1, InvariantHolds, PTL

\* No way of leaving Chinese mode, a keypad key included, leaves a bopomofo.
THEOREM EnglishHasNoBopomofo == Spec => []NoBopomofoInEnglish
<1>1. IInv => NoBopomofoInEnglish
  BY Sizes DEF IInv, Core, TextInv, ContextOK, Context, Caught, NoBopomofoInEnglish
<1> QED BY <1>1, InvariantHolds, PTL

\* ibus_chewing_pre_edit_clear leaves nothing of the text behind, whatever was
\* open and whatever the user set Esc to do.
THEOREM ClearClearsAll == Spec => ClearIsComplete
<1>1. IInv /\ [Next]_vars =>
        [Clear => Nothing(ctx') /\ preEdit' = <<>> /\ outgoing' = 0]_vars
  BY ClearStep DEF IInv
<1> QED BY <1>1, InvariantHolds, PTL DEF Spec, ClearIsComplete

\* A key passed on to the application left the text, the list and what is to
\* be committed alone (preedit.c 766-823), so no key press has an effect twice.
THEOREM PassedKeysAreIdle == Spec => PassedKeyTypesNothing
<1>1. IInv /\ [Next]_vars =>
        [\/ consumed'
         \/ outgoing' = outgoing /\ ctx'.buf = ctx.buf /\ ctx'.pages = ctx.pages
         \/ ~\E e \in KeyEvents : ProcessKey(e[1], e[2])]_vars
  BY ProcessKeyStep DEF IInv, Stepped, PassedIdle
<1> QED BY <1>1, InvariantHolds, PTL DEF Spec, PassedKeyTypesNothing

\* Only the configured toggle key and the engine's own call change the mode
\* (preedit.c 303-424): a keypad key gives back what it borrows.
THEOREM OnlyTheToggleChangesMode == Spec => OnlyToggleChangesMode
<1>1. IInv /\ [Next]_vars =>
        [ctx'.chi # ctx.chi =>
           \/ \E chi \in BOOLEAN : SetChiEngMode(chi)
           \/ conf.toggle = "c" /\ \E e \in KeyEvents :
                e[1] = "Caps_Lock" /\ ProcessKey(e[1], e[2])
           \/ conf.toggle \in {"s", "l", "r"} /\ keyLast = "Shift" /\ \E e \in KeyEvents :
                e[1] \in ShiftKeys /\ "Release" \in e[2] /\ ProcessKey(e[1], e[2])]_vars
  <2> SUFFICES ASSUME IInv, Next, ctx'.chi # ctx.chi
               PROVE  \/ \E chi \in BOOLEAN : SetChiEngMode(chi)
                      \/ conf.toggle = "c" /\ \E e \in KeyEvents :
                           e[1] = "Caps_Lock" /\ ProcessKey(e[1], e[2])
                      \/ /\ conf.toggle \in {"s", "l", "r"} /\ keyLast = "Shift"
                         /\ \E e \in KeyEvents :
                              e[1] \in ShiftKeys /\ "Release" \in e[2]
                                /\ ProcessKey(e[1], e[2])
    BY DEF vars
  <2>1. ASSUME NEW e \in KeyEvents, ProcessKey(e[1], e[2])
        PROVE  TogglesBy(e[1], e[2])
    BY <2>1, ProcessKeyStep DEF IInv
  <2>2. \/ \E chi \in BOOLEAN : SetChiEngMode(chi)
        \/ \E e \in KeyEvents : ProcessKey(e[1], e[2])
    <3>1. Clear \/ ForceCommit => ctx'.chi = ctx.chi
      BY ClearStep, ForceCommitStep DEF IInv
    <3>2. \A full \in BOOLEAN : SetFullHalfMode(full) => ctx'.chi = ctx.chi
      BY SetFullHalfModeStep DEF IInv
    <3>3. \A keys \in SelKeySets : Resize(keys) => ctx'.chi = ctx.chi
      BY ResizeStep DEF IInv
    <3>4. ClearOutgoing \/ Tick => ctx'.chi = ctx.chi
      BY DEF ClearOutgoing, Tick, text
    <3> QED BY <3>1, <3>2, <3>3, <3>4 DEF Next
  <2> QED BY <2>1, <2>2 DEF TogglesBy
<1> QED BY <1>1, InvariantHolds, PTL DEF Spec, OnlyToggleChangesMode
=============================================================================
