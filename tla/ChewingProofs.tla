--------------------------- MODULE ChewingProofs ---------------------------
(***************************************************************************)
(* What the handlers of libchewing preserve, for every size of the buffer, *)
(* of a syllable and of a candidate list.                                  *)
(***************************************************************************)
EXTENDS Chewing, TLAPS

\* A bopomofo in English mode, where it cannot be finished.
Caught(c) == ~c.chi /\ c.bpmf > 0

\* The parts of a context that no list or cursor changes.
SameText(c, d) == d.chi = c.chi /\ d.buf = c.buf /\ d.bpmf = c.bpmf

LEMMA Sizes ==
  /\ MaxBuf \in Nat /\ MaxBpmf \in Nat /\ MaxPages \in Nat
  /\ 0 \in 0..MaxBuf /\ 0 \in 0..MaxBpmf /\ 0 \in 0..MaxPages
  BY ChewingAssumption DEF ChewingAssumption

LEMMA KeysAreFinite ==
  ASSUME NEW c \in Context
  PROVE  Len(c.selKeys) \in Nat \ {0}
  BY ChewingAssumption DEF Context, ChewingAssumption

LEMMA ListTyped ==
  ASSUME NEW c \in Context, NEW p \in 0..MaxPages, NEW q \in Nat,
         NEW w \in Nat, NEW l \in Nat
  PROVE  [c EXCEPT !.pages = p, !.page = q, !.width = w, !.last = l] \in Context
<1>1. [c EXCEPT !.pages = p, !.page = q] \in Context
  BY DEF Context
<1>2. [[c EXCEPT !.pages = p, !.page = q] EXCEPT !.width = w, !.last = l] \in Context
  BY ONLY <1>1, w \in Nat, l \in Nat DEF Context
<1> QED BY <1>2

LEMMA FreshSound ==
  ASSUME NEW c, ContextOK(c)
  PROVE  /\ ContextOK(Fresh(c)) /\ SameText(c, Fresh(c)) /\ Fresh(c).cur = c.cur
         /\ Choosing(Fresh(c)) <=> Choosing(c)
         /\ Fresh(c).commit = 0
  BY DEF ContextOK, Context, Choosing, Fresh, SameText

LEMMA CloseListSound ==
  ASSUME NEW c, ContextOK(c)
  PROVE  /\ ContextOK(CloseList(c)) /\ SameText(c, CloseList(c))
         /\ CloseList(c).cur = c.cur /\ CloseList(c).commit = c.commit
         /\ ~Choosing(CloseList(c))
<1> DEFINE d == CloseList(c)
<1>1. d \in Context
  BY Sizes, ListTyped DEF ContextOK, CloseList
<1>2. SameText(c, d) /\ d.cur = c.cur /\ d.commit = c.commit /\ d.pages = 0
  BY DEF ContextOK, Context, CloseList, SameText
<1> QED BY <1>1, <1>2 DEF ContextOK, Choosing, SameText

LEMMA OpenListSound ==
  ASSUME NEW c, ContextOK(c), c.bpmf = 0, NEW d \in OpenList(c)
  PROVE  ContextOK(d) /\ SameText(c, d) /\ d.commit = c.commit
<1>1. c \in Context /\ Len(c.selKeys) \in Nat \ {0}
  BY KeysAreFinite DEF ContextOK
<1>2. PICK p \in 1..MaxPages, n \in 1..Len(c.selKeys) : d = ListOpened(c, p, n)
  BY DEF OpenList
<1>3. p \in 0..MaxPages /\ p > 0 /\ n \in Nat
  BY <1>1, Sizes
<1>4. d \in Context
  BY <1>1, <1>2, <1>3, ListTyped DEF ListOpened
<1>5. /\ SameText(c, d) /\ d.cur = c.cur
      /\ d.pages = p /\ d.page = 0 /\ d.width = Len(c.selKeys) /\ d.last = n
      /\ d.commit = c.commit
  BY <1>1, <1>2 DEF Context, SameText, ListOpened
<1> QED BY <1>1, <1>3, <1>4, <1>5 DEF ContextOK, Choosing, SameText

LEMMA InsertCharSound ==
  ASSUME NEW c, ContextOK(c), c.commit = 0
  PROVE  LET d == InsertChar(c) IN
         /\ ContextOK(d) /\ d.chi = c.chi /\ d.bpmf = c.bpmf
         /\ d.buf + d.commit = c.buf + 1
<1>1. CASE c.buf < MaxBuf
  <2> DEFINE d == [c EXCEPT !.buf = c.buf + 1, !.cur = c.cur + 1]
  <2>1. c.buf + 1 \in 0..MaxBuf /\ c.cur + 1 \in 0..MaxBuf /\ c.cur + 1 <= c.buf + 1
    BY <1>1, Sizes DEF ContextOK, Context
  <2>2. d \in Context
    BY <2>1 DEF ContextOK, Context
  <2>3. /\ d.buf = c.buf + 1 /\ d.cur = c.cur + 1 /\ d.chi = c.chi /\ d.bpmf = c.bpmf
        /\ d.pages = c.pages /\ d.page = c.page /\ d.width = c.width /\ d.last = c.last
        /\ d.commit = 0
    BY DEF ContextOK, Context
  <2>4. InsertChar(c) = d
    BY <1>1 DEF InsertChar
  <2> HIDE DEF d
  <2> QED BY <2>1, <2>2, <2>3, <2>4 DEF ContextOK, Choosing
<1>2. CASE ~(c.buf < MaxBuf)
  <2>1. InsertChar(c) = [c EXCEPT !.commit = 1]
    BY <1>2 DEF InsertChar
  <2> QED BY <2>1 DEF ContextOK, Context, Choosing
<1> QED BY <1>1, <1>2

LEMMA TurnPageSound ==
  ASSUME NEW c, ContextOK(c), Choosing(c), NEW i \in Int
  PROVE  /\ ContextOK(TurnPage(c, i)) /\ SameText(c, TurnPage(c, i))
         /\ TurnPage(c, i).commit = c.commit
<1> DEFINE n == IF i < 0 THEN c.pages - 1 ELSE IF i < c.pages THEN i ELSE 0
<1>1. c.pages \in 1..MaxPages
  BY Sizes DEF ContextOK, Context, Choosing
<1>2. n \in Nat /\ n < c.pages
  BY <1>1, Sizes
<1>3. TurnPage(c, i) = [c EXCEPT !.page = n]
  BY DEF TurnPage
<1> HIDE DEF n
<1> QED BY <1>2, <1>3 DEF ContextOK, Context, Choosing, SameText

LEMMA MoveCursorSound ==
  ASSUME NEW c, ContextOK(c), NEW i \in Int
  PROVE  /\ ContextOK(MoveCursor(c, i)) /\ SameText(c, MoveCursor(c, i))
         /\ MoveCursor(c, i).commit = c.commit
<1>1. CASE i \in 0..c.buf
  <2>1. i \in 0..MaxBuf /\ i <= c.buf
    BY <1>1, Sizes DEF ContextOK, Context
  <2>2. MoveCursor(c, i) = [c EXCEPT !.cur = i]
    BY <1>1 DEF MoveCursor
  <2> QED BY <2>1, <2>2 DEF ContextOK, Context, Choosing, SameText
<1>2. CASE i \notin 0..c.buf
  BY <1>2 DEF MoveCursor, SameText
<1> QED BY <1>1, <1>2

\* The bopomofo may grow or end while no list is open.
LEMMA BopomofoSound ==
  ASSUME NEW c, ContextOK(c), ~Choosing(c), NEW n \in 0..MaxBpmf
  PROVE  LET d == [c EXCEPT !.bpmf = n] IN
         /\ ContextOK(d) /\ d.chi = c.chi /\ d.bpmf = n /\ ~Choosing(d)
         /\ d.buf = c.buf /\ d.cur = c.cur /\ d.commit = c.commit
  BY DEF ContextOK, Context, Choosing

-----------------------------------------------------------------------------
(* The handlers. *)

\* A key adds at most one character and loses none, or erases and commits none.
Counts(c, d) ==
  \/ d.buf + d.commit \in {c.buf, c.buf + 1}
  \/ d.buf < c.buf /\ d.commit = 0

\* What a handler may do to a context: no handler starts a bopomofo in English
\* mode ...
Yields(c, d) == ContextOK(d) /\ Counts(c, d) /\ (Caught(d) => Caught(c))

\* ... and but for Caps Lock none changes the language.
Follows(c, d) == Yields(c, d) /\ d.chi = c.chi

\* A handler that leaves the text as it was, but for the bopomofo.
LEMMA SameFollows ==
  ASSUME NEW c, NEW d, ContextOK(c), ContextOK(d), d.chi = c.chi, d.buf = c.buf,
         d.commit = 0, c.chi \/ d.bpmf <= c.bpmf
  PROVE  Follows(c, d)
<1>1. c.buf \in Nat /\ c.bpmf \in Nat /\ d.bpmf \in Nat
  BY Sizes DEF ContextOK, Context
<1>2. Counts(c, d)
  BY <1>1 DEF Counts
<1>3. Caught(d) => Caught(c)
  BY <1>1 DEF Caught
<1> QED BY <1>2, <1>3 DEF Follows, Yields

\* The levels of Esc, of which clear_bopomofo and clear_pre_edit count calls.
LEMMA EscapedLevels ==
  ASSUME NEW c, ContextOK(c), NEW all
  PROVE  LET e == Escaped(c, all) IN
         /\ Follows(c, e) /\ ContextOK(e) /\ e.chi = c.chi
         /\ e.commit = 0 /\ ~Choosing(e)
         /\ Choosing(c) => SameText(c, e) /\ e.cur = c.cur
         /\ ~Choosing(c) /\ c.bpmf > 0 => e.bpmf = 0 /\ e.buf = c.buf /\ e.cur = c.cur
         /\ ~Choosing(c) /\ c.bpmf = 0 /\ all => e.bpmf = 0 /\ e.buf = 0
<1> DEFINE f == Fresh(c)
<1>1. /\ ContextOK(f) /\ SameText(c, f) /\ f.cur = c.cur /\ f.commit = 0
      /\ Choosing(f) <=> Choosing(c)
  BY FreshSound
<1>2. CASE Choosing(c)
  <2>1. Escaped(c, all) = CloseList(f)
    BY <1>2 DEF Escaped
  <2> HIDE DEF f
  <2> DEFINE e == CloseList(f)
  <2>2. /\ ContextOK(e) /\ SameText(c, e) /\ e.cur = c.cur /\ e.commit = 0
        /\ ~Choosing(e)
    BY <1>1, CloseListSound DEF SameText
  <2> HIDE DEF e
  <2>3. e.bpmf <= c.bpmf
    BY <2>2, Sizes DEF SameText, ContextOK, Context
  <2>4. Follows(c, e)
    BY <2>2, <2>3, SameFollows DEF SameText
  <2> QED BY <1>2, <2>1, <2>2, <2>4 DEF e, SameText
<1>3. CASE ~Choosing(c) /\ c.bpmf > 0
  <2>1. Escaped(c, all) = [f EXCEPT !.bpmf = 0]
    BY <1>3 DEF Escaped
  <2> HIDE DEF f
  <2> DEFINE e == [f EXCEPT !.bpmf = 0]
  <2>2. /\ ContextOK(e) /\ ~Choosing(e) /\ e.chi = c.chi /\ e.commit = 0
        /\ e.bpmf = 0 /\ e.buf = c.buf /\ e.cur = c.cur
    BY <1>1, <1>3, BopomofoSound, Sizes DEF SameText
  <2> HIDE DEF e
  <2>3. Follows(c, e)
    <3>1. e.bpmf <= c.bpmf
      BY <2>2, Sizes DEF ContextOK, Context
    <3> QED BY <2>2, <3>1, SameFollows
  <2> QED BY <1>3, <2>1, <2>2, <2>3 DEF e
<1>4. CASE ~Choosing(c) /\ ~(c.bpmf > 0) /\ all
  <2>1. Escaped(c, all) = [f EXCEPT !.buf = 0, !.cur = 0]
    BY <1>4 DEF Escaped
  <2>2. c.bpmf = 0
    BY <1>4, Sizes DEF ContextOK, Context
  <2> HIDE DEF f
  <2> DEFINE e == [f EXCEPT !.buf = 0, !.cur = 0]
  <2>3. /\ e \in Context /\ e.chi = c.chi /\ e.commit = 0 /\ e.bpmf = c.bpmf
        /\ e.buf = 0 /\ e.cur = 0 /\ e.pages = f.pages
    BY <1>1, Sizes DEF ContextOK, Context, SameText
  <2> HIDE DEF e
  <2>4. ~Choosing(e)
    BY <1>1, <1>4, <2>3 DEF Choosing
  <2>5. ContextOK(e)
    BY <2>2, <2>3, <2>4 DEF ContextOK
  <2>6. c.buf \in Nat
    BY Sizes DEF ContextOK, Context
  <2>7. Counts(c, e) /\ ~Caught(e)
    BY <2>2, <2>3, <2>6 DEF Counts, Caught
  <2>8. Follows(c, e)
    BY <2>3, <2>5, <2>7 DEF Follows, Yields
  <2> QED BY <1>4, <2>1, <2>2, <2>3, <2>4, <2>5, <2>8 DEF e
<1>5. CASE ~Choosing(c) /\ ~(c.bpmf > 0) /\ ~all
  <2>1. Escaped(c, all) = f
    BY <1>5 DEF Escaped
  <2> HIDE DEF f
  <2>2. f.bpmf <= c.bpmf
    BY <1>1, Sizes DEF SameText, ContextOK, Context
  <2>3. Follows(c, f)
    BY <1>1, <2>2, SameFollows DEF SameText
  <2> QED BY <1>1, <1>5, <2>1, <2>3 DEF SameText
<1> QED BY <1>2, <1>3, <1>4, <1>5

\* What the handlers start from.
LEMMA FreshFollows ==
  ASSUME NEW c, ContextOK(c)
  PROVE  /\ Follows(c, Fresh(c)) /\ ContextOK(Fresh(c)) /\ SameText(c, Fresh(c))
         /\ Fresh(c).cur = c.cur /\ Fresh(c).commit = 0
         /\ Choosing(Fresh(c)) <=> Choosing(c)
         /\ c.page \in Int /\ c.cur \in Int /\ c.buf \in Nat /\ c.bpmf \in Nat
         /\ c.page + 1 \in Int /\ c.page - 1 \in Int
         /\ c.cur + 1 \in Int /\ c.cur - 1 \in Int
<1>1. c.page \in Int /\ c.cur \in Int /\ c.buf \in Nat /\ c.bpmf \in Nat
  BY Sizes DEF ContextOK, Context
<1>2. /\ ContextOK(Fresh(c)) /\ SameText(c, Fresh(c)) /\ Fresh(c).cur = c.cur
      /\ Choosing(Fresh(c)) <=> Choosing(c)
      /\ Fresh(c).commit = 0
  BY FreshSound
<1>3. Fresh(c).bpmf <= c.bpmf
  BY <1>1, <1>2 DEF SameText
<1>4. Follows(c, Fresh(c))
  BY <1>2, <1>3, SameFollows DEF SameText
<1> QED BY <1>1, <1>2, <1>4

\* A handler that changes the list or the cursor alone.
LEMMA SameTextFollows ==
  ASSUME NEW c, ContextOK(c), NEW d, ContextOK(d), SameText(c, d), d.commit = 0
  PROVE  Follows(c, d)
<1>1. d.bpmf <= c.bpmf
  BY Sizes DEF SameText, ContextOK, Context
<1> QED BY <1>1, SameFollows DEF SameText

LEMMA CloseFollows ==
  ASSUME NEW c, ContextOK(c)
  PROVE  LET d == CloseList(Fresh(c)) IN
         Follows(c, d) /\ ContextOK(d) /\ SameText(c, d) /\ d.commit = 0
<1> DEFINE f == Fresh(c)
           d == CloseList(f)
<1>1. ContextOK(f) /\ SameText(c, f) /\ f.commit = 0
  BY FreshFollows
<1> HIDE DEF f
<1>2. ContextOK(d) /\ SameText(c, d) /\ d.commit = 0
  BY <1>1, CloseListSound DEF SameText
<1> HIDE DEF d
<1>3. Follows(c, d)
  BY <1>2, SameTextFollows
<1> QED BY <1>2, <1>3 DEF d, f

LEMMA TurnFollows ==
  ASSUME NEW c, ContextOK(c), Choosing(c), NEW i \in Int
  PROVE  Follows(c, TurnPage(Fresh(c), i))
<1> DEFINE f == Fresh(c)
           d == TurnPage(f, i)
<1>1. ContextOK(f) /\ SameText(c, f) /\ f.commit = 0 /\ Choosing(f)
  BY FreshFollows
<1> HIDE DEF f
<1>2. ContextOK(d) /\ SameText(c, d) /\ d.commit = 0
  BY <1>1, TurnPageSound DEF SameText
<1> HIDE DEF d
<1> QED BY <1>2, SameTextFollows DEF d, f

LEMMA MoveFollows ==
  ASSUME NEW c, ContextOK(c), NEW i \in Int
  PROVE  Follows(c, MoveCursor(Fresh(c), i))
<1> DEFINE f == Fresh(c)
           d == MoveCursor(f, i)
<1>1. ContextOK(f) /\ SameText(c, f) /\ f.commit = 0
  BY FreshFollows
<1> HIDE DEF f
<1>2. ContextOK(d) /\ SameText(c, d) /\ d.commit = 0
  BY <1>1, MoveCursorSound DEF SameText
<1> HIDE DEF d
<1> QED BY <1>2, SameTextFollows DEF d, f

LEMMA OpenFollows ==
  ASSUME NEW c, ContextOK(c), c.bpmf = 0, NEW d \in OpenList(Fresh(c))
  PROVE  Follows(c, d)
<1> DEFINE f == Fresh(c)
<1>1. ContextOK(f) /\ SameText(c, f) /\ f.commit = 0 /\ f.bpmf = 0
  BY FreshFollows DEF SameText
<1>2. d \in OpenList(f)
  OBVIOUS
<1> HIDE DEF f
<1>3. ContextOK(d) /\ SameText(c, d) /\ d.commit = 0
  BY <1>1, <1>2, OpenListSound DEF SameText
<1> QED BY <1>3, SameTextFollows

LEMMA InsertFollows ==
  ASSUME NEW c, NEW d, ContextOK(c), Follows(c, d), d.buf = c.buf, d.commit = 0
  PROVE  Follows(c, InsertChar(d))
<1> DEFINE e == InsertChar(d)
<1>1. ContextOK(d) /\ d.chi = c.chi /\ (Caught(d) => Caught(c))
  BY DEF Follows, Yields
<1>2. ContextOK(e) /\ e.chi = d.chi /\ e.bpmf = d.bpmf /\ e.buf + e.commit = c.buf + 1
  BY <1>1, InsertCharSound
<1> HIDE DEF e
<1> QED BY <1>1, <1>2 DEF Follows, Yields, Counts, Caught, e

\* The outcomes of a call do not bear on the text.
LEMMA OutcomeFollows ==
  ASSUME NEW c, NEW d, Follows(c, d), NEW n \in Nat, NEW b \in BOOLEAN
  PROVE  /\ Follows(c, [d EXCEPT !.aux = b])
         /\ Follows(c, [d EXCEPT !.full = b])
         /\ Follows(c, [d EXCEPT !.picked = n])
<1> USE DEF Follows, Yields, Counts, Caught, ContextOK, Context, Choosing
<1>1. Follows(c, [d EXCEPT !.aux = b])
  OBVIOUS
<1>2. Follows(c, [d EXCEPT !.full = b])
  OBVIOUS
<1>3. Follows(c, [d EXCEPT !.picked = n])
  OBVIOUS
<1> QED BY <1>1, <1>2, <1>3

\* A character that does not wait in the buffer.
LEMMA CommitOneFollows ==
  ASSUME NEW c, ContextOK(c)
  PROVE  Follows(c, [Fresh(c) EXCEPT !.commit = 1])
<1> DEFINE f == Fresh(c)
           d == [f EXCEPT !.commit = 1]
<1>1. ContextOK(f) /\ SameText(c, f)
  BY FreshFollows
<1> HIDE DEF f
<1>2. ContextOK(d) /\ SameText(c, d) /\ d.commit = 1
  BY <1>1 DEF ContextOK, Context, Choosing, SameText
<1> HIDE DEF d
<1>3. Follows(c, d)
  BY <1>2 DEF Follows, Yields, Counts, Caught, SameText
<1> QED BY <1>3 DEF d, f

\* Turning pages and moving the cursor.
LEMMA MovingFollows ==
  ASSUME NEW c, ContextOK(c),
         NEW d \in PageUp(c) \cup PageDown(c) \cup Left(c) \cup Right(c)
                     \cup ShiftLeft(c) \cup ShiftRight(c) \cup Home(c) \cup End(c)
                     \cup Tab(c) \cup Up(c)
  PROVE  Follows(c, d)
<1>1. CASE Choosing(c)
  <2>1. d \in {TurnPage(Fresh(c), c.page - 1), TurnPage(Fresh(c), c.page + 1),
               Fresh(c), CloseList(Fresh(c))}
    BY <1>1 DEF PageUp, PageDown, Left, Right, ShiftLeft, ShiftRight, Home, End, Tab, Up
  <2> QED BY <1>1, <2>1, FreshFollows, TurnFollows, CloseFollows
<1>2. CASE ~Choosing(c)
  <2>1. d \in {MoveCursor(Fresh(c), c.buf), MoveCursor(Fresh(c), c.cur - 1),
               MoveCursor(Fresh(c), c.cur + 1), MoveCursor(Fresh(c), 0), Fresh(c)}
    BY <1>2 DEF PageUp, PageDown, Left, Right, ShiftLeft, ShiftRight, Home, End, Tab, Up
  <2> QED BY <2>1, FreshFollows, MoveFollows
<1> QED BY <1>1, <1>2

LEMMA DownFollows ==
  ASSUME NEW c, ContextOK(c), NEW d \in Down(c)
  PROVE  Follows(c, d)
<1>1. Choosing(c) => c.bpmf = 0
  BY DEF ContextOK
<1>2. \/ d \in OpenList(Fresh(c)) /\ c.bpmf = 0
      \/ d = Fresh(c)
  BY <1>1 DEF Down
<1> QED BY <1>2, FreshFollows, OpenFollows

LEMMA CtrlNumFollows ==
  ASSUME NEW c, ContextOK(c), NEW d \in CtrlNum(c)
  PROVE  Follows(c, d)
<1>1. \/ d = Fresh(c)
      \/ d = [Fresh(c) EXCEPT !.aux = TRUE]
      \/ d \in OpenList(Fresh(c)) /\ ~(c.bpmf > 0)
  BY DEF CtrlNum
<1>2. ~(c.bpmf > 0) => c.bpmf = 0
  BY Sizes DEF ContextOK, Context
<1>3. Follows(c, [Fresh(c) EXCEPT !.aux = TRUE])
  BY FreshFollows, OutcomeFollows
<1> QED BY <1>1, <1>2, <1>3, FreshFollows, OpenFollows

\* A syllable under composition: no list is open.
LEMMA SyllableFollows ==
  ASSUME NEW c, ContextOK(c), ~Choosing(c), NEW n \in 0..MaxBpmf, c.chi \/ n <= c.bpmf
  PROVE  LET d == [Fresh(c) EXCEPT !.bpmf = n] IN
         Follows(c, d) /\ d.buf = c.buf /\ d.commit = 0
<1> DEFINE f == Fresh(c)
           d == [f EXCEPT !.bpmf = n]
<1>1. ContextOK(f) /\ SameText(c, f) /\ f.commit = 0 /\ ~Choosing(f)
  BY FreshFollows
<1> HIDE DEF f
<1>2. ContextOK(d) /\ d.chi = c.chi /\ d.buf = c.buf /\ d.bpmf = n /\ d.commit = 0
  BY <1>1, BopomofoSound DEF SameText
<1> HIDE DEF d
<1>3. Follows(c, d)
  BY <1>2, SameFollows
<1> QED BY <1>2, <1>3 DEF d, f

\* The last key of a syllable inserts the character it stands for.
LEMMA SyllableEnds ==
  ASSUME NEW c, ContextOK(c), ~Choosing(c)
  PROVE  /\ Follows(c, [Fresh(c) EXCEPT !.bpmf = 0])
         /\ Follows(c, InsertChar([Fresh(c) EXCEPT !.bpmf = 0]))
<1> DEFINE d == [Fresh(c) EXCEPT !.bpmf = 0]
<1>1. 0 \in 0..MaxBpmf /\ 0 <= c.bpmf
  BY Sizes DEF ContextOK, Context
<1>2. Follows(c, d) /\ d.buf = c.buf /\ d.commit = 0
  BY <1>1, SyllableFollows
<1> HIDE DEF d
<1>3. Follows(c, InsertChar(d))
  BY <1>2, InsertFollows
<1> QED BY <1>2, <1>3 DEF d

LEMMA InsertFreshFollows ==
  ASSUME NEW c, ContextOK(c)
  PROVE  Follows(c, InsertChar(Fresh(c)))
  BY FreshFollows, InsertFollows DEF SameText

LEMMA SpaceFollows ==
  ASSUME NEW c, ContextOK(c), NEW d \in Space(c)
  PROVE  Follows(c, d)
<1>1. c.bpmf \in Nat
  BY Sizes DEF ContextOK, Context
<1>2. CASE Choosing(c)
  BY <1>2, FreshFollows, TurnFollows DEF Space
<1>3. CASE ~Choosing(c) /\ c.bpmf > 0
  <2>1. d \in {Fresh(c), [Fresh(c) EXCEPT !.bpmf = 0],
               InsertChar([Fresh(c) EXCEPT !.bpmf = 0])}
    BY <1>3 DEF Space
  <2> QED BY <1>3, <2>1, FreshFollows, SyllableEnds
<1>4. CASE ~Choosing(c) /\ ~(c.bpmf > 0)
  <2>1. \/ d = [Fresh(c) EXCEPT !.commit = 1]
        \/ d = InsertChar(Fresh(c))
        \/ d \in OpenList(Fresh(c))
    BY <1>4 DEF Space
  <2>2. c.bpmf = 0
    BY <1>1, <1>4
  <2> QED BY <2>1, <2>2, CommitOneFollows, InsertFreshFollows, OpenFollows
<1> QED BY <1>2, <1>3, <1>4

LEMMA EnterFollows ==
  ASSUME NEW c, ContextOK(c), NEW d \in Enter(c)
  PROVE  Follows(c, d)
<1> DEFINE f == Fresh(c)
           g == [f EXCEPT !.commit = c.buf, !.buf = 0, !.cur = 0]
<1>1. d \in {f, [f EXCEPT !.aux = TRUE], g}
  BY DEF Enter
<1>2. Follows(c, f) /\ ContextOK(f) /\ SameText(c, f) /\ c.buf \in Nat
  BY FreshFollows
<1> HIDE DEF f
<1>3. Follows(c, [f EXCEPT !.aux = TRUE])
  BY <1>2, OutcomeFollows
<1>4. /\ g \in Context /\ g.chi = f.chi /\ g.bpmf = f.bpmf /\ g.buf = 0 /\ g.cur = 0
      /\ g.pages = f.pages /\ g.page = f.page /\ g.width = f.width /\ g.last = f.last
      /\ g.commit = c.buf
  <2>1. [f EXCEPT !.buf = 0, !.cur = 0] \in Context
    BY <1>2, Sizes DEF ContextOK, Context
  <2>2. g = [[f EXCEPT !.buf = 0, !.cur = 0] EXCEPT !.commit = c.buf]
    BY <1>2 DEF ContextOK, Context
  <2>3. g \in Context
    BY <1>2, <2>1, <2>2 DEF Context
  <2> QED BY <1>2, <2>3 DEF ContextOK, Context
<1> HIDE DEF g
<1>5. ContextOK(g)
  BY <1>2, <1>4 DEF ContextOK, Choosing
<1>6. Counts(c, g) /\ (Caught(g) => Caught(c)) /\ g.chi = c.chi
  BY <1>2, <1>4 DEF Counts, Caught, SameText
<1> QED BY <1>1, <1>2, <1>3, <1>5, <1>6 DEF Follows, Yields

LEMMA DeletingFollows ==
  ASSUME NEW c, ContextOK(c), NEW d \in Backspace(c) \cup Del(c)
  PROVE  Follows(c, d)
<1> DEFINE f == Fresh(c)
<1>1. /\ Follows(c, f) /\ ContextOK(f) /\ SameText(c, f) /\ f.cur = c.cur /\ f.commit = 0
      /\ Follows(c, CloseList(f))
  BY FreshFollows, CloseFollows
<1>2. c.bpmf \in 0..MaxBpmf /\ c.buf \in 0..MaxBuf /\ c.cur \in 0..c.buf
  BY Sizes DEF ContextOK, Context
<1>3. \/ d \in {f, CloseList(f)}
      \/ ~Choosing(c) /\ c.bpmf > 0 /\ d = [f EXCEPT !.bpmf = c.bpmf - 1]
      \/ c.cur > 0 /\ d = [f EXCEPT !.buf = c.buf - 1, !.cur = c.cur - 1]
      \/ c.cur < c.buf /\ d = [f EXCEPT !.buf = c.buf - 1]
  BY DEF Backspace, Del
<1>4. CASE ~Choosing(c) /\ c.bpmf > 0 /\ d = [f EXCEPT !.bpmf = c.bpmf - 1]
  <2>1. c.bpmf - 1 \in 0..MaxBpmf /\ c.bpmf - 1 <= c.bpmf
    BY <1>2, <1>4, Sizes
  <2> QED BY <1>4, <2>1, SyllableFollows
<1> HIDE DEF f
<1>5. ASSUME NEW n \in 0..MaxBuf, n <= c.buf - 1, d = [f EXCEPT !.buf = c.buf - 1, !.cur = n]
      PROVE  Follows(c, d)
  <2>1. c.buf - 1 \in 0..MaxBuf /\ c.buf - 1 < c.buf
    BY <1>2, <1>5, Sizes
  <2>2. /\ d \in Context /\ d.chi = c.chi /\ d.bpmf = c.bpmf /\ d.commit = 0
        /\ d.buf = c.buf - 1 /\ d.cur = n
        /\ d.pages = f.pages /\ d.page = f.page /\ d.width = f.width /\ d.last = f.last
    BY <1>1, <1>5, <2>1 DEF SameText, ContextOK, Context
  <2>3. ContextOK(d)
    BY <1>1, <1>5, <2>2 DEF SameText, ContextOK, Choosing
  <2> QED BY <2>1, <2>2, <2>3 DEF Follows, Yields, Counts, Caught
<1>6. CASE c.cur > 0 /\ d = [f EXCEPT !.buf = c.buf - 1, !.cur = c.cur - 1]
  <2>1. c.cur - 1 \in 0..MaxBuf /\ c.cur - 1 <= c.buf - 1
    BY <1>2, <1>6, Sizes
  <2> QED BY <1>5, <1>6, <2>1
<1>7. CASE c.cur < c.buf /\ d = [f EXCEPT !.buf = c.buf - 1]
  <2>1. c.cur \in 0..MaxBuf /\ c.cur <= c.buf - 1
    BY <1>2, <1>7, Sizes
  <2>2. d = [f EXCEPT !.buf = c.buf - 1, !.cur = c.cur]
    BY <1>1, <1>7 DEF ContextOK, Context
  <2> QED BY <1>5, <2>1, <2>2
<1> QED BY <1>1, <1>3, <1>4, <1>6, <1>7

LEMMA ShiftSpaceFollows ==
  ASSUME NEW c, ContextOK(c), NEW d \in ShiftSpace(c)
  PROVE  Follows(c, d)
<1>1. c.full \in BOOLEAN
  BY DEF ContextOK, Context
<1>2. PICK b \in BOOLEAN : b = ~c.full
  BY <1>1, Zenon
<1>3. Follows(c, [Fresh(c) EXCEPT !.full = b])
  BY FreshFollows, OutcomeFollows
<1> QED BY <1>2, <1>3, FreshFollows DEF ShiftSpace

\* Caps Lock, the one key that changes the language, on a context whose
\* bopomofo is gone or that was in English mode.
LEMMA CapslockYields ==
  ASSUME NEW c, ContextOK(c), c.bpmf = 0 \/ ~c.chi, NEW d \in Capslock(c)
  PROVE  Yields(c, d) /\ d.chi = ~c.chi
<1> DEFINE f == Fresh(c)
<1>1. ContextOK(f) /\ SameText(c, f) /\ f.commit = 0 /\ c.buf \in Nat
  BY FreshFollows
<1>2. d = [f EXCEPT !.chi = ~c.chi]
  BY DEF Capslock
<1> HIDE DEF f
<1>3. /\ ContextOK(d) /\ d.chi = ~c.chi /\ d.bpmf = c.bpmf /\ d.buf = c.buf
      /\ d.commit = 0
  BY <1>1, <1>2 DEF ContextOK, Context, Choosing, SameText
<1>4. Counts(c, d)
  BY <1>1, <1>3 DEF Counts
<1>5. ~Caught(d)
  <2>1. CASE c.bpmf = 0
    BY <1>3, <2>1 DEF Caught
  <2>2. CASE ~c.chi
    <3>1. d.chi
      BY <1>3, <2>2, Zenon
    <3> QED BY <3>1 DEF Caught
  <2> QED BY <2>1, <2>2
<1> QED BY <1>3, <1>4, <1>5 DEF Yields

LEMMA ChooseFollows ==
  ASSUME NEW c, ContextOK(c), NEW i \in Nat, NEW d \in Choose(c, i)
  PROVE  Follows(c, d)
<1> DEFINE e == [CloseList(Fresh(c)) EXCEPT !.picked = i]
<1>1. d = e \/ d = InsertChar(e)
  BY DEF Choose
<1>2. Follows(c, e)
  BY CloseFollows, OutcomeFollows
<1>3. e.buf = c.buf /\ e.commit = 0
  BY CloseFollows DEF SameText, ContextOK, Context
<1> HIDE DEF e
<1> QED BY <1>1, <1>2, <1>3, InsertFollows

LEMMA TypeFollows ==
  ASSUME NEW c, ContextOK(c), ~Choosing(c), NEW d \in Type(c)
  PROVE  Follows(c, d)
<1>1. c.bpmf \in 0..MaxBpmf
  BY Sizes DEF ContextOK, Context
<1>2. CASE c.chi
  <2>1. \/ c.bpmf < MaxBpmf /\ d = [Fresh(c) EXCEPT !.bpmf = c.bpmf + 1]
        \/ d = InsertChar([Fresh(c) EXCEPT !.bpmf = 0])
        \/ ~(c.bpmf > 0) /\ d \in {InsertChar(Fresh(c))} \cup OpenList(Fresh(c))
    BY <1>2 DEF Type
  <2>2. CASE c.bpmf < MaxBpmf /\ d = [Fresh(c) EXCEPT !.bpmf = c.bpmf + 1]
    <3>1. c.bpmf + 1 \in 0..MaxBpmf
      BY <1>1, <2>2, Sizes
    <3> QED BY <1>2, <2>2, <3>1, SyllableFollows
  <2>3. CASE d = InsertChar([Fresh(c) EXCEPT !.bpmf = 0])
    BY <2>3, SyllableEnds
  <2>4. CASE ~(c.bpmf > 0) /\ d \in {InsertChar(Fresh(c))} \cup OpenList(Fresh(c))
    <3>1. c.bpmf = 0
      BY <1>1, <2>4
    <3> QED BY <2>4, <3>1, InsertFreshFollows, OpenFollows
  <2> QED BY <2>1, <2>2, <2>3, <2>4
<1>3. CASE ~c.chi
  <2>1. d = [Fresh(c) EXCEPT !.commit = 1] \/ d = InsertChar(Fresh(c))
    BY <1>3 DEF Type
  <2> QED BY <2>1, CommitOneFollows, InsertFreshFollows
<1> QED BY <1>2, <1>3

\* chewing_handle_Default, whatever the key.
LEMMA DefaultFollows ==
  ASSUME NEW c, ContextOK(c), NEW k, NEW d \in Default(c, k)
  PROVE  Follows(c, d)
<1>1. CASE ~Choosing(c)
  BY <1>1, TypeFollows DEF Default
<1>2. CASE Choosing(c) /\ SelIndices(c, k) = {}
  BY <1>2, FreshFollows DEF Default
<1>3. CASE Choosing(c) /\ SelIndices(c, k) # {}
  <2>1. PICK i \in SelIndices(c, k) : d \in Choose(c, i)
    BY <1>3 DEF Default
  <2>2. i \in Nat
    BY KeysAreFinite DEF SelIndices, ContextOK
  <2> QED BY <2>1, <2>2, ChooseFollows
<1> QED BY <1>1, <1>2, <1>3

LEMMA EscFollows ==
  ASSUME NEW c, ContextOK(c), NEW d \in Esc(c)
  PROVE  Follows(c, d)
  BY EscapedLevels DEF Esc

-----------------------------------------------------------------------------
(* Lists and choices. *)

\* Only the call that chooses a candidate leaves a choice behind, and it closes
\* the list, which then has no width.
ListInv(c) ==
  /\ Choosing(c) => c.picked = 0
  /\ ~Choosing(c) => c.width = 0

Kept(c, d) == d.selKeys = c.selKeys /\ ListInv(d)

\* What a call leaves behind that chooses no candidate.
Plain(c, d) ==
  /\ d.selKeys = c.selKeys /\ d.picked = 0
  /\ ~Choosing(d) => d.width = 0

LEMMA FreshPlain ==
  ASSUME NEW c \in Context, ListInv(c)
  PROVE  /\ Plain(c, Fresh(c)) /\ Plain(c, CloseList(Fresh(c)))
         /\ Plain(c, InsertChar(Fresh(c)))
         /\ \A i : Plain(c, MoveCursor(Fresh(c), i))
         /\ \A i \in Int : Choosing(c) => Plain(c, TurnPage(Fresh(c), i))
  BY DEF Context, ListInv, Plain, Choosing, Fresh, CloseList, InsertChar, MoveCursor, TurnPage

LEMMA OpenPlain ==
  ASSUME NEW c \in Context, NEW d \in OpenList(Fresh(c))
  PROVE  Plain(c, d)
<1>1. PICK p \in 1..MaxPages, n \in 1..Len(Fresh(c).selKeys) : d = ListOpened(Fresh(c), p, n)
  BY DEF OpenList
<1>2. d.picked = 0 /\ d.pages = p /\ d.selKeys = c.selKeys
  BY <1>1 DEF ListOpened, Fresh, Context
<1>3. p > 0
  BY Sizes
<1> QED BY <1>2, <1>3 DEF Plain, Choosing

LEMMA TextPlain ==
  ASSUME NEW c \in Context, ListInv(c),
         NEW d \in Space(c) \cup Enter(c) \cup Backspace(c) \cup Del(c) \cup ShiftSpace(c)
                 \cup Capslock(c) \cup CtrlNum(c) \cup Esc(c)
  PROVE  Plain(c, d)
<1>1. CASE d \in OpenList(Fresh(c))
  BY <1>1, OpenPlain
<1>2. CASE d \in Space(c) /\ d \notin OpenList(Fresh(c))
  BY <1>2 DEF Space, Context, ListInv, Plain, Choosing, Fresh, InsertChar, TurnPage
<1>3. CASE d \in Enter(c)
  BY <1>3 DEF Enter, Context, ListInv, Plain, Choosing, Fresh
<1>4. CASE d \in Backspace(c)
  BY <1>4 DEF Backspace, Context, ListInv, Plain, Choosing, Fresh, CloseList
<1>5. CASE d \in Del(c)
  BY <1>5 DEF Del, Context, ListInv, Plain, Choosing, Fresh
<1>6. CASE d \in ShiftSpace(c) \cup Capslock(c)
  BY <1>6 DEF ShiftSpace, Capslock, Context, ListInv, Plain, Choosing, Fresh
<1>7. CASE d \in CtrlNum(c) /\ d \notin OpenList(Fresh(c))
  BY <1>7 DEF CtrlNum, Context, ListInv, Plain, Choosing, Fresh
<1>8. CASE d \in Esc(c)
  BY <1>8 DEF Esc, Escaped, Context, ListInv, Plain, Choosing, Fresh, CloseList
<1> QED BY <1>1, <1>2, <1>3, <1>4, <1>5, <1>6, <1>7, <1>8

LEMMA MovingPlain ==
  ASSUME NEW c \in Context, ListInv(c),
         NEW d \in PageUp(c) \cup PageDown(c) \cup Left(c) \cup Right(c)
                     \cup ShiftLeft(c) \cup ShiftRight(c) \cup Home(c) \cup End(c)
                     \cup Tab(c) \cup Up(c) \cup Down(c)
  PROVE  Plain(c, d)
<1>1. CASE d \in OpenList(Fresh(c))
  BY <1>1, OpenPlain
<1>2. CASE d \notin OpenList(Fresh(c)) /\ Choosing(c)
  <2>1. d \in {TurnPage(Fresh(c), c.page - 1), TurnPage(Fresh(c), c.page + 1),
               Fresh(c), CloseList(Fresh(c))}
    BY <1>2 DEF PageUp, PageDown, Left, Right, ShiftLeft, ShiftRight, Home, End, Tab, Up, Down
  <2>2. c.page - 1 \in Int /\ c.page + 1 \in Int
    BY DEF Context
  <2> QED BY <1>2, <2>1, <2>2, FreshPlain
<1>3. CASE d \notin OpenList(Fresh(c)) /\ ~Choosing(c)
  <2>1. d \in {MoveCursor(Fresh(c), c.buf), MoveCursor(Fresh(c), c.cur - 1),
               MoveCursor(Fresh(c), c.cur + 1), MoveCursor(Fresh(c), 0), Fresh(c)}
    BY <1>3 DEF PageUp, PageDown, Left, Right, ShiftLeft, ShiftRight, Home, End, Tab, Up, Down
  <2> QED BY <2>1, FreshPlain
<1> QED BY <1>1, <1>2, <1>3

\* chewing_handle_Default chooses the candidate of the key, or none.
LEMMA DefaultChooses ==
  ASSUME NEW c \in Context, NEW k, NEW d \in Default(c, k)
  PROVE  d.picked = 0 \/ (Choosing(c) /\ d.picked \in SelIndices(c, k))
<1>1. CASE d \in OpenList(Fresh(c))
  BY <1>1, OpenPlain DEF Plain
<1>2. CASE ~Choosing(c) /\ d \notin OpenList(Fresh(c))
  <2>1. d \in Type(c)
    BY <1>2 DEF Default
  <2> QED BY <1>2, <2>1 DEF Type, Context, Fresh, InsertChar
<1>3. CASE Choosing(c) /\ d = Fresh(c)
  BY <1>3 DEF Fresh, Context
<1>4. CASE Choosing(c) /\ \E i \in SelIndices(c, k) : d \in Choose(c, i)
  BY <1>4 DEF Choose, CloseList, Fresh, InsertChar, Context
<1> QED BY <1>1, <1>2, <1>3, <1>4 DEF Default

LEMMA DefaultKept ==
  ASSUME NEW c \in Context, ListInv(c), NEW k, NEW d \in Default(c, k)
  PROVE  Kept(c, d)
<1>1. CASE d \in OpenList(Fresh(c))
  BY <1>1, OpenPlain DEF Plain, Kept, ListInv
<1>2. CASE ~Choosing(c) /\ d \notin OpenList(Fresh(c))
  <2>1. d \in Type(c)
    BY <1>2 DEF Default
  <2>2. Plain(c, d)
    BY <1>2, <2>1 DEF Type, Context, ListInv, Plain, Choosing, Fresh, InsertChar
  <2> QED BY <2>2 DEF Plain, Kept, ListInv
<1>3. CASE Choosing(c) /\ d = Fresh(c)
  BY <1>3, FreshPlain DEF Plain, Kept, ListInv
<1>4. CASE Choosing(c) /\ \E i \in SelIndices(c, k) : d \in Choose(c, i)
  <2>1. d.pages = 0 /\ d.width = 0 /\ d.selKeys = c.selKeys
    BY <1>4 DEF Choose, CloseList, Fresh, InsertChar, Context
  <2> QED BY <2>1 DEF Kept, ListInv, Choosing
<1> QED BY <1>1, <1>2, <1>3, <1>4 DEF Default
=============================================================================
