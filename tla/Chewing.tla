------------------------------ MODULE Chewing ------------------------------
(***************************************************************************)
(* The libchewing context, as ibus-chewing uses it.                        *)
(*                                                                         *)
(* libchewing is a library outside this repository: the operators below    *)
(* are its contract, read off the calls in ibus-chewing-preedit.c,         *)
(* ibus-chewing-lookup-table.c and ibus-chewing-engine.c.  A context is a  *)
(* record; characters and phonetic symbols are abstracted to their number, *)
(* a candidate to its position on its page.                                *)
(*                                                                         *)
(*   chi, full  chewing_get_ChiEngMode, chewing_get_ShapeMode              *)
(*   buf, cur   chewing_buffer_Len, chewing_cursor_Current                 *)
(*   bpmf       length of chewing_bopomofo_String_static                   *)
(*   pages      chewing_cand_TotalPage, 0 when no candidate list is open   *)
(*   page       chewing_cand_CurrentPage, from 0                           *)
(*   width      chewing_cand_ChoicePerPage of the open list                *)
(*   last       number of candidates on the last page of the list          *)
(*   commit     length of chewing_commit_String, 0 when commit_Check is 0  *)
(*   aux        whether chewing_aux_Length is positive                     *)
(*   picked     position on its page of the candidate the last call chose, *)
(*              0 when it chose none (an observation, read by no code)     *)
(*   selKeys    chewing_get_selKey, its length chewing_get_candPerPage     *)
(*   escAll     chewing_get_escCleanAllBuf                                 *)
(*   fwKey      "chewing.enable_fullwidth_toggle_key"                      *)
(***************************************************************************)
EXTENDS Integers, Sequences

CONSTANTS
  MaxBuf,      \* chewing_set_maxChiSymbolLen: characters the buffer holds
  MaxBpmf,     \* phonetic symbols a syllable under composition holds
  MaxPages,    \* bound: pages a candidate list has at most
  SelKeySets   \* the selection key strings the settings allow

ASSUME ChewingAssumption ==
  /\ MaxBuf \in Nat \ {0}
  /\ MaxBpmf \in Nat \ {0}
  /\ MaxPages \in Nat \ {0}
  /\ \A s \in SelKeySets : Len(s) \in Nat \ {0}

Context ==
  [chi : BOOLEAN, full : BOOLEAN, buf : 0..MaxBuf, cur : 0..MaxBuf,
   bpmf : 0..MaxBpmf, pages : 0..MaxPages, page : Nat, width : Nat,
   last : Nat, commit : Nat, aux : BOOLEAN, picked : Nat,
   selKeys : SelKeySets, escAll : BOOLEAN, fwKey : BOOLEAN]

Choosing(c) == c.pages > 0

\* chewing_cand_hasNext over chewing_cand_Enumerate: candidates on this page.
OnPage(c) == IF ~Choosing(c) THEN 0
             ELSE IF c.page = c.pages - 1 THEN c.last ELSE c.width

\* chewing_new followed by chewing_set_ChiEngMode(CHINESE_MODE).
NewContext(keys, escAll, fwKey) ==
  [chi |-> TRUE, full |-> FALSE, buf |-> 0, cur |-> 0, bpmf |-> 0,
   pages |-> 0, page |-> 0, width |-> 0, last |-> 0, commit |-> 0,
   aux |-> FALSE, picked |-> 0, selKeys |-> keys,
   escAll |-> escAll, fwKey |-> fwKey]

-----------------------------------------------------------------------------
(* Pieces of the handlers. *)

\* A key replaces the commit string, the message and the choice of the last.
Fresh(c) == [c EXCEPT !.commit = 0, !.aux = FALSE, !.picked = 0]

CloseList(c) ==
  [c EXCEPT !.pages = 0, !.page = 0, !.width = 0, !.last = 0]

\* A list of any size opens at its first page; its width is the setting's.
ListOpened(c, p, n) ==
  [c EXCEPT !.pages = p, !.page = 0, !.width = Len(c.selKeys), !.last = n]

OpenList(c) ==
  {ListOpened(c, p, n) : p \in 1..MaxPages, n \in 1..Len(c.selKeys)}

\* A full buffer hands its oldest character over to be committed.
InsertChar(c) ==
  IF c.buf < MaxBuf THEN [c EXCEPT !.buf = c.buf + 1, !.cur = c.cur + 1]
                    ELSE [c EXCEPT !.commit = 1]

MoveCursor(c, i) ==
  IF i \in 0..c.buf THEN [c EXCEPT !.cur = i] ELSE c

TurnPage(c, i) ==
  [c EXCEPT !.page = IF i < 0 THEN c.pages - 1 ELSE IF i < c.pages THEN i ELSE 0]

-----------------------------------------------------------------------------
(* The handlers: each is the set of contexts a call may leave behind.      *)
(* Every one of them but Default returns 0.                                *)

\* One level at a time: the list, the bopomofo, then the whole buffer.
Escaped(c, all) ==
  LET d == Fresh(c) IN
  IF Choosing(c) THEN CloseList(d)
  ELSE IF c.bpmf > 0 THEN [d EXCEPT !.bpmf = 0]
  ELSE IF all THEN [d EXCEPT !.buf = 0, !.cur = 0]
  ELSE d

Esc(c) == {Escaped(c, c.escAll)}

Enter(c) ==
  LET d == Fresh(c) IN
  IF Choosing(c) \/ c.bpmf > 0 \/ c.buf = 0 THEN {d}
  ELSE {[d EXCEPT !.commit = c.buf, !.buf = 0, !.cur = 0], [d EXCEPT !.aux = TRUE]}

\* Pages through a list, ends a syllable, opens a list or types a blank.
Space(c) ==
  LET d == Fresh(c) IN
  IF Choosing(c) THEN {TurnPage(d, c.page + 1)}
  ELSE IF c.bpmf > 0
       THEN {d, [d EXCEPT !.bpmf = 0], InsertChar([d EXCEPT !.bpmf = 0])}
  ELSE IF c.buf = 0 THEN {[d EXCEPT !.commit = 1]}
  ELSE {InsertChar(d)} \cup OpenList(d)

ShiftSpace(c) ==
  {IF c.fwKey THEN [Fresh(c) EXCEPT !.full = ~c.full] ELSE Fresh(c)}

Capslock(c) == {[Fresh(c) EXCEPT !.chi = ~c.chi]}

\* Down opens the list, or cycles an open one to phrases of another length.
Down(c) ==
  LET d == Fresh(c) IN
  IF Choosing(c) THEN OpenList(d)
  ELSE IF c.bpmf = 0 /\ c.buf > 0 THEN OpenList(d) ELSE {d}

Up(c) == {IF Choosing(c) THEN CloseList(Fresh(c)) ELSE Fresh(c)}

PageUp(c) ==
  LET d == Fresh(c) IN
  {IF Choosing(c) THEN TurnPage(d, c.page - 1) ELSE MoveCursor(d, c.buf)}

PageDown(c) ==
  LET d == Fresh(c) IN
  {IF Choosing(c) THEN TurnPage(d, c.page + 1) ELSE MoveCursor(d, c.buf)}

Left(c) ==
  LET d == Fresh(c) IN
  {IF Choosing(c) THEN TurnPage(d, c.page - 1) ELSE MoveCursor(d, c.cur - 1)}

Right(c) ==
  LET d == Fresh(c) IN
  {IF Choosing(c) THEN TurnPage(d, c.page + 1) ELSE MoveCursor(d, c.cur + 1)}

ShiftLeft(c)  == {IF Choosing(c) THEN Fresh(c) ELSE MoveCursor(Fresh(c), c.cur - 1)}
ShiftRight(c) == {IF Choosing(c) THEN Fresh(c) ELSE MoveCursor(Fresh(c), c.cur + 1)}
Home(c) == {IF Choosing(c) THEN Fresh(c) ELSE MoveCursor(Fresh(c), 0)}
End(c)  == {IF Choosing(c) THEN Fresh(c) ELSE MoveCursor(Fresh(c), c.buf)}
Tab(c)  == {Fresh(c)}

Backspace(c) ==
  LET d == Fresh(c) IN
  {IF Choosing(c) THEN CloseList(d)
   ELSE IF c.bpmf > 0 THEN [d EXCEPT !.bpmf = c.bpmf - 1]
   ELSE IF c.cur > 0 THEN [d EXCEPT !.buf = c.buf - 1, !.cur = c.cur - 1]
   ELSE d}

Del(c) ==
  LET d == Fresh(c) IN
  {IF ~Choosing(c) /\ c.bpmf = 0 /\ c.cur < c.buf
   THEN [d EXCEPT !.buf = c.buf - 1] ELSE d}

\* Ctrl+digit adds a phrase, with a message, or opens the symbol list.
CtrlNum(c) ==
  LET d == Fresh(c) IN
  {d} \cup (IF Choosing(c) \/ c.bpmf > 0 THEN {}
            ELSE {[d EXCEPT !.aux = TRUE]} \cup OpenList(d))

-----------------------------------------------------------------------------
(* chewing_handle_Default, the one call whose result the code inspects:    *)
(* 0 or COMMIT, ABSORB and IGNORE, the last two leaving the text alone.    *)

\* A candidate replaces a phrase of the buffer, or is a symbol to insert.
Choose(c, i) ==
  LET d == [CloseList(Fresh(c)) EXCEPT !.picked = i] IN {d, InsertChar(d)}

\* In Chinese mode a key is a phonetic symbol, the last of a syllable, a
\* symbol of its own or the key of a symbol list; in English mode it is a
\* character, committed at once when the buffer is empty.
Type(c) ==
  LET d == Fresh(c) IN
  IF c.chi
  THEN (IF c.bpmf < MaxBpmf THEN {[d EXCEPT !.bpmf = c.bpmf + 1]} ELSE {})
         \cup (IF c.bpmf > 0 THEN {InsertChar([d EXCEPT !.bpmf = 0])}
                             ELSE {InsertChar(d)} \cup OpenList(d))
  ELSE IF c.buf = 0 THEN {[d EXCEPT !.commit = 1]} ELSE {InsertChar(d)}

SelIndices(c, k) ==
  {i \in 1..Len(c.selKeys) : c.selKeys[i] = k /\ i <= OnPage(c)}

\* What the call may leave behind when it returns 0.
Default(c, k) ==
  IF ~Choosing(c) THEN Type(c)
  ELSE IF SelIndices(c, k) = {} THEN {Fresh(c)}
  ELSE UNION {Choose(c, i) : i \in SelIndices(c, k)}

\* chewing_ack, after the commit string has been read.
Ack(c) == [c EXCEPT !.commit = 0]

\* chewing_set_candPerPage and chewing_set_selKey: an open list keeps its width.
SetSelKeys(c, keys) == [c EXCEPT !.selKeys = keys]

-----------------------------------------------------------------------------
\* What every handler preserves: a list is open at one of its pages, which is
\* not empty, and never while a syllable is being composed; the cursor is
\* inside the buffer.
ContextOK(c) ==
  /\ c \in Context
  /\ c.cur <= c.buf
  /\ Choosing(c) => c.page < c.pages /\ c.last \in 1..c.width /\ c.bpmf = 0
=============================================================================
