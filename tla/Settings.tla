------------------------------ MODULE Settings ------------------------------
(***************************************************************************)
(* The settings: one GSettings store; the engine processes, which migrate  *)
(* an old setting when they start (main.c) and then follow the store       *)
(* (ibus_chewing_engine_init, ibus_chewing_engine_set_property); and the   *)
(* setup window, a process of its own (ibus-setup-chewing-window.c).       *)
(*                                                                         *)
(* GSettings is a library outside this repository.  A change reaches the   *)
(* other processes as a notice, on which a binding reads the value of that *)
(* moment; a process's own writes are queued, seen by itself at once, and  *)
(* lost in the queue when it ends.  Of the settings those are modelled     *)
(* whose value the code converts; the others are copied.                   *)
(***************************************************************************)
EXTENDS Integers, Sequences, Functions

CONSTANTS
  Procs,       \* the engine processes: one, and the one that replaces it
  Picks,       \* bound: the values a user of the window gives each setting
  Values,      \* bound: the values other programs give each setting
  MaxChanges   \* bound: how often they change one

\* kb_type_get_index: the names in the order of libchewing's layouts.
KbTypes ==
  <<"default", "hsu", "ibm", "gin_yieh", "eten", "eten26", "dvorak", "dvorak_hsu",
    "dachen_26", "hanyu", "thl_pinying", "mps2_pinyin", "carpalx",
    "colemak_dh_ansi", "colemak_dh_orth", "workman", "colemak">>

\* kb_type_ids: the names in the order of the rows of the window.
KbTypeIds ==
  <<"default", "hsu", "ibm", "gin_yieh", "eten", "eten26", "dvorak", "dvorak_hsu",
    "dachen_26", "hanyu", "thl_pinying", "mps2_pinyin", "carpalx",
    "colemak", "colemak_dh_ansi", "colemak_dh_orth", "workman">>

SelKeyIds ==
  <<"1234567890", "asdfghjkl;", "asdfzxcv89", "asdfjkl789", "aoeu;qjkix",
    "aoeuhtnsid", "aoeuidhtns", "1234qweras">>

SyncCapsLockIds == <<"disable", "keyboard", "input method">>
ConversionEngineIds == <<"simple", "chewing", "fuzzy-chewing">>

Ids == [kbType |-> KbTypeIds, selKeys |-> SelKeyIds,
        conversion |-> ConversionEngineIds, sync |-> SyncCapsLockIds]

\* The rows the window has for each, which are fewer in one case.
NumRows == [kbType |-> 17, selKeys |-> 8, conversion |-> 3, sync |-> 2]

IdKeys == DOMAIN Ids
BoundKeys == IdKeys \cup {"candPerPage"}

ASSUME SettingsAssumption ==
  /\ MaxChanges \in Nat
  /\ Procs \cap {"window", "other"} = {}
  /\ \A k \in IdKeys : Picks[k] \cup Values[k] \subseteq Range(Ids[k])
  /\ Values.candPerPage \subseteq 4..10

VARIABLES
  store,    \* the settings, and plainZhuyin: "true", "false" or "unset"
  pc,       \* of each engine process: "off", "migrating", "running"
  todo,     \* the writes its migration still has to make
  writes,   \* the writes it made that are not in the store
  lib,      \* what its pre-edit component and libchewing were told
  rows,     \* the selected row per setting, or <<>> with no window
  due,      \* the changes each process and the window were not told
  changes,  \* the number of changes from outside
  asked,    \* whether plain Zhuyin was asked for
  chosen    \* whether a conversion engine was chosen since

settingsVars ==
  <<store, pc, todo, writes, lib, rows, due, changes, asked, chosen>>

Parties == Procs \cup {"window"}
Running(p) == pc[p] = "running"
Open == rows # <<>>

-----------------------------------------------------------------------------
(* What the handlers of the settings make of a value. *)

\* Mutant: the names are in the order of the window.
KbTypeIndexOfWindow(name) == CHOOSE i \in 0..16 : KbTypeIds[i + 1] = name

\* kb_type_get_index.
KbTypeIndex(name) == CHOOSE i \in 0..16 : KbTypes[i + 1] = name

ConversionIndex(name) == CHOOSE i \in 0..2 : ConversionEngineIds[i + 1] = name

\* The flags of the pre-edit component.
SyncFlags(name) ==
  IF name = "keyboard" THEN {"FLAG_SYNC_FROM_KEYBOARD"}
  ELSE IF name = "input method" THEN {"FLAG_SYNC_FROM_IM"}
  ELSE {}

\* ibus_chewing_lookup_table_resize: ten keys, of which a page uses some.
Table(s) == [keys |-> s.selKeys, len |-> IF s.candPerPage < 10 THEN s.candPerPage ELSE 10]

\* Mutant: a new page size does not resize the table.
SetSelKeysOnly(t, k, s) ==
  CASE k = "kbType"     -> [t EXCEPT !.kbType = KbTypeIndex(s.kbType)]
    [] k = "conversion" -> [t EXCEPT !.conversion = ConversionIndex(s.conversion)]
    [] k = "sync"       -> [t EXCEPT !.sync = SyncFlags(s.sync)]
    [] k = "selKeys"    -> [t EXCEPT !.table = Table(s)]
    [] k = "candPerPage" -> t

\* Mutant: the flag of the setting before is not cleared.
SetPropertyKeepsFlags(t, k, s) ==
  CASE k = "sync"        -> [t EXCEPT !.sync = @ \cup SyncFlags(s.sync)]
    [] k = "candPerPage" -> [t EXCEPT !.table = Table(s)]
    [] OTHER             -> SetSelKeysOnly(t, k, s)

\* ibus_chewing_engine_set_property for setting k on store s: resize reads all
\* it needs from the store itself, whichever of its settings has changed.
SetProperty(t, k, s) ==
  CASE k = "kbType"     -> [t EXCEPT !.kbType = KbTypeIndex(s.kbType)]
    [] k = "conversion" -> [t EXCEPT !.conversion = ConversionIndex(s.conversion)]
    [] k = "sync"       -> [t EXCEPT !.sync = SyncFlags(s.sync)]
    [] k \in {"selKeys", "candPerPage"} -> [t EXCEPT !.table = Table(s)]

\* ibus_chewing_engine_init: every setting is bound, and read.
Bound(s) ==
  [kbType |-> KbTypeIndex(s.kbType), conversion |-> ConversionIndex(s.conversion),
   sync |-> SyncFlags(s.sync), table |-> Table(s)]

Unbound == [kbType |-> -1, conversion |-> -1, sync |-> {}, table |-> [keys |-> "", len |-> 0]]

\* id_get_mapping, and no row where the list of the window has none.
RowOf(k, s) ==
  LET i == CHOOSE i \in 0..(Len(Ids[k]) - 1) : Ids[k][i + 1] = s[k]
  IN IF i < NumRows[k] THEN i ELSE -1

-----------------------------------------------------------------------------
(* The store. *)

\* A store with the writes of a queue, which are at most a migration's two.
With(s, w) == [s EXCEPT ![w[1]] = w[2]]
Seen(s, q) ==
  CASE q = <<>>   -> s
    [] Len(q) = 1 -> With(s, q[1])
    [] Len(q) = 2 -> With(With(s, q[1]), q[2])

\* The store as process p sees it: with its own writes.
View(p) == Seen(store, writes[p])

\* A write of another party is news to whoever has the setting bound.
Write(k, v, writer) ==
  /\ store' = [store EXCEPT ![k] = v]
  /\ due' = [x \in Parties |->
       IF /\ x # writer /\ k \in BoundKeys
          /\ x \in Procs => Running(x)
          /\ x = "window" => Open /\ k \in IdKeys
       THEN due[x] \cup {k} ELSE due[x]]

-----------------------------------------------------------------------------
(* main, of an engine process. *)

\* Mutant: the old setting is reset before the new one is made.
MigrationResetFirst(plain) ==
  IF plain = "true" THEN <<<<"plainZhuyin", "unset">>, <<"conversion", "simple">>>>
  ELSE IF plain = "false" THEN <<<<"plainZhuyin", "unset">>>>
  ELSE <<>>

\* Mutant: only plain Zhuyin that is on is migrated.
MigrationOfTrue(plain) ==
  IF plain = "true" THEN <<<<"conversion", "simple">>, <<"plainZhuyin", "unset">>>>
  ELSE <<>>

Migration(plain) ==
  IF plain = "true" THEN <<<<"conversion", "simple">>, <<"plainZhuyin", "unset">>>>
  ELSE IF plain = "false" THEN <<<<"plainZhuyin", "unset">>>>
  ELSE <<>>

\* Up to g_settings_get_user_value.
Launch(p) ==
  /\ pc[p] = "off"
  /\ pc' = [pc EXCEPT ![p] = "migrating"]
  /\ todo' = [todo EXCEPT ![p] = Migration(store.plainZhuyin)]
  /\ UNCHANGED <<store, writes, lib, rows, due, changes, asked, chosen>>

Migrate(p) ==
  /\ pc[p] = "migrating" /\ todo[p] # <<>>
  /\ todo' = [todo EXCEPT ![p] = Tail(todo[p])]
  /\ writes' = [writes EXCEPT ![p] = Append(writes[p], Head(todo[p]))]
  /\ UNCHANGED <<store, pc, lib, rows, due, changes, asked, chosen>>

\* start_component, connected, and the engine IBus asks the factory for.
StartComponent(p) ==
  /\ pc[p] = "migrating" /\ todo[p] = <<>>
  /\ pc' = [pc EXCEPT ![p] = "running"]
  /\ lib' = [lib EXCEPT ![p] = Bound(View(p))]
  /\ UNCHANGED <<store, todo, writes, rows, due, changes, asked, chosen>>

\* --show_flags, no connection, the connection lost, or killed at any point.
Exit(p) ==
  /\ pc[p] # "off"
  /\ pc' = [pc EXCEPT ![p] = "off"]
  /\ todo' = [todo EXCEPT ![p] = <<>>]
  /\ writes' = [writes EXCEPT ![p] = <<>>]
  /\ lib' = [lib EXCEPT ![p] = Unbound]
  /\ due' = [due EXCEPT ![p] = {}]
  /\ UNCHANGED <<store, rows, changes, asked, chosen>>

\* The writes reach the store in order.
Flush(p) ==
  /\ writes[p] # <<>>
  /\ Write(Head(writes[p])[1], Head(writes[p])[2], p)
  /\ writes' = [writes EXCEPT ![p] = Tail(writes[p])]
  /\ UNCHANGED <<pc, todo, lib, rows, changes, asked, chosen>>

\* The main loop hands a notice to the binding of the setting.
Notice(p, k) ==
  /\ k \in due[p] /\ Running(p)
  /\ lib' = [lib EXCEPT ![p] = SetProperty(lib[p], k, View(p))]
  /\ due' = [due EXCEPT ![p] = due[p] \ {k}]
  /\ UNCHANGED <<store, pc, todo, writes, rows, changes, asked, chosen>>

Dispatch(p) == \E k \in BoundKeys : Notice(p, k)

-----------------------------------------------------------------------------
(* The setup window, and other programs that change settings. *)

\* ibus_setup_chewing_window_init.
OpenWindow ==
  /\ ~Open
  /\ rows' = [k \in IdKeys |-> RowOf(k, store)]
  /\ UNCHANGED <<store, pc, todo, writes, lib, due, changes, asked, chosen>>

CloseWindow ==
  /\ Open
  /\ rows' = <<>>
  /\ due' = [due EXCEPT !["window"] = {}]
  /\ UNCHANGED <<store, pc, todo, writes, lib, changes, asked, chosen>>

WindowNotice(k) ==
  /\ Open /\ k \in due["window"]
  /\ rows' = [rows EXCEPT ![k] = RowOf(k, store)]
  /\ due' = [due EXCEPT !["window"] = @ \ {k}]
  /\ UNCHANGED <<store, pc, todo, writes, lib, changes, asked, chosen>>

Choose(k) ==
  /\ changes < MaxChanges
  /\ changes' = changes + 1
  /\ chosen' = (chosen \/ k = "conversion")

\* id_set_mapping, on the row the user selects.
SelectRow(k, i) ==
  /\ Open /\ i # rows[k]
  /\ Ids[k][i + 1] \in Picks[k]
  /\ Choose(k)
  /\ rows' = [rows EXCEPT ![k] = i]
  /\ Write(k, Ids[k][i + 1], "window")
  /\ UNCHANGED <<pc, todo, writes, lib, asked>>

\* Another program, such as gsettings.
OtherWrite(k, v) ==
  /\ v # store[k]
  /\ Choose(k)
  /\ Write(k, v, "other")
  /\ UNCHANGED <<pc, todo, writes, lib, rows, asked>>

-----------------------------------------------------------------------------
SettingsInit ==
  /\ store \in [kbType : {"default"}, selKeys : {"1234567890"}, candPerPage : {5},
                conversion : {"chewing"}, sync : {"keyboard"},
                plainZhuyin : {"true", "false", "unset"}]
  /\ pc = [p \in Procs |-> "off"]
  /\ todo = [p \in Procs |-> <<>>]
  /\ writes = [p \in Procs |-> <<>>]
  /\ lib = [p \in Procs |-> Unbound]
  /\ rows = <<>>
  /\ due = [x \in Parties |-> {}]
  /\ changes = 0
  /\ asked = (store.plainZhuyin = "true")
  /\ chosen = FALSE

ProcNext(p) ==
  \/ Launch(p) \/ Migrate(p) \/ StartComponent(p) \/ Exit(p) \/ Flush(p)
  \/ Dispatch(p)

SettingsNext ==
  \/ \E p \in Procs : ProcNext(p)
  \/ OpenWindow
  \/ CloseWindow
  \/ \E k \in IdKeys : WindowNotice(k)
  \/ \E k \in IdKeys : \E i \in 0..(NumRows[k] - 1) : SelectRow(k, i)
  \/ \E k \in BoundKeys : \E v \in Values[k] : OtherWrite(k, v)

SettingsSpec == SettingsInit /\ [][SettingsNext]_settingsVars

\* GSettings delivers notices and writes while the main loops run.
Delivery ==
  \A p \in Procs : WF_settingsVars(Flush(p)) /\ WF_settingsVars(Dispatch(p))

SettingsFairSpec == SettingsSpec /\ Delivery

-----------------------------------------------------------------------------
(* Properties. *)

\* An engine that has been told of every change works with the settings there
\* are, also where one handler reads a second setting that is still due.
EngineIsCurrent ==
  \A p \in Procs : Running(p) /\ due[p] = {} => lib[p] = Bound(View(p))

\* What the window shows as selected is what libchewing and the component do:
\* the names, their order in the window and libchewing's numbers agree.
ShownIsUsed ==
  \A p \in Procs :
    Running(p) /\ Open /\ due[p] = {} /\ due["window"] = {} /\ writes[p] = <<>> =>
      LET shown(k) == IF rows[k] = -1 THEN "" ELSE Ids[k][rows[k] + 1] IN
      /\ shown("kbType") = KbTypes[lib[p].kbType + 1]
      /\ shown("conversion") = ConversionEngineIds[lib[p].conversion + 1]
      /\ shown("selKeys") = lib[p].table.keys
      /\ shown("sync") = "keyboard" <=> "FLAG_SYNC_FROM_KEYBOARD" \in lib[p].sync

\* Plain Zhuyin that was asked for is not forgotten, wherever the migration of
\* the setting is interrupted, repeated or run by two processes at once, until
\* the user chooses a conversion engine.
PlainZhuyinKept ==
  asked /\ ~chosen => store.plainZhuyin = "true" \/ store.conversion = "simple"

\* Every running engine comes to follow the store, once changes end.
EngineCatchesUp ==
  \A p \in Procs : Running(p) ~> (lib[p] = Bound(store) \/ ~Running(p))

\* A migration is over, and not repeated, once an engine keeps running.
MigrationEnds ==
  \A p \in Procs : Running(p) ~> (store.plainZhuyin = "unset" \/ ~Running(p))
=============================================================================
