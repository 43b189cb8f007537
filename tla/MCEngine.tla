----------------------------- MODULE MCEngine -----------------------------
(* Engine for TLC: the keys that move text, lists and modes, one of each. *)
EXTENDS Engine

MCDigitKeys     == {"1", "2"}
MCKeypadKeys    == {"KP_1"}
MCPrintableKeys == {"a"}
MCKPNormal      == [k \in {"KP_1"} |-> "1"]
MCUpper         == [k \in {} |-> ""]
MCSelKeys       == {<<"1", "2">>}
OneSelKey       == {<<"1">>}

\* Text and lists: the keys that start, choose, end and commit a text.
TextEvents ==
  ({"a", "1", "KP_1", "Return", "Down", "Escape", "Caps_Lock"} \X {{}})
    \cup {<<"1", {"Control"}>>, <<"a", {"Super"}>>, <<"Caps_Lock", {"Lock"}>>}
TextConfs == [toggle : {"c"}, case : {"n"}, vertical : {FALSE}]
TextPrefs == [notify : {FALSE}, cleanOut : BOOLEAN, useEnglish : {FALSE},
              sync : {"disable"}, showPage : {FALSE}]

\* Modes: the keys that change them, under both toggle keys.
ModeEvents ==
  ({"a", "Shift_L"} \X {{}})
    \cup {"Caps_Lock"} \X {{}, {"Lock"}}
    \cup {"Shift_L"} \X {{"Shift", "Release"}}
    \cup {"space"} \X {{"Shift"}, {"Shift", "Lock"}}
ModeConfs == [toggle : {"c", "s"}, case : {"n"}, vertical : {FALSE}]
ModePrefs == [notify : {TRUE}, cleanOut : {FALSE}, useEnglish : {FALSE},
              sync : {"keyboard", "disable"}, showPage : {TRUE}]
EnglishPrefs == [notify : {TRUE}, cleanOut : {FALSE}, useEnglish : {TRUE},
                 sync : {"disable"}, showPage : {FALSE}]
=============================================================================
