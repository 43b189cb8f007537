---------------------------- MODULE MCPreEdit ----------------------------
(* PreEdit for TLC: one key of each class, with the modifiers that matter. *)
EXTENDS PreEdit

MCDigitKeys     == {"1", "2"}
MCKeypadKeys    == {"KP_1"}
MCPrintableKeys == {"a", "A"}
MCKPNormal      == [k \in {"KP_1"} |-> "1"]
MCUpper         == [k \in {"a"} |-> "A"]

MCSelKeys   == {<<"1", "2">>}
MCTwoLayouts == {<<"1", "2">>, <<"a">>}

CapsConfs == [toggle : {"c"}, case : {"l", "u"}, vertical : BOOLEAN]
ShiftConfs == [toggle : {"s", "l", "r", "n"}, case : {"n"}, vertical : {FALSE}]

Press(keys)   == keys \X {{}}
With(keys, m) == keys \X {{m}}

EditingKeys == {"Return", "BackSpace", "Delete", "Escape", "Left", "Up",
                "Right", "Down", "Page_Up", "Page_Down", "Tab", "Home", "End"}
CharKeys == MCDigitKeys \cup MCKeypadKeys \cup {"a", "space"}

CapsEvents ==
  Press(EditingKeys \cup CharKeys \cup {"Caps_Lock", "special"})
    \cup With({"1", "KP_1", "A", "space", "Left", "Right"}, "Shift")
    \cup With({"1", "KP_1", "Escape", "Caps_Lock"}, "Control")
    \cup With({"1", "KP_1", "a", "space"}, "Alt")
    \cup With({"a", "Caps_Lock"}, "Release")
    \cup With({"Caps_Lock"}, "Lock")

ShiftEvents ==
  Press({"a", "1", "KP_1", "space", "Return", "Down", "Escape", "BackSpace",
         "Caps_Lock", "Shift_L", "Shift_R"})
    \cup With({"A", "space"}, "Shift")
    \cup {"Shift_L", "Shift_R"} \X {{"Shift", "Release"}}
    \cup {<<"Shift_L", {"Shift", "Control", "Release"}>>, <<"a", {"Release"}>>}
=============================================================================
