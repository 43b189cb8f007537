---------------------------- MODULE MCKeyboard ----------------------------
(* Keyboard for TLC: both Shift keys, Control, space, and a letter whose     *)
(* symbol differs between the layouts.                                       *)
EXTENDS Keyboard

MCKeys    == {"key Q", "key Space", "key Shift L", "key Shift R", "key Control"}
MCControl == {"key Control"}
MCSystem  == [k \in MCKeys |->
  CASE k = "key Q" -> "a" [] k = "key Space" -> "space"
    [] k = "key Shift L" -> "Shift_L" [] k = "key Shift R" -> "Shift_R"
    [] k = "key Control" -> "special"]
MCUS      == [MCSystem EXCEPT !["key Q"] = "q", !["key Shift R"] = "VoidSymbol"]

MCDigitKeys     == {"1"}
MCKeypadKeys    == {}
MCPrintableKeys == {"a", "q"}
MCKPNormal      == [k \in {} |-> "1"]
MCUpper         == [k \in {} |-> ""]
MCSelKeys       == {<<"1">>}
\* The right Shift alone is the mirror image of the left one.
MCConfs         == [toggle : {"s", "l"}, case : {"n"}, vertical : {FALSE}]

\* The options no key here depends on have their defaults.
MCKeyboardInit == KeyboardInit /\ ctx.fwKey /\ ~ctx.escAll
MCKeyboardSpec == MCKeyboardInit /\ [][KeyboardNext]_allKeyVars
=============================================================================
