---------------------------- MODULE MCSettings ----------------------------
(* Settings for TLC: every layout, and of each other setting the values that *)
(* the code treats differently.  "input method" has no row in the window.    *)
EXTENDS Settings

MCProcs == {"engine", "its successor"}
MCPicks ==
  [kbType |-> {"colemak"}, selKeys |-> {"asdfghjkl;"},
   conversion |-> {"fuzzy-chewing"}, sync |-> {"disable", "keyboard"}]
MCValues ==
  [kbType |-> {"workman"}, selKeys |-> {}, conversion |-> {},
   sync |-> {"input method"}, candPerPage |-> {10}]
=============================================================================
