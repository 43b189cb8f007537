---------------------------- MODULE InputMethod ----------------------------
(***************************************************************************)
(* What an input method promises the client it types for, whatever library *)
(* converts the keys: every character typed goes to that client, once, or  *)
(* is erased by it; the client with the focus alone gets it; a key's       *)
(* commits are given before anything else happens.                         *)
(*                                                                         *)
(* Engine implements this specification (Engine!ImplementsInputMethod).    *)
(***************************************************************************)
EXTENDS Integers

VARIABLES
  composing,  \* characters the client in focus shows and has not been given
  committed,  \* characters a key committed that are still to be given
  given,      \* characters given to a client in the last step
  focused,    \* whether a client has the focus
  sealed      \* whether it is a password field

imVars == <<composing, committed, given, focused, sealed>>

TypeInvariant ==
  /\ composing \in Nat /\ committed \in Nat /\ given \in Nat
  /\ focused \in BOOLEAN /\ sealed \in BOOLEAN

\* Keys and clicks are taken one at a time, in a field that may be read.
Ready == committed = 0 /\ given' = 0
Typing == Ready /\ focused /\ ~sealed /\ UNCHANGED <<focused, sealed>>

\* A key adds at most one character and loses none: what it commits was being
\* composed or is its own.
Type ==
  /\ Typing
  /\ composing' \in Nat /\ committed' \in Nat
  /\ composing' + committed' \in {composing, composing + 1}

\* A key that erases commits nothing.
Erase ==
  /\ Typing
  /\ composing' \in Nat /\ composing' < composing
  /\ committed' = 0

\* What a key committed goes to the client it was typed for.
Publish ==
  /\ committed > 0 /\ focused
  /\ given' = committed
  /\ committed' = 0
  /\ UNCHANGED <<composing, focused, sealed>>

\* The client's reset, after which it shows nothing.
Discard ==
  /\ Ready
  /\ composing' = 0
  /\ UNCHANGED <<committed, focused, sealed>>

GainFocus ==
  /\ Ready /\ ~focused
  /\ focused' = TRUE
  /\ UNCHANGED <<composing, committed, sealed>>

\* A client that loses the focus keeps the characters it was shown.
LoseFocus ==
  /\ committed = 0 /\ focused
  /\ focused' = FALSE
  /\ given' = composing
  /\ composing' = 0
  /\ UNCHANGED <<committed, sealed>>

Seal ==
  /\ Ready
  /\ sealed' \in BOOLEAN
  /\ UNCHANGED <<composing, committed, focused>>

\* A step that gives nothing and takes nothing.
Other == Ready /\ UNCHANGED <<composing, committed, focused, sealed>>

IMInit ==
  /\ composing = 0 /\ committed = 0 /\ given = 0
  /\ focused = FALSE /\ sealed = FALSE

IMNext ==
  \/ Type \/ Erase \/ Publish \/ Discard
  \/ GainFocus \/ LoseFocus \/ Seal \/ Other

IMSpec == IMInit /\ [][IMNext]_imVars

Fairness == WF_imVars(Publish)
IMFairSpec == IMSpec /\ Fairness
=============================================================================
