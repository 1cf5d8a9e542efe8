----------------------------- MODULE MCKeyboard -----------------------------
(***************************************************************************)
(* An instance of KeyboardEndpoint that types with and without modifiers,  *)
(* and releases what it held.                                              *)
(***************************************************************************)
EXTENDS KeyboardEndpoint

MCTyped ==
  <<<<2, <<4>>>>, <<0, << >>>>, <<0, <<5, 6>>>>, <<1, <<5>>>>, <<0, << >>>>>>
=============================================================================
