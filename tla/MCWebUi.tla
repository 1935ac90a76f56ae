------------------------------- MODULE MCWebUi -------------------------------
(***************************************************************************)
(* Model checking of WebUi.                                                *)
(***************************************************************************)
EXTENDS WebUi
=============================================================================
