------------------------- MODULE MCBackgroundTasks -------------------------
(***************************************************************************)
(* Model-checking instances of BackgroundTasks.                            *)
(***************************************************************************)
EXTENDS BackgroundTasks
=============================================================================
