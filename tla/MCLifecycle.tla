----------------------------- MODULE MCLifecycle -----------------------------
(***************************************************************************)
(* Small instances of Lifecycle: model values for processes and plists.     *)
(***************************************************************************)
EXTENDS Lifecycle

CONSTANTS d1, d2, d3, v1, v2
===============================================================================
