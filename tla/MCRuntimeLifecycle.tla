------------------------- MODULE MCRuntimeLifecycle -------------------------
(***************************************************************************)
(* The life of a server process alone, with one license key: enough for a  *)
(* deactivation to overtake a refresh.                                     *)
(***************************************************************************)
EXTENDS RuntimeLifecycle
=============================================================================
