---------------------------- MODULE MCLifecycle -----------------------------
(* Lifecycle as TLC checks it; the bounds are given in the configuration. *)
EXTENDS Lifecycle
=============================================================================
