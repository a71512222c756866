------------------------------ MODULE MCLogger ------------------------------
(* Logger as TLC checks it; all constants are given in the configuration. *)
EXTENDS Logger
=============================================================================
