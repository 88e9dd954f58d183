----------------------------- MODULE MCLogger ------------------------------
(* A small instance of Logger. *)
EXTENDS Logger
=============================================================================
