----------------------------- MODULE MCDispatch -----------------------------
(* Two workers; a listener and a session it makes. *)
EXTENDS Dispatch
=============================================================================
